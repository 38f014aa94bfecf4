---------------------------- MODULE PayloadProofs ----------------------------
(***************************************************************************)
(* What a payload is started with: its privileges and the program that     *)
(* decides on its system calls (ChildPrivileges), for any threads, any     *)
(* number of the kernel's capabilities, any lists of names and any system  *)
(* calls; and its configuration and environment (Configuration), for any   *)
(* command line, file and environment of the host, and any width of a word. *)
(***************************************************************************)
EXTENDS ChildPrivileges, Configuration, SequenceTheorems, FiniteSetTheorems,
        WellFoundedInduction, TLAPS

-----------------------------------------------------------------------------
(* Operators of the code.                                                  *)

\* The step that follows another.
LEMMA StepThen ==
  ASSUME NEW i \in 1..6
  PROVE  Then(Steps[i]) = Steps[i + 1]
<1>1. DOMAIN Steps = 1..7
  BY DEF Steps
<1>2. \A j, k \in 1..7 : Steps[j] = Steps[k] => j = k
  BY DEF Steps
<1> DEFINE k == CHOOSE k \in DOMAIN Steps : Steps[k] = Steps[i]
<1>3. k \in DOMAIN Steps /\ Steps[k] = Steps[i]
  <2>1. i \in DOMAIN Steps
    BY <1>1
  <2> QED
    BY <2>1
<1>4. k = i
  BY <1>1, <1>2, <1>3
<1>5. Then(Steps[i]) = Steps[1 + k]
  BY DEF Then
<1> HIDE DEF k
<1>6. 1 + k = i + 1
  BY <1>4
<1> QED
  BY <1>5, <1>6

\* The order of the steps of the child.
LEMMA NextSteps ==
  /\ Then("collect") = "bounding" /\ Then("bounding") = "capset"
  /\ Then("capset") = "ambient" /\ Then("ambient") = "noNewPrivs"
  /\ Then("noNewPrivs") = "seccomp" /\ Then("seccomp") = "start"
<1>1. /\ Steps[1] = "collect" /\ Steps[2] = "bounding" /\ Steps[3] = "capset"
      /\ Steps[4] = "ambient" /\ Steps[5] = "noNewPrivs" /\ Steps[6] = "seccomp"
      /\ Steps[7] = "start"
  BY DEF Steps
<1>2. /\ Then(Steps[1]) = Steps[2] /\ Then(Steps[2]) = Steps[3] /\ Then(Steps[3]) = Steps[4]
      /\ Then(Steps[4]) = Steps[5] /\ Then(Steps[5]) = Steps[6] /\ Then(Steps[6]) = Steps[7]
  BY StepThen
<1> QED
  BY <1>1, <1>2

\* The number that is taken next is one that is still to be taken.
LEMMA NumberInTodo ==
  ASSUME todo \subseteq Nat, todo # {}
  PROVE  Number \in todo
<1> DEFINE S == todo \ {SETPCAP}
           R == OpToRel(<, Nat)
<1>1. CASE todo = {SETPCAP}
  BY <1>1 DEF Number
<1>2. CASE todo # {SETPCAP}
  <2>1. S # {} /\ S \subseteq Nat
    BY <1>2
  <2>2. PICK x \in S : \A y \in S : ~(<<y, x>> \in R)
    BY <2>1, NatLessThanWellFounded, WFMin
  <2>less. R = {ss \in Nat \X Nat : ss[1] < ss[2]}
    BY Zenon DEF OpToRel
  <2> HIDE DEF R
  <2>3. ASSUME NEW y \in S PROVE x <= y
    <3>1. x \in Nat /\ y \in Nat
      BY <2>1
    <3>2. y < x => <<y, x>> \in R
      BY <2>less, <3>1
    <3> QED
      BY <2>2, <3>1, <3>2
  <2>4. Min(S) \in S
    BY <2>3 DEF Min
  <2> QED
    BY <1>2, <2>4 DEF Number
<1> QED
  BY <1>1, <1>2

\* What is dropped, and the numbers there are.
LEMMA DroppedType ==
  ASSUME request \in Requests
  PROVE  /\ Dropped \subseteq Caps \cup 0..LastName
         /\ Caps \subseteq Nat /\ 0..LastName \subseteq Nat
         /\ request = {} => Dropped = {}
         /\ SETPCAP \in Caps
BY ConfinementAssumption DEF Dropped, Caps

-----------------------------------------------------------------------------
(* The sets of a thread.                                                   *)

\* A thread that may use some capabilities and has the bounding set b.
ThreadSets(used, b) ==
  [e \in Sets |-> IF e \in {"inheritable", "ambient"} THEN {}
                  ELSE IF e = "bounding" THEN b ELSE used]

\* The five sets of a thread that uses some capabilities, with some in the bounding set.
LEMMA ThreadSetsAre ==
  ASSUME NEW used, NEW b
  PROVE  LET sets == ThreadSets(used, b)
         IN  /\ sets["effective"] = used /\ sets["permitted"] = used
             /\ sets["inheritable"] = {} /\ sets["ambient"] = {} /\ sets["bounding"] = b
             /\ DOMAIN sets = Sets
             /\ (used \subseteq Caps /\ b \subseteq Caps => sets \in [Sets -> SUBSET Caps])
BY DEF ThreadSets, Sets

\* The child begins with all of them.
LEMMA FullSetsAre == FullSets = ThreadSets(Caps, Caps)
BY DEF FullSets, ThreadSets, Sets

\* What prctl, capset and exec make of such sets.
LEMMA BoundTaken ==
  ASSUME NEW used, NEW b, NEW n
  PROVE  [ThreadSets(used, b) EXCEPT !["bounding"] = b \ {n}] = ThreadSets(used, b \ {n})
BY DEF ThreadSets, Sets

\* capset takes the dropped capabilities out of what is used.
LEMMA SetsTaken ==
  ASSUME NEW used, NEW b
  PROVE  [s \in Sets |-> CASE s = "bounding" -> ThreadSets(used, b)[s]
                           [] s = "ambient" -> (ThreadSets(used, b)[s]
                                \cap ThreadSets(used, b)["inheritable"]) \ Dropped
                           [] OTHER -> ThreadSets(used, b)[s] \ Dropped]
         = ThreadSets(used \ Dropped, b)
<1> DEFINE sets == ThreadSets(used, b)
           taken == [s \in Sets |-> CASE s = "bounding" -> sets[s]
                                      [] s = "ambient" -> (sets[s] \cap sets["inheritable"]) \ Dropped
                                      [] OTHER -> sets[s] \ Dropped]
<1>1. /\ sets["effective"] = used /\ sets["permitted"] = used
      /\ sets["inheritable"] = {} /\ sets["ambient"] = {} /\ sets["bounding"] = b
  BY ThreadSetsAre
<1> HIDE DEF sets
<1>2. /\ taken["effective"] = used \ Dropped /\ taken["permitted"] = used \ Dropped
      /\ taken["inheritable"] = {} /\ taken["ambient"] = {} /\ taken["bounding"] = b
  BY <1>1 DEF Sets
<1>3. taken = [s \in Sets |-> taken[s]]
  OBVIOUS
<1> HIDE DEF taken
<1>4. taken = ThreadSets(used \ Dropped, b)
  BY <1>2, <1>3 DEF ThreadSets, Sets
<1> QED
  BY <1>4 DEF taken, sets

\* The ambient set was empty already.
LEMMA AmbientTaken ==
  ASSUME NEW used, NEW b
  PROVE  [ThreadSets(used, b) EXCEPT !["ambient"] = {}] = ThreadSets(used, b)
BY DEF ThreadSets, Sets

\* execve leaves the sets of one that uses all its bounding set has.
LEMMA Executed ==
  ASSUME NEW used
  PROVE  AfterExec(ThreadSets(used, used), TRUE) = ThreadSets(used, used)
<1> DEFINE sets == ThreadSets(used, used)
<1>1. /\ sets["effective"] = used /\ sets["permitted"] = used
      /\ sets["inheritable"] = {} /\ sets["ambient"] = {} /\ sets["bounding"] = used
  BY ThreadSetsAre
<1>e. sets = [e \in Sets |-> sets[e]]
  BY DEF ThreadSets
<1> HIDE DEF sets
<1>2. (sets["bounding"] \cup sets["inheritable"]) \cap sets["permitted"] = used
  BY <1>1
<1>3. AfterExec(sets, TRUE) = [e \in Sets |-> IF e \in {"effective", "permitted"} THEN used ELSE sets[e]]
  BY <1>2 DEF AfterExec
<1>4. AfterExec(sets, TRUE) = sets
  BY <1>1, <1>e, <1>3 DEF Sets
<1> QED
  BY <1>4 DEF sets

-----------------------------------------------------------------------------
(* Giving up privileges.                                                   *)

Pcs == {"lock", "collect", "bounding", "capset", "ambient", "noNewPrivs", "seccomp",
        "start", "running", "failed"}

\* What the thread of the goroutine may use, and its bounding set, step by step.
Left == Caps \ Dropped
Used == IF pc \in {"lock", "collect", "bounding", "capset"} THEN Caps ELSE Left
Bounded ==
  CASE pc \in {"lock", "collect"} -> Caps
    [] pc = "bounding" -> Caps \ (Dropped \ todo)
    [] OTHER -> Left

\* The thread that the payload will be forked from has given up what it must, and
\* the filter and no_new_privs are where they must be.
Drops ==
  /\ pc \notin {"lock", "failed"} => locked
  /\ pc = "lock" => \A t \in Threads : caps[t] = FullSets
  /\ pc # "failed" => Mine = ThreadSets(Used, Bounded)
  /\ pc = "bounding" => todo \subseteq Dropped
  /\ pc = "seccomp" => on \in nnp
  /\ pc \in {"start", "running"} => live \subseteq filtered \cap nnp

PayloadAsLeft ==
  payload # None =>
    /\ payload \in Payloads
    /\ payload.nnp /\ payload.filtered
    /\ payload.sets = ThreadSets(Left, Left)

\* The steps of the child and those of its filter go together.
InStep ==
  /\ pc \in {"lock", "collect", "bounding", "capset", "ambient"} => filter = "build"
  /\ pc = "noNewPrivs" => filter \in {"build", "install", "refused"}
  /\ pc = "seccomp" => filter = "install"
  /\ pc \in {"start", "running"} => filter \in {"installed", "filter", "decided"}
  /\ filter \in {"filter", "decided"} => pc = "running"

ConfinedInv ==
  /\ TypeOK /\ request \in Requests /\ locked \in BOOLEAN
  /\ Drops /\ PayloadAsLeft /\ InStep /\ NeverDenied

\* What the steps of the child find of the program: the kernel accepts it.
FilterReady == filter = "install" => Filter!Checked

\* The child begins as one that has dropped nothing yet.
LEMMA ConfinedInit == ChildInit => ConfinedInv
<1> SUFFICES ASSUME ChildInit PROVE ConfinedInv
  OBVIOUS
<1> USE DEF ChildInit, Init, Filter!Init
<1>1. Main \in Threads /\ on \in live /\ live \subseteq Threads
  BY ConfinementAssumption
<1>2. FullSets \in [Sets -> SUBSET Caps]
  BY FullSetsAre, ThreadSetsAre
<1>3. TypeOK /\ request \in Requests /\ locked \in BOOLEAN
  BY <1>1, <1>2 DEF TypeOK
<1>4. Drops
  BY <1>1, FullSetsAre DEF Drops, Used, Bounded, Mine
<1>5. PayloadAsLeft /\ InStep /\ NeverDenied
  BY DEF PayloadAsLeft, InStep, NeverDenied
<1> QED
  BY <1>3, <1>4, <1>5 DEF ConfinedInv

\* A step of the Go runtime: the thread of a locked goroutine keeps its sets, and
\* a new thread has the restrictions of an old one.
LEMMA RuntimeStep ==
  ASSUME ConfinedInv, Runtime, UNCHANGED filterVars
  PROVE  ConfinedInv'
<1>i. /\ TypeOK /\ request \in Requests /\ locked \in BOOLEAN
      /\ Drops /\ PayloadAsLeft /\ InStep /\ NeverDenied
  BY DEF ConfinedInv
<1>f. UNCHANGED filter
  BY DEF filterVars
<1>p. payload = None
  BY <1>i DEF TypeOK, Runtime, Migrate, NewThread
<1>1. ASSUME NEW t \in Threads, Migrate(t) PROVE ConfinedInv'
  <2>1. pc = "lock" /\ t \in live /\ on' = t
        /\ UNCHANGED <<pc, why, request, locked, live, todo, caps, nnp, filtered, payload>>
    BY <1>1, <1>i DEF Migrate, Drops
  <2>2. TypeOK'
    BY <2>1, <1>i DEF TypeOK
  <2>3. Drops'
    BY <2>1, <1>i, FullSetsAre DEF Drops, Mine, Used, Bounded
  <2> QED
    BY <2>1, <2>2, <2>3, <1>i, <1>f, <1>p DEF ConfinedInv, PayloadAsLeft, InStep, NeverDenied
<1>2. ASSUME NEW t \in Threads, NEW creator \in Threads, NewThread(t, creator)
      PROVE  ConfinedInv'
  <2>1. /\ t \notin live /\ creator \in live /\ t # on
        /\ live' = live \cup {t} /\ caps' = [caps EXCEPT ![t] = caps[creator]]
        /\ nnp' = IF creator \in nnp THEN nnp \cup {t} ELSE nnp
        /\ filtered' = IF creator \in filtered THEN filtered \cup {t} ELSE filtered
        /\ UNCHANGED <<pc, why, request, on, locked, todo, payload>>
    BY <1>2, <1>i DEF NewThread, TypeOK
  <2>2. /\ caps' \in [Threads -> [Sets -> SUBSET Caps]]
        /\ \A r \in Threads : caps'[r] = IF r = t THEN caps[creator] ELSE caps[r]
    BY <2>1, <1>i DEF TypeOK
  <2>3. TypeOK'
    BY <2>1, <2>2, <1>i DEF TypeOK
  <2>4. Mine' = Mine
    BY <2>1, <2>2, <1>i DEF Mine, TypeOK
  <2>5. pc = "lock" => \A r \in Threads : caps'[r] = FullSets
    BY <2>2, <1>i DEF Drops
  <2>6. pc \in {"start", "running"} => live' \subseteq filtered' \cap nnp'
    BY <2>1, <1>i DEF Drops
  <2>7. pc = "seccomp" => on \in nnp'
    BY <2>1, <1>i DEF Drops
  <2>8. Used' = Used /\ Bounded' = Bounded /\ Dropped' = Dropped
    BY <2>1 DEF Used, Bounded, Left, Dropped
  <2>9. Drops'
    BY <2>1, <2>4, <2>5, <2>6, <2>7, <2>8, <1>i DEF Drops
  <2> QED
    BY <2>1, <2>3, <2>9, <1>i, <1>f, <1>p DEF ConfinedInv, PayloadAsLeft, InStep, NeverDenied
<1> QED
  BY <1>1, <1>2 DEF Runtime

\* A step that fails ends the child before its payload.
LEMMA FailStep ==
  ASSUME ConfinedInv, pc \notin {"running", "failed"},
         NEW r \in {"proc", "unknown", "policy", "rejected", "other"}, Fail(r),
         filter' \notin {"filter", "decided"}
  PROVE  ConfinedInv'
<1>i. /\ TypeOK /\ request \in Requests /\ locked \in BOOLEAN
      /\ Drops /\ PayloadAsLeft /\ InStep /\ NeverDenied
  BY DEF ConfinedInv
<1>1. /\ pc' = "failed" /\ why' = r
      /\ UNCHANGED <<request, on, locked, live, todo, caps, nnp, filtered, payload>>
  BY DEF Fail
<1>2. payload = None
  BY <1>i DEF TypeOK
<1>3. TypeOK'
  BY <1>1, <1>2, <1>i DEF TypeOK
<1>4. Drops' /\ PayloadAsLeft' /\ InStep' /\ NeverDenied'
  BY <1>1, <1>2 DEF Drops, PayloadAsLeft, InStep, NeverDenied
<1> QED
  BY <1>1, <1>3, <1>4, <1>i DEF ConfinedInv

\* A step of dropCapabilities changes the sets of the goroutine's thread, and only
\* its; here is what the invariant asks of it.
LEMMA SetsStep ==
  ASSUME ConfinedInv, pc \notin {"running", "failed", "lock"}, pc' \in Pcs \ {"running", "failed", "lock"},
         UNCHANGED <<why, request, on, locked, live, payload>>,
         todo' \subseteq Caps \cup 0..LastName,
         pc' = "bounding" => todo' \subseteq Dropped,
         nnp' \subseteq live, filtered' \subseteq live,
         pc' = "seccomp" => on \in nnp',
         pc' = "start" => live \subseteq filtered' \cap nnp',
         caps' \in [Threads -> [Sets -> SUBSET Caps]],
         caps'[on] = ThreadSets(Used, Bounded)',
         InStep'
  PROVE  ConfinedInv'
<1>i. /\ TypeOK /\ request \in Requests /\ locked \in BOOLEAN
      /\ Drops /\ PayloadAsLeft /\ InStep /\ NeverDenied
  BY DEF ConfinedInv
<1>2. payload = None
  BY <1>i DEF TypeOK
<1>3. TypeOK'
  BY <1>2, <1>i DEF TypeOK, Pcs
<1>4. Drops'
  BY <1>i DEF Drops, Mine, Dropped
<1>5. PayloadAsLeft' /\ NeverDenied'
  BY <1>2, <1>i DEF PayloadAsLeft, NeverDenied
<1> QED
  BY <1>3, <1>4, <1>5, <1>i DEF ConfinedInv

\* The sets of one thread are given their new value.
LEMMA CapsOf ==
  ASSUME TypeOK, NEW sets \in [Sets -> SUBSET Caps], caps' = [caps EXCEPT ![on] = sets]
  PROVE  caps' \in [Threads -> [Sets -> SUBSET Caps]] /\ caps'[on] = sets
BY DEF TypeOK

\* The steps of dropCapabilities, from the lock of the thread to the ambient set.
LEMMA DropStep ==
  ASSUME ConfinedInv, DropCapabilities, UNCHANGED filterVars
  PROVE  ConfinedInv'
<1>i. /\ TypeOK /\ request \in Requests /\ locked \in BOOLEAN
      /\ Drops /\ PayloadAsLeft /\ InStep /\ NeverDenied
  BY DEF ConfinedInv
<1>f. UNCHANGED filter
  BY DEF filterVars
<1>on. on \in Threads /\ DOMAIN caps = Threads
  BY <1>i DEF TypeOK
<1>d. /\ Dropped \subseteq Caps \cup 0..LastName /\ Caps \subseteq Nat
      /\ Caps \cup 0..LastName \subseteq Nat
      /\ request = {} => Dropped = {}
      /\ SETPCAP \in Caps /\ Left \subseteq Caps
  BY <1>i, DroppedType DEF Left
<1>1. CASE LockOSThread
  <2>1. /\ pc = "lock" /\ pc' = (IF request = {} THEN "noNewPrivs" ELSE "collect")
        /\ locked' = TRUE
        /\ UNCHANGED <<why, request, on, live, todo, caps, nnp, filtered, payload>>
    BY <1>1 DEF LockOSThread
  <2>2. TypeOK'
    BY <2>1, <1>i DEF TypeOK
  <2>3. Mine = ThreadSets(Caps, Caps) /\ Mine' = Mine
    BY <2>1, <1>i, <1>on, FullSetsAre DEF Drops, Mine
  <2>4. Used' = Caps /\ Bounded' = Caps
    <3>1. CASE request = {}
      <4>1. Left' = Caps
        BY <1>d, <2>1, <3>1 DEF Left, Dropped
      <4> QED
        BY <2>1, <3>1, <4>1 DEF Used, Bounded
    <3>2. CASE request # {}
      BY <2>1, <3>2 DEF Used, Bounded
    <3> QED
      BY <3>1, <3>2
  <2>5. Drops'
    BY <2>1, <2>3, <2>4 DEF Drops
  <2>6. PayloadAsLeft' /\ InStep' /\ NeverDenied'
    BY <2>1, <2>2, <1>i, <1>f DEF PayloadAsLeft, InStep, NeverDenied, TypeOK
  <2> QED
    BY <2>1, <2>2, <2>5, <2>6, <1>i DEF ConfinedInv
<1>2. CASE pc = "collect" /\ Fail("proc")
  BY <1>2, <1>i, <1>f, FailStep DEF InStep
<1>3. CASE Collect /\ At("collect")
  <2>1. /\ pc = "collect" /\ pc' = "bounding" /\ todo' = Dropped
        /\ UNCHANGED <<why, request, on, locked, live, caps, nnp, filtered, payload>>
    BY <1>3, NextSteps DEF Collect, At, Fail, Numbers
  <2>2. Used' = Caps /\ Bounded' = Caps
    BY <2>1 DEF Used, Bounded, Dropped
  <2>3. Mine = ThreadSets(Caps, Caps)
    BY <2>1, <1>i DEF Drops, Used, Bounded
  <2> QED
    BY <2>1, <2>2, <2>3, <1>i, <1>d, <1>f, SetsStep DEF TypeOK, InStep, Pcs, Mine
<1>4. CASE DropBounding
  <2>1. pc = "bounding" /\ todo # {} /\ todo \subseteq Dropped
    BY <1>4, <1>i DEF DropBounding, Drops
  <2>2. Number \in todo
    BY <2>1, <1>d, NumberInTodo
  <2>3. Mine = ThreadSets(Caps, Caps \ (Dropped \ todo))
    BY <2>1, <1>i DEF Drops, Used, Bounded
  <2>4. Mine["effective"] = Caps /\ Mine["bounding"] = Caps \ (Dropped \ todo)
    BY <2>3, ThreadSetsAre
  <2>5. CASE Number \notin Caps
    <3>1. Fail("unknown")
      BY <1>4, <2>5 DEF DropBounding
    <3> QED
      BY <2>1, <3>1, <1>i, <1>f, FailStep DEF InStep
  <2>6. CASE Number \in Caps
    <3>1. /\ caps' = [caps EXCEPT ![on]["bounding"] = @ \ {Number}]
          /\ todo' = todo \ {Number}
          /\ UNCHANGED <<pc, why, request, on, locked, live, nnp, filtered, payload>>
      BY <1>4, <1>d, <2>4, <2>6 DEF DropBounding
    <3> DEFINE b == (Caps \ (Dropped \ todo)) \ {Number}
    <3>2. caps' = [caps EXCEPT ![on] = [Mine EXCEPT !["bounding"] = Mine["bounding"] \ {Number}]]
      BY <3>1, <1>on DEF Mine
    <3>3. [Mine EXCEPT !["bounding"] = Mine["bounding"] \ {Number}] = ThreadSets(Caps, b)
      <4> DEFINE before == Caps \ (Dropped \ todo)
      <4>1. Mine = ThreadSets(Caps, before) /\ Mine["bounding"] = before
        BY <2>3, <2>4
      <4> HIDE DEF before
      <4>2. [ThreadSets(Caps, before) EXCEPT !["bounding"] = before \ {Number}]
              = ThreadSets(Caps, before \ {Number})
        BY BoundTaken
      <4>3. b = before \ {Number}
        BY DEF before
      <4> QED
        BY <4>1, <4>2, <4>3
    <3>4. ThreadSets(Caps, b) \in [Sets -> SUBSET Caps]
      BY ThreadSetsAre
    <3>5. caps' \in [Threads -> [Sets -> SUBSET Caps]] /\ caps'[on] = ThreadSets(Caps, b)
      BY <3>2, <3>3, <3>4, <1>i, CapsOf
    <3>6. Used' = Caps /\ Bounded' = b
      BY <2>1, <2>2, <3>1 DEF Used, Bounded, Dropped
    <3> QED
      BY <2>1, <3>1, <3>5, <3>6, <1>i, <1>d, <1>f, SetsStep DEF TypeOK, InStep, Pcs
  <2> QED
    BY <2>5, <2>6
<1>5. CASE BoundingDone
  <2>1. /\ pc = "bounding" /\ todo = {} /\ pc' = "capset"
        /\ UNCHANGED <<why, request, on, locked, live, todo, caps, nnp, filtered, payload>>
    BY <1>5, NextSteps DEF BoundingDone, At
  <2>2. Used' = Caps /\ Bounded' = Left
    BY <2>1 DEF Used, Bounded, Left, Dropped
  <2>3. Mine = ThreadSets(Caps, Left)
    BY <2>1, <1>i DEF Drops, Used, Bounded, Left
  <2> QED
    BY <2>1, <2>2, <2>3, <1>i, <1>d, <1>f, SetsStep DEF TypeOK, InStep, Pcs, Mine
<1>6. CASE Capset
  <2>1. /\ pc = "capset" /\ pc' = "ambient"
        /\ UNCHANGED <<why, request, on, locked, live, todo, nnp, filtered, payload>>
    BY <1>6, NextSteps DEF Capset, At
  <2>2. Mine = ThreadSets(Caps, Left)
    BY <2>1, <1>i DEF Drops, Used, Bounded
  <2>3. caps' = [caps EXCEPT ![on] =
          [s \in Sets |-> CASE s = "bounding" -> Mine[s]
                            [] s = "ambient" -> (Mine[s] \cap Mine["inheritable"]) \ Dropped
                            [] OTHER -> Mine[s] \ Dropped]]
    BY <1>6 DEF Capset, Mine
  <2>4. caps' = [caps EXCEPT ![on] = ThreadSets(Left, Left)]
    BY <2>2, <2>3, SetsTaken DEF Left
  <2>5. caps' \in [Threads -> [Sets -> SUBSET Caps]] /\ caps'[on] = ThreadSets(Left, Left)
    BY <2>4, <1>i, <1>d, ThreadSetsAre, CapsOf
  <2>6. Used' = Left /\ Bounded' = Left
    BY <2>1 DEF Used, Bounded, Left, Dropped
  <2> QED
    BY <2>1, <2>5, <2>6, <1>i, <1>d, <1>f, SetsStep DEF TypeOK, InStep, Pcs
<1>7. CASE ClearAmbient
  <2>1. /\ pc = "ambient" /\ pc' = "noNewPrivs"
        /\ caps' = [caps EXCEPT ![on]["ambient"] = {}]
        /\ UNCHANGED <<why, request, on, locked, live, todo, nnp, filtered, payload>>
    BY <1>7, NextSteps DEF ClearAmbient, At
  <2>2. Mine = ThreadSets(Left, Left)
    BY <2>1, <1>i DEF Drops, Used, Bounded
  <2>3. caps' = [caps EXCEPT ![on] = [Mine EXCEPT !["ambient"] = {}]]
    BY <2>1, <1>on DEF Mine
  <2>4. caps' = [caps EXCEPT ![on] = ThreadSets(Left, Left)]
    BY <2>2, <2>3, AmbientTaken
  <2>5. caps' \in [Threads -> [Sets -> SUBSET Caps]] /\ caps'[on] = ThreadSets(Left, Left)
    BY <2>4, <1>i, <1>d, ThreadSetsAre, CapsOf
  <2>6. Used' = Left /\ Bounded' = Left
    BY <2>1 DEF Used, Bounded, Left, Dropped
  <2> QED
    BY <2>1, <2>5, <2>6, <1>i, <1>d, <1>f, SetsStep DEF TypeOK, InStep, Pcs
<1> QED
  BY <1>1, <1>2, <1>3, <1>4, <1>5, <1>6, <1>7 DEF DropCapabilities, Collect

\* ApplySeccompFilter: no_new_privs, then the program, on every thread.
LEMMA ApplyStep ==
  ASSUME ConfinedInv, FilterReady, ApplySeccompFilter
  PROVE  ConfinedInv' /\ filter' # "rejected"
<1>i. /\ TypeOK /\ request \in Requests /\ locked \in BOOLEAN
      /\ Drops /\ PayloadAsLeft /\ InStep /\ NeverDenied
  BY DEF ConfinedInv
<1>1. CASE filter = "refused" /\ pc = "noNewPrivs" /\ Fail("policy") /\ UNCHANGED filterVars
  <2>1. filter' = "refused"
    BY <1>1 DEF filterVars
  <2> QED
    BY <1>1, <2>1, FailStep
<1>2. CASE filter = "install" /\ NoNewPrivs /\ UNCHANGED filterVars
  <2>1. /\ pc = "noNewPrivs" /\ pc' = "seccomp" /\ nnp' = nnp \cup {on} /\ filter' = "install"
        /\ UNCHANGED <<why, request, on, locked, live, todo, caps, filtered, payload>>
    BY <1>2, NextSteps DEF NoNewPrivs, At, filterVars
  <2>2. Mine = ThreadSets(Left, Left)
    BY <2>1, <1>i DEF Drops, Used, Bounded
  <2>3. Used' = Left /\ Bounded' = Left
    BY <2>1 DEF Used, Bounded, Left, Dropped
  <2> QED
    BY <2>1, <2>2, <2>3, <1>i, SetsStep DEF TypeOK, InStep, Pcs, Mine
<1>3. CASE /\ pc = "seccomp"
           /\ IF Filter!Checked THEN Install ELSE Fail("rejected")
           /\ IF Filter!Checked /\ pc' = "failed" THEN UNCHANGED filterVars ELSE Filter!Install
  <2>1. filter = "install" /\ Filter!Checked /\ on \in nnp
    BY <1>3, <1>i DEF InStep, FilterReady, Drops
  <2>2. /\ pc' = "start" /\ filtered' = live /\ nnp' = live
        /\ UNCHANGED <<why, request, on, locked, live, todo, caps, payload>>
    BY <1>3, <2>1, NextSteps DEF Install, At
  <2>3. filter' = "installed"
    BY <1>3, <2>1, <2>2 DEF Filter!Install
  <2>4. Mine = ThreadSets(Left, Left)
    BY <1>3, <1>i DEF Drops, Used, Bounded
  <2>5. Used' = Left /\ Bounded' = Left
    BY <2>2 DEF Used, Bounded, Left, Dropped
  <2> QED
    BY <1>3, <2>2, <2>3, <2>4, <2>5, <1>i, SetsStep DEF TypeOK, InStep, Pcs, Mine
<1> QED
  BY <1>1, <1>2, <1>3 DEF ApplySeccompFilter

\* The payload is forked from the goroutine's thread, and later execs.
LEMMA PayloadStep ==
  ASSUME ConfinedInv, StartPayload \/ PayloadExec, UNCHANGED filterVars
  PROVE  ConfinedInv'
<1>i. /\ TypeOK /\ request \in Requests /\ locked \in BOOLEAN
      /\ Drops /\ PayloadAsLeft /\ InStep /\ NeverDenied
  BY DEF ConfinedInv
<1>f. UNCHANGED filter
  BY DEF filterVars
<1>d. Left \subseteq Caps /\ ThreadSets(Left, Left) \in [Sets -> SUBSET Caps]
  BY ThreadSetsAre DEF Left
<1>1. CASE StartPayload
  <2>1. /\ pc = "start" /\ pc' = "running"
        /\ payload' = [sets |-> AfterExec(Mine, on \in nnp), nnp |-> on \in nnp,
                       filtered |-> on \in filtered]
        /\ UNCHANGED <<why, request, on, locked, live, todo, caps, nnp, filtered>>
    BY <1>1 DEF StartPayload
  <2>2. Mine = ThreadSets(Left, Left) /\ on \in nnp /\ on \in filtered
    BY <2>1, <1>i DEF Drops, Used, Bounded, TypeOK
  <2>3. payload' = [sets |-> ThreadSets(Left, Left), nnp |-> TRUE, filtered |-> TRUE]
    <3>1. (on \in nnp) = TRUE /\ (on \in filtered) = TRUE
      BY <2>2
    <3> QED
      BY <2>1, <2>2, <3>1, Executed
  <2>4. payload' \in Payloads /\ payload' # None
    <3>1. payload' \in Payloads
      BY <2>3, <1>d DEF Payloads
    <3> QED
      BY <3>1, NoneAssumption
  <2>5. Left' = Left /\ Used' = Left /\ Bounded' = Left
    BY <2>1 DEF Used, Bounded, Left, Dropped
  <2>6. TypeOK'
    BY <2>1, <2>4, <1>i DEF TypeOK
  <2>7. Drops'
    BY <2>1, <2>2, <2>5, <1>i DEF Drops, Mine
  <2>8. PayloadAsLeft' /\ InStep' /\ NeverDenied'
    BY <2>1, <2>3, <2>4, <2>5, <1>i, <1>f DEF PayloadAsLeft, InStep, NeverDenied
  <2> QED
    BY <2>1, <2>6, <2>7, <2>8, <1>i DEF ConfinedInv
<1>2. CASE PayloadExec
  <2>1. /\ pc = "running" /\ payload # None
        /\ payload' = [payload EXCEPT !.sets = AfterExec(payload.sets, payload.nnp)]
        /\ UNCHANGED <<pc, why, request, on, locked, live, todo, caps, nnp, filtered>>
    BY <1>2, <1>i DEF PayloadExec, TypeOK
  <2>2. /\ payload \in Payloads /\ payload.nnp = TRUE /\ payload.filtered = TRUE
        /\ payload.sets = ThreadSets(Left, Left)
    BY <2>1, <1>i DEF PayloadAsLeft, Payloads
  <2>3. AfterExec(payload.sets, payload.nnp) = ThreadSets(Left, Left)
    BY <2>2, Executed
  <2>4. payload' = payload
    BY <2>1, <2>2, <2>3 DEF Payloads
  <2> QED
    BY <2>1, <2>4, <1>i, <1>f
       DEF ConfinedInv, TypeOK, Drops, PayloadAsLeft, InStep, NeverDenied, Mine, Used, Bounded,
           Left, Dropped
<1> QED
  BY <1>1, <1>2

\* While only the filter goes on, or nothing at all.
LEMMA FilterOnlyStep ==
  ASSUME ConfinedInv, UNCHANGED vars, InStep'
  PROVE  ConfinedInv'
BY DEF ConfinedInv, vars, TypeOK, Drops, PayloadAsLeft, NeverDenied, Mine, Used, Bounded,
       Left, Dropped

\* Every step keeps what the steps before it have dropped.
LEMMA ConfinedStep ==
  ASSUME ConfinedInv, FilterReady, [ChildNext]_<<vars, filterVars>>
  PROVE  ConfinedInv' /\ (filter # "rejected" => filter' # "rejected")
<1>i. TypeOK /\ InStep /\ NeverDenied
  BY DEF ConfinedInv
<1>1. CASE Runtime /\ UNCHANGED filterVars
  BY <1>1, RuntimeStep DEF filterVars
<1>2. CASE DropCapabilities /\ UNCHANGED filterVars
  BY <1>2, DropStep DEF filterVars
<1>3. CASE BuildFilter
  <2>1. pc = "noNewPrivs" /\ UNCHANGED vars /\ filter' \in {"install", "refused"}
    BY <1>3 DEF BuildFilter, Filter!Build
  <2>2. InStep'
    BY <2>1, <1>i DEF InStep, vars
  <2> QED
    BY <2>1, <2>2, FilterOnlyStep
<1>4. CASE ApplySeccompFilter
  BY <1>4, ApplyStep
<1>5. CASE (StartPayload \/ PayloadExec) /\ UNCHANGED filterVars
  BY <1>5, PayloadStep DEF filterVars
<1>6. CASE SystemCall
  <2>1. /\ pc = "running" /\ UNCHANGED vars
        /\ filter' \in {"installed", "filter", "decided"}
    <3>1. /\ pc = "running" /\ UNCHANGED vars
          /\ (\E c \in Calls : Filter!Enter(c)) \/ Filter!Execute
      BY <1>6 DEF SystemCall
    <3>2. CASE \E c \in Calls : Filter!Enter(c)
      BY <3>1, <3>2 DEF Filter!Enter
    <3>3. CASE Filter!Execute
      BY <3>1, <3>3 DEF Filter!Execute
    <3> QED
      BY <3>1, <3>2, <3>3
  <2>2. InStep'
    BY <2>1 DEF InStep, vars
  <2> QED
    BY <2>1, <2>2, FilterOnlyStep
<1>7. CASE OtherError /\ UNCHANGED filterVars
  <2>1. /\ pc \notin {"lock", "running", "failed"} /\ Fail("other")
        /\ filter' = filter
    BY <1>7 DEF OtherError, filterVars
  <2>2. filter \notin {"filter", "decided"}
    BY <2>1, <1>i DEF InStep
  <2> QED
    BY <2>1, <2>2, FailStep
<1>8. CASE (Refused /\ UNCHANGED filterVars) \/ UNCHANGED <<vars, filterVars>>
  <2>1. UNCHANGED vars /\ filter' = filter
    BY <1>8 DEF Refused, filterVars
  <2>2. InStep'
    BY <2>1, <1>i DEF InStep, vars
  <2> QED
    BY <2>1, <2>2, FilterOnlyStep
<1> QED
  BY <1>1, <1>2, <1>3, <1>4, <1>5, <1>6, <1>7, <1>8 DEF ChildNext

-----------------------------------------------------------------------------
(* The filter.                                                             *)

FilterStates == {"build", "install", "refused", "installed", "filter", "decided"}

Guards == Len(Filter!x32Guard)
Blocked == Len(policy.names)
BlockedNumber(i) == Filter!syscallNameToNumber[policy.names[i]]

\* Where the instructions for the i-th blocked name begin, and where the last is.
CheckAt(i) == 3 + Guards + 2 * i

OurCall == call.arch = Filter!auditArchitecture
X32Call == Filter!x32ABIBit # 0 /\ Filter!HasBit(call.nr, Filter!x32ABIBit)

\* What is known of the call before the instruction ip.
Reached ==
  \/ ip = 1
  \/ ip = 2 /\ acc = call.arch
  \/ ip = 3 /\ ~OurCall
  \/ ip = 4 /\ OurCall
  \/ ip = 5 /\ Guards = 2 /\ OurCall /\ acc = call.nr
  \/ ip = 6 /\ Guards = 2 /\ OurCall /\ X32Call
  \/ \E i \in 1..(Blocked + 1) :
       /\ ip = CheckAt(i) /\ OurCall /\ ~X32Call /\ acc = call.nr
       /\ \A j \in 1..(i - 1) : BlockedNumber(j) # call.nr
  \/ \E i \in 1..Blocked :
       ip = CheckAt(i) + 1 /\ OurCall /\ ~X32Call /\ BlockedNumber(i) = call.nr

FilterInv ==
  /\ filter \in FilterStates
  /\ arch \in {"amd64", "arm64", "other"}
  /\ policy \in [names : Policies, action : Actions]
  /\ call.arch \in Nat /\ call.nr \in Nat
  /\ filter \in {"install", "installed", "filter", "decided"} =>
       /\ Filter!ValidPolicy
       /\ program = Filter!instructions /\ Len(Filter!instructions) <= MaxInsns
  /\ filter = "filter" => Reached
  /\ Filter!DecidesByPolicy

\* What two sequences have when one follows the other.
LEMMA JoinedTwo ==
  ASSUME NEW S, NEW a \in Seq(S), NEW b \in Seq(S)
  PROVE  /\ a \o b \in Seq(S) /\ Len(a \o b) = Len(a) + Len(b)
         /\ \A i \in 1..Len(a) : (a \o b)[i] = a[i]
         /\ \A i \in 1..Len(b) : (a \o b)[Len(a) + i] = b[i]
<1>1. Len(a) \in Nat /\ Len(b) \in Nat
  BY LenProperties
<1> DEFINE s == a \o b
<1>2. /\ s \in Seq(S) /\ Len(s) = Len(a) + Len(b)
      /\ \A i \in 1..(Len(a) + Len(b)) : s[i] = IF i <= Len(a) THEN a[i] ELSE b[i - Len(a)]
  BY ConcatProperties
<1> HIDE DEF s
<1>3. ASSUME NEW i \in 1..Len(a) PROVE s[i] = a[i]
  BY <1>1, <1>2
<1>4. ASSUME NEW i \in 1..Len(b) PROVE s[Len(a) + i] = b[i]
  <2>1. Len(a) + i \in 1..(Len(a) + Len(b)) /\ ~(Len(a) + i <= Len(a)) /\ Len(a) + i - Len(a) = i
    BY <1>1
  <2> QED
    BY <1>2, <2>1
<1> QED
  BY <1>2, <1>3, <1>4 DEF s

\* The parts of a sequence that is put together of four.
LEMMA Joined ==
  ASSUME NEW S, NEW a \in Seq(S), NEW b \in Seq(S), NEW c \in Seq(S), NEW d \in Seq(S),
         NEW s, s = a \o b \o c \o d
  PROVE  /\ Len(s) = Len(a) + Len(b) + Len(c) + Len(d)
         /\ DOMAIN s = 1..Len(s)
         /\ \A i \in 1..Len(a) : s[i] = a[i]
         /\ \A i \in 1..Len(b) : s[Len(a) + i] = b[i]
         /\ \A i \in 1..Len(c) : s[Len(a) + Len(b) + i] = c[i]
         /\ \A i \in 1..Len(d) : s[Len(a) + Len(b) + Len(c) + i] = d[i]
<1> DEFINE ab == a \o b
           abc == ab \o c
<1>s. s = abc \o d
  OBVIOUS
<1>1. Len(a) \in Nat /\ Len(b) \in Nat /\ Len(c) \in Nat /\ Len(d) \in Nat
  BY LenProperties
<1>2. /\ ab \in Seq(S) /\ Len(ab) = Len(a) + Len(b)
      /\ (\A i \in 1..Len(a) : ab[i] = a[i]) /\ \A i \in 1..Len(b) : ab[Len(a) + i] = b[i]
  BY JoinedTwo
<1> HIDE DEF ab
<1>3. /\ abc \in Seq(S) /\ Len(abc) = Len(ab) + Len(c)
      /\ (\A i \in 1..Len(ab) : abc[i] = ab[i]) /\ \A i \in 1..Len(c) : abc[Len(ab) + i] = c[i]
  <2>1. ab \in Seq(S) /\ c \in Seq(S)
    BY <1>2
  <2> QED
    BY <2>1, JoinedTwo
<1> HIDE DEF abc
<1>4. /\ s \in Seq(S) /\ Len(s) = Len(abc) + Len(d)
      /\ (\A i \in 1..Len(abc) : s[i] = abc[i]) /\ \A i \in 1..Len(d) : s[Len(abc) + i] = d[i]
  <2>1. abc \in Seq(S) /\ d \in Seq(S)
    BY <1>3
  <2> QED
    BY <1>s, <2>1, JoinedTwo
<1>5. DOMAIN s = 1..Len(s)
  BY <1>4, LenProperties
<1>6. Len(ab) = Len(a) + Len(b) /\ Len(abc) = Len(a) + Len(b) + Len(c)
  BY <1>2, <1>3
<1>7. ASSUME NEW i \in 1..Len(a) PROVE s[i] = a[i]
  <2>1. i \in 1..Len(ab) /\ i \in 1..Len(abc)
    BY <1>1, <1>6
  <2> QED
    BY <1>2, <1>3, <1>4, <2>1
<1>8. ASSUME NEW i \in 1..Len(b) PROVE s[Len(a) + i] = b[i]
  <2>1. Len(a) + i \in 1..Len(ab) /\ Len(a) + i \in 1..Len(abc)
    BY <1>1, <1>6
  <2> QED
    BY <1>2, <1>3, <1>4, <2>1
<1>9. ASSUME NEW i \in 1..Len(c) PROVE s[Len(a) + Len(b) + i] = c[i]
  <2>1. Len(ab) + i \in 1..Len(abc)
    BY <1>1, <1>6
  <2> QED
    BY <1>3, <1>4, <1>6, <2>1
<1>10. \A i \in 1..Len(d) : s[Len(a) + Len(b) + Len(c) + i] = d[i]
  BY <1>4, <1>6
<1> QED
  BY <1>1, <1>4, <1>5, <1>6, <1>7, <1>8, <1>9, <1>10 DEF abc, ab

\* What buildFilter puts where.
LEMMA Layout ==
  ASSUME arch \in {"amd64", "arm64", "other"}, policy \in [names : Policies, action : Actions]
  PROVE  LET insns == Filter!instructions
         IN  /\ Blocked \in Nat /\ Guards \in {0, 2} /\ (Guards = 2 <=> Filter!x32ABIBit # 0)
             /\ DOMAIN policy.names = 1..Blocked
             /\ Len(insns) = 5 + Guards + 2 * Blocked /\ DOMAIN insns = 1..Len(insns)
             /\ insns[1] = Filter!Load("arch")
             /\ insns[2] = Filter!Insn("JEQ", 1, 0, Filter!auditArchitecture)
             /\ insns[3] = Filter!Ret("KILL_PROCESS")
             /\ insns[4] = Filter!Load("nr")
             /\ Guards = 2 => /\ insns[5] = Filter!Insn("JSET", 0, 1, Filter!x32ABIBit)
                              /\ insns[6] = Filter!Ret("KILL_PROCESS")
             /\ \A i \in 1..Blocked :
                  /\ insns[CheckAt(i)] = Filter!Insn("JEQ", 0, 1, BlockedNumber(i))
                  /\ insns[CheckAt(i) + 1] = Filter!Ret(Filter!Returns[policy.action])
             /\ insns[CheckAt(Blocked + 1)] = Filter!Ret("ALLOW")
<1> DEFINE head == <<Filter!Load("arch"), Filter!Insn("JEQ", 1, 0, Filter!auditArchitecture),
                     Filter!Ret("KILL_PROCESS"), Filter!Load("nr")>>
           guard == Filter!x32Guard
           body == Filter!checks
           end == <<Filter!Ret("ALLOW")>>
           S == {head[i] : i \in 1..4} \cup {guard[i] : i \in 1..2}
                  \cup {body[i] : i \in 1..(2 * Blocked)} \cup {end[1]}
<1>1. policy.names \in Seq(STRING)
  BY PoliciesAssumption
<1>2. Blocked \in Nat /\ DOMAIN policy.names = 1..Blocked
  BY <1>1, LenProperties DEF Blocked
<1>3. /\ (Filter!x32ABIBit = 0 => Len(guard) = 0)
      /\ (Filter!x32ABIBit # 0 => /\ Len(guard) = 2
                                  /\ guard[1] = Filter!Insn("JSET", 0, 1, Filter!x32ABIBit)
                                  /\ guard[2] = Filter!Ret("KILL_PROCESS"))
      /\ guard \in Seq(S)
  <2>1. CASE Filter!x32ABIBit = 0
    <3>1. guard = <<>>
      BY <2>1 DEF Filter!x32Guard
    <3> HIDE DEF guard, S
    <3> QED
      BY <2>1, <3>1
  <2>2. CASE Filter!x32ABIBit # 0
    <3>1. guard = <<Filter!Insn("JSET", 0, 1, Filter!x32ABIBit), Filter!Ret("KILL_PROCESS")>>
      BY <2>2 DEF Filter!x32Guard
    <3>2. guard[1] \in S /\ guard[2] \in S
      OBVIOUS
    <3> HIDE DEF guard, S
    <3> QED
      BY <2>2, <3>1, <3>2
  <2> QED
    BY <2>1, <2>2
<1>4. head \in Seq(S) /\ Len(head) = 4
  <2>1. head[1] \in S /\ head[2] \in S /\ head[3] \in S /\ head[4] \in S
    OBVIOUS
  <2> HIDE DEF S
  <2> QED
    BY <2>1
<1>5. end \in Seq(S) /\ Len(end) = 1 /\ end[1] = Filter!Ret("ALLOW")
  <2>1. end[1] \in S
    OBVIOUS
  <2> HIDE DEF S
  <2> QED
    BY <2>1
<1>6. body \in Seq(S) /\ Len(body) = 2 * Blocked
  <2>1. \A i \in 1..(2 * Blocked) : body[i] \in S
    OBVIOUS
  <2>2. body = [i \in 1..(2 * Blocked) |-> body[i]]
    BY DEF Filter!checks, Blocked
  <2> HIDE DEF S, body
  <2>3. body \in [1..(2 * Blocked) -> S] /\ 2 * Blocked \in Nat
    BY <1>2, <2>1, <2>2
  <2> QED
    BY <2>3
<1>7. ASSUME NEW i \in 1..Blocked
      PROVE  /\ 2 * i - 1 \in 1..(2 * Blocked) /\ 2 * i \in 1..(2 * Blocked)
             /\ body[2 * i - 1] = Filter!Insn("JEQ", 0, 1, BlockedNumber(i))
             /\ body[2 * i] = Filter!Ret(Filter!Returns[policy.action])
  <2>1. /\ 2 * i - 1 \in 1..(2 * Blocked) /\ 2 * i \in 1..(2 * Blocked)
        /\ (2 * i - 1) % 2 = 1 /\ (2 * i) % 2 # 1 /\ ((2 * i - 1) + 1) \div 2 = i
    BY <1>2
  <2> QED
    BY <2>1 DEF Filter!checks, Blocked, BlockedNumber
<1>8. Filter!instructions = head \o guard \o body \o end
  BY DEF Filter!instructions
<1>9. Guards = Len(guard)
  BY DEF Guards
<1> HIDE DEF head, guard, body, end, S
<1> DEFINE insns == Filter!instructions
<1>10. /\ Len(insns) = 4 + Guards + 2 * Blocked + 1
       /\ DOMAIN insns = 1..Len(insns)
       /\ \A i \in 1..4 : insns[i] = head[i]
       /\ \A i \in 1..Guards : insns[4 + i] = guard[i]
       /\ \A i \in 1..(2 * Blocked) : insns[4 + Guards + i] = body[i]
       /\ \A i \in 1..1 : insns[4 + Guards + 2 * Blocked + i] = end[i]
  <2>1. Len(head) = 4 /\ Len(body) = 2 * Blocked /\ Len(end) = 1 /\ Len(guard) = Guards
    BY <1>4, <1>5, <1>6, <1>9
  <2>2. head \in Seq(S) /\ guard \in Seq(S) /\ body \in Seq(S) /\ end \in Seq(S)
    BY <1>3, <1>4, <1>5, <1>6
  <2> HIDE DEF insns
  <2>3. /\ Len(insns) = Len(head) + Len(guard) + Len(body) + Len(end)
        /\ DOMAIN insns = 1..Len(insns)
        /\ \A i \in 1..Len(head) : insns[i] = head[i]
        /\ \A i \in 1..Len(guard) : insns[Len(head) + i] = guard[i]
        /\ \A i \in 1..Len(body) : insns[Len(head) + Len(guard) + i] = body[i]
        /\ \A i \in 1..Len(end) : insns[Len(head) + Len(guard) + Len(body) + i] = end[i]
    <3>1. insns = head \o guard \o body \o end
      BY <1>8 DEF insns
    <3> QED
      BY <2>2, <3>1, Joined
  <2> QED
    BY <2>1, <2>3
<1> HIDE DEF insns
<1>11. Guards \in {0, 2} /\ (Guards = 2 <=> Filter!x32ABIBit # 0)
  BY <1>3, <1>9
<1>12. /\ insns[1] = Filter!Load("arch")
       /\ insns[2] = Filter!Insn("JEQ", 1, 0, Filter!auditArchitecture)
       /\ insns[3] = Filter!Ret("KILL_PROCESS") /\ insns[4] = Filter!Load("nr")
  BY <1>10 DEF head
<1>13. Guards = 2 => /\ insns[5] = Filter!Insn("JSET", 0, 1, Filter!x32ABIBit)
                     /\ insns[6] = Filter!Ret("KILL_PROCESS")
  BY <1>3, <1>10, <1>11
<1>14. ASSUME NEW i \in 1..Blocked
       PROVE  /\ insns[CheckAt(i)] = Filter!Insn("JEQ", 0, 1, BlockedNumber(i))
              /\ insns[CheckAt(i) + 1] = Filter!Ret(Filter!Returns[policy.action])
  <2>1. CheckAt(i) = 4 + Guards + (2 * i - 1) /\ CheckAt(i) + 1 = 4 + Guards + 2 * i
    BY <1>2, <1>11 DEF CheckAt
  <2> QED
    BY <1>7, <1>10, <2>1
<1>15. insns[CheckAt(Blocked + 1)] = Filter!Ret("ALLOW")
  <2>1. CheckAt(Blocked + 1) = 4 + Guards + 2 * Blocked + 1
    BY <1>2, <1>11 DEF CheckAt
  <2> QED
    BY <1>5, <1>10, <2>1
<1>16. Len(insns) = 5 + Guards + 2 * Blocked
  BY <1>2, <1>10, <1>11
<1> QED
  BY <1>2, <1>10, <1>11, <1>12, <1>13, <1>14, <1>15, <1>16 DEF insns

\* The kernel takes such a program: its jumps stay inside and its end returns.
LEMMA Accepted == FilterInv => FilterReady
<1> SUFFICES ASSUME FilterInv, filter = "install" PROVE Filter!Checked
  BY DEF FilterReady
<1> DEFINE insns == Filter!instructions
           n == Len(insns)
<1>1. program = insns /\ n <= MaxInsns
  BY DEF FilterInv
<1>2. /\ Blocked \in Nat /\ Guards \in {0, 2}
      /\ n = 5 + Guards + 2 * Blocked /\ DOMAIN insns = 1..n
      /\ insns[1] = Filter!Load("arch")
      /\ insns[2] = Filter!Insn("JEQ", 1, 0, Filter!auditArchitecture)
      /\ insns[3] = Filter!Ret("KILL_PROCESS")
      /\ insns[4] = Filter!Load("nr")
      /\ Guards = 2 => /\ insns[5] = Filter!Insn("JSET", 0, 1, Filter!x32ABIBit)
                       /\ insns[6] = Filter!Ret("KILL_PROCESS")
      /\ \A i \in 1..Blocked :
           /\ insns[CheckAt(i)] = Filter!Insn("JEQ", 0, 1, BlockedNumber(i))
           /\ insns[CheckAt(i) + 1] = Filter!Ret(Filter!Returns[policy.action])
      /\ insns[CheckAt(Blocked + 1)] = Filter!Ret("ALLOW")
  BY Layout DEF FilterInv
<1> HIDE DEF insns, n
<1>3. n \in Nat /\ n > 0 /\ CheckAt(Blocked + 1) = n
  BY <1>2 DEF CheckAt
<1>4. ASSUME NEW i \in 1..n, insns[i].code \in {"JEQ", "JSET"}
      PROVE  i + 1 + insns[i].jt <= n /\ i + 1 + insns[i].jf <= n
  <2>1. CASE i = 2
    BY <1>2, <2>1 DEF Filter!Insn
  <2>2. CASE Guards = 2 /\ i = 5
    BY <1>2, <2>2 DEF Filter!Insn
  <2>3. CASE i \in {1, 3, 4} \/ (Guards = 2 /\ i = 6) \/ i = n
    BY <1>2, <1>3, <1>4, <2>3 DEF Filter!Insn, Filter!Load, Filter!Ret
  <2>4. CASE \E j \in 1..Blocked : i = CheckAt(j)
    <3>1. PICK j \in 1..Blocked : i = CheckAt(j)
      BY <2>4
    <3>2. insns[i] = Filter!Insn("JEQ", 0, 1, BlockedNumber(j))
      BY <1>2, <3>1
    <3>3. insns[i].jt = 0 /\ insns[i].jf = 1
      BY <3>2 DEF Filter!Insn
    <3> QED
      BY <1>2, <3>1, <3>3 DEF CheckAt
  <2>5. CASE \E j \in 1..Blocked : i = CheckAt(j) + 1
    <3>1. insns[i] = Filter!Ret(Filter!Returns[policy.action])
      BY <1>2, <2>5
    <3> QED
      BY <1>4, <3>1 DEF Filter!Insn, Filter!Ret
  <2>6. \/ i \in 1..4 \/ (Guards = 2 /\ i \in {5, 6}) \/ i = n
        \/ \E j \in 1..Blocked : i = CheckAt(j) \/ i = CheckAt(j) + 1
    <3>1. CASE 4 + Guards < i /\ i < n
      <4> DEFINE d == i - 3 - Guards
                 j == d \div 2
      <4>1. d \in Nat /\ 2 <= d /\ d < 2 + 2 * Blocked
        BY <1>2, <3>1
      <4> HIDE DEF d
      <4>2. j \in Nat /\ (d = 2 * j \/ d = 2 * j + 1)
        BY ONLY <4>1
      <4> HIDE DEF j
      <4>3. Blocked \in Nat
        BY <1>2
      <4>4. j \in 1..Blocked
        BY ONLY <4>1, <4>2, <4>3
      <4>5. i = 3 + Guards + d
        BY <1>2, <3>1 DEF d
      <4>6. i = CheckAt(j) \/ i = CheckAt(j) + 1
        BY <1>2, <4>2, <4>5 DEF CheckAt
      <4> QED
        BY <4>4, <4>6
    <3> QED
      BY <1>2, <1>3, <3>1
  <2> QED
    BY <2>1, <2>2, <2>3, <2>4, <2>5, <2>6
<1>5. insns[n].code = "RET"
  BY <1>2, <1>3 DEF Filter!Ret, Filter!Insn
<1> QED
  BY <1>1, <1>2, <1>3, <1>4, <1>5, MaxInsnsAssumption DEF Filter!Checked, insns, n

\* What depends on the build and on the policy only.
LEMMA SameProgram ==
  ASSUME UNCHANGED <<arch, policy>>
  PROVE  /\ UNCHANGED Filter!syscallNameToNumber /\ UNCHANGED Filter!auditArchitecture
         /\ UNCHANGED Filter!x32ABIBit /\ UNCHANGED Guards /\ UNCHANGED Blocked
         /\ UNCHANGED Filter!instructions
         /\ (Filter!ValidPolicy => Filter!ValidPolicy')
<1>1. /\ UNCHANGED Filter!syscallNameToNumber /\ UNCHANGED Filter!auditArchitecture
      /\ UNCHANGED Filter!x32ABIBit
  BY DEF Filter!syscallNameToNumber, Filter!auditArchitecture, Filter!x32ABIBit
<1>2. UNCHANGED Filter!x32Guard /\ UNCHANGED Filter!checks
  BY <1>1 DEF Filter!x32Guard, Filter!checks
<1>3. UNCHANGED Guards /\ UNCHANGED Blocked /\ UNCHANGED Filter!instructions
  BY <1>1, <1>2 DEF Guards, Blocked, Filter!instructions
<1>4. Filter!ValidPolicy => Filter!ValidPolicy'
  BY <1>1 DEF Filter!ValidPolicy
<1> QED
  BY <1>1, <1>3, <1>4

\* One instruction: the kernel goes on to where as much is known of the call as
\* the program has asked, or it returns what the policy says.
LEMMA ExecuteStep ==
  ASSUME FilterInv, filter = "filter", Filter!Execute
  PROVE  \/ filter' = "filter" /\ Reached'
         \/ filter' = "decided" /\ verdict' = Filter!Decision(call)
<1> DEFINE insns == Filter!instructions
           audit == Filter!auditArchitecture
           abi == Filter!x32ABIBit
<1>1. /\ program = insns /\ Filter!ValidPolicy /\ Reached
      /\ arch \in {"amd64", "arm64", "other"}
      /\ policy \in [names : Policies, action : Actions]
      /\ call.arch \in Nat /\ call.nr \in Nat
  BY DEF FilterInv
<1>2. /\ Blocked \in Nat /\ Guards \in {0, 2} /\ (Guards = 2 <=> abi # 0)
      /\ DOMAIN policy.names = 1..Blocked
      /\ Len(insns) = 5 + Guards + 2 * Blocked /\ DOMAIN insns = 1..Len(insns)
      /\ insns[1] = Filter!Load("arch")
      /\ insns[2] = Filter!Insn("JEQ", 1, 0, audit)
      /\ insns[3] = Filter!Ret("KILL_PROCESS")
      /\ insns[4] = Filter!Load("nr")
      /\ Guards = 2 => /\ insns[5] = Filter!Insn("JSET", 0, 1, abi)
                       /\ insns[6] = Filter!Ret("KILL_PROCESS")
      /\ \A i \in 1..Blocked :
           /\ insns[CheckAt(i)] = Filter!Insn("JEQ", 0, 1, BlockedNumber(i))
           /\ insns[CheckAt(i) + 1] = Filter!Ret(Filter!Returns[policy.action])
      /\ insns[CheckAt(Blocked + 1)] = Filter!Ret("ALLOW")
  BY <1>1, Layout
<1>3. UNCHANGED <<arch, policy, program, call>>
  BY DEF Filter!Execute
<1>4. /\ UNCHANGED Filter!syscallNameToNumber /\ UNCHANGED audit /\ UNCHANGED abi
      /\ UNCHANGED Guards /\ UNCHANGED Blocked
  BY <1>3, SameProgram
<1>5. (OurCall' <=> OurCall) /\ (X32Call' <=> X32Call)
  BY <1>3, <1>4 DEF OurCall, X32Call, Filter!HasBit
<1>6. /\ \A i : CheckAt(i)' = CheckAt(i)
      /\ \A i : BlockedNumber(i)' = BlockedNumber(i)
  BY <1>3, <1>4 DEF CheckAt, BlockedNumber
<1>7. ASSUME NEW k, insns[ip] = Filter!Load(k)
      PROVE  /\ filter' = "filter" /\ ip' = ip + 1
             /\ acc' = IF k = "arch" THEN call.arch ELSE call.nr
  BY <1>1, <1>7 DEF Filter!Execute, Filter!Insns, Filter!Load, Filter!Insn
<1>8. ASSUME NEW jt, NEW jf, NEW k, insns[ip] = Filter!Insn("JEQ", jt, jf, k)
      PROVE  /\ filter' = "filter" /\ acc' = acc
             /\ ip' = ip + 1 + (IF acc = k THEN jt ELSE jf)
  BY <1>1, <1>8 DEF Filter!Execute, Filter!Insns, Filter!Jump, Filter!Insn
<1>9. ASSUME NEW jt, NEW jf, NEW k, insns[ip] = Filter!Insn("JSET", jt, jf, k)
      PROVE  /\ filter' = "filter" /\ acc' = acc
             /\ ip' = ip + 1 + (IF Filter!HasBit(acc, k) THEN jt ELSE jf)
  BY <1>1, <1>9 DEF Filter!Execute, Filter!Insns, Filter!Jump, Filter!Insn
<1>10. ASSUME NEW k, insns[ip] = Filter!Ret(k)
       PROVE  filter' = "decided" /\ verdict' = k
  BY <1>1, <1>10 DEF Filter!Execute, Filter!Insns, Filter!Ret, Filter!Insn
<1>11. (\E n \in Filter!ToSet(policy.names) : Filter!syscallNameToNumber[n] = call.nr)
         <=> \E i \in 1..Blocked : BlockedNumber(i) = call.nr
  BY <1>2 DEF Filter!ToSet, BlockedNumber
<1>12. Filter!Decision(call) =
         IF ~OurCall \/ X32Call THEN "KILL_PROCESS"
         ELSE IF \E i \in 1..Blocked : BlockedNumber(i) = call.nr
         THEN (IF policy.action = "kill" THEN "KILL_PROCESS" ELSE "TRAP")
         ELSE "ALLOW"
  BY <1>11 DEF Filter!Decision, OurCall, X32Call
<1>13. Filter!Returns[policy.action] = IF policy.action = "kill" THEN "KILL_PROCESS" ELSE "TRAP"
  BY <1>1 DEF Filter!ValidPolicy, Filter!Returns
<1> HIDE DEF insns, audit, abi
<1>20. CASE ip = 1
  <2>1. filter' = "filter" /\ ip' = 2 /\ acc' = call.arch
    BY <1>2, <1>7, <1>20
  <2> QED
    BY <1>3, <2>1 DEF Reached
<1>21. CASE ip = 2 /\ acc = call.arch
  <2>1. filter' = "filter" /\ ip' = 2 + 1 + (IF acc = audit THEN 1 ELSE 0)
    BY <1>2, <1>8, <1>21
  <2>2. OurCall <=> acc = audit
    BY <1>21 DEF OurCall, audit
  <2> QED
    BY <1>5, <2>1, <2>2 DEF Reached
<1>22. CASE ip = 3 /\ ~OurCall
  BY <1>2, <1>10, <1>12, <1>22
<1>23. CASE ip = 4 /\ OurCall
  <2>1. filter' = "filter" /\ ip' = 5 /\ acc' = call.nr
    BY <1>2, <1>7, <1>23
  <2>2. CASE Guards = 2
    BY <1>3, <1>4, <1>5, <1>23, <2>1, <2>2 DEF Reached
  <2>3. CASE Guards = 0
    <3>1. ~X32Call /\ ~X32Call'
      BY <1>2, <1>5, <2>3 DEF X32Call, abi
    <3>2. CheckAt(1)' = 5 /\ 1 \in 1..(Blocked' + 1) /\ 1..(1 - 1) = {}
      BY <1>2, <1>4, <2>3 DEF CheckAt
    <3> QED
      BY <1>3, <1>5, <1>23, <2>1, <3>1, <3>2 DEF Reached
  <2> QED
    BY <1>2, <2>2, <2>3
<1>24. CASE ip = 5 /\ Guards = 2 /\ OurCall /\ acc = call.nr
  <2>1. /\ filter' = "filter" /\ acc' = call.nr
        /\ ip' = 5 + 1 + (IF Filter!HasBit(call.nr, abi) THEN 0 ELSE 1)
    BY <1>2, <1>9, <1>24
  <2>2. X32Call <=> Filter!HasBit(call.nr, abi)
    BY <1>2, <1>24 DEF X32Call, abi
  <2>3. CASE X32Call
    BY <1>4, <1>5, <1>24, <2>1, <2>2, <2>3 DEF Reached
  <2>4. CASE ~X32Call
    <3>1. CheckAt(1)' = 7 /\ 1 \in 1..(Blocked' + 1) /\ 1..(1 - 1) = {} /\ ip' = 7
      BY <1>2, <1>4, <1>24, <2>1, <2>2, <2>4 DEF CheckAt
    <3> QED
      BY <1>3, <1>5, <1>24, <2>1, <2>4, <3>1 DEF Reached
  <2> QED
    BY <2>3, <2>4
<1>25. CASE ip = 6 /\ Guards = 2 /\ OurCall /\ X32Call
  BY <1>2, <1>10, <1>12, <1>25
<1>26. ASSUME NEW i \in 1..(Blocked + 1),
              ip = CheckAt(i), OurCall, ~X32Call, acc = call.nr,
              \A j \in 1..(i - 1) : BlockedNumber(j) # call.nr
       PROVE  \/ filter' = "filter" /\ Reached'
              \/ filter' = "decided" /\ verdict' = Filter!Decision(call)
  <2>1. CASE i = Blocked + 1
    <3>1. filter' = "decided" /\ verdict' = "ALLOW"
      BY <1>2, <1>10, <1>26, <2>1
    <3>2. ~\E j \in 1..Blocked : BlockedNumber(j) = call.nr
      BY <1>2, <1>26, <2>1
    <3> QED
      BY <1>12, <1>26, <3>1, <3>2
  <2>2. CASE i \in 1..Blocked
    <3>1. /\ filter' = "filter" /\ acc' = call.nr
          /\ ip' = CheckAt(i) + 1 + (IF call.nr = BlockedNumber(i) THEN 0 ELSE 1)
      BY <1>2, <1>8, <1>26, <2>2
    <3>2. CASE call.nr = BlockedNumber(i)
      <4>1. ip' = CheckAt(i)' + 1 /\ i \in 1..Blocked' /\ BlockedNumber(i)' = call'.nr
        BY <1>2, <1>3, <1>4, <1>6, <2>2, <3>1, <3>2 DEF CheckAt
      <4> QED
        BY <1>5, <1>26, <3>1, <4>1 DEF Reached
    <3>3. CASE call.nr # BlockedNumber(i)
      <4>1. /\ ip' = CheckAt(i + 1)' /\ i + 1 \in 1..(Blocked' + 1)
            /\ \A j \in 1..((i + 1) - 1) : BlockedNumber(j)' # call'.nr
        <5>1. CheckAt(i) + 1 + 1 = CheckAt(i + 1) /\ i + 1 \in 1..(Blocked + 1)
          BY <1>2, <2>2 DEF CheckAt
        <5>2. \A j \in 1..((i + 1) - 1) : j = i \/ j \in 1..(i - 1)
          BY <1>2, <2>2
        <5> QED
          BY <1>3, <1>4, <1>6, <1>26, <3>1, <3>3, <5>1, <5>2
      <4> DEFINE m == i + 1
      <4>2. /\ ip' = CheckAt(m)' /\ m \in 1..(Blocked' + 1)
            /\ \A j \in 1..(m - 1) : BlockedNumber(j)' # call'.nr
        BY <4>1
      <4> HIDE DEF m
      <4> QED
        BY <1>3, <1>5, <1>26, <3>1, <4>2 DEF Reached
    <3> QED
      BY <3>2, <3>3
  <2> QED
    BY <1>2, <2>1, <2>2
<1>27. ASSUME NEW i \in 1..Blocked,
              ip = CheckAt(i) + 1, OurCall, ~X32Call, BlockedNumber(i) = call.nr
       PROVE  filter' = "decided" /\ verdict' = Filter!Decision(call)
  BY <1>2, <1>10, <1>12, <1>13, <1>27
<1> QED
  BY <1>1, <1>20, <1>21, <1>22, <1>23, <1>24, <1>25, <1>26, <1>27 DEF Reached

\* The child begins before its filter is made.
LEMMA FilterInit == ChildInit => FilterInv
BY DEF ChildInit, Filter!Init, FilterInv, FilterStates, Filter!NoCall, Filter!DecidesByPolicy

\* While the filter stays as it is.
LEMMA FilterSame ==
  ASSUME FilterInv, UNCHANGED filterVars
  PROVE  FilterInv'
<1>1. UNCHANGED <<filter, arch, policy, program, call, ip, acc, verdict>>
  BY DEF filterVars
<1>2. /\ UNCHANGED Filter!syscallNameToNumber /\ UNCHANGED Filter!auditArchitecture
      /\ UNCHANGED Filter!x32ABIBit /\ UNCHANGED Guards /\ UNCHANGED Blocked
      /\ UNCHANGED Filter!instructions
      /\ (Filter!ValidPolicy => Filter!ValidPolicy')
  BY <1>1, SameProgram
<1>3. Reached => Reached'
  BY <1>1, <1>2 DEF Reached, CheckAt, BlockedNumber, OurCall, X32Call, Filter!HasBit
<1>4. Filter!DecidesByPolicy => Filter!DecidesByPolicy'
  BY <1>1, <1>2 DEF Filter!DecidesByPolicy, Filter!Decision, Filter!HasBit
<1> QED
  BY <1>1, <1>2, <1>3, <1>4 DEF FilterInv

\* buildFilter's program is the one that its policy stands for, and it is not
\* changed before the kernel has it.
LEMMA BuildStep ==
  ASSUME FilterInv, Filter!Build \/ (FilterReady /\ Filter!Install)
  PROVE  FilterInv'
<1>1. UNCHANGED <<arch, policy, call, ip, acc, verdict>>
  BY DEF Filter!Build, Filter!Install
<1>2. UNCHANGED Filter!instructions /\ (Filter!ValidPolicy => Filter!ValidPolicy')
  BY <1>1, SameProgram
<1>3. /\ filter' \in {"install", "refused", "installed"}
      /\ filter' \in {"install", "installed"} =>
           /\ Filter!ValidPolicy
           /\ program' = Filter!instructions /\ Len(Filter!instructions) <= MaxInsns
  <2>1. CASE Filter!Build
    BY <2>1 DEF Filter!Build
  <2>2. CASE FilterReady /\ Filter!Install
    BY <2>2 DEF Filter!Install, FilterReady, FilterInv
  <2> QED
    BY <2>1, <2>2
<1> QED
  BY <1>1, <1>2, <1>3 DEF FilterInv, FilterStates, Filter!DecidesByPolicy

\* An instruction of the filter keeps its states among those it can be in.
LEMMA DecideStep ==
  ASSUME FilterInv, (\E c \in Calls : Filter!Enter(c)) \/ Filter!Execute
  PROVE  FilterInv'
<1>1. UNCHANGED <<arch, policy, program>>
  BY DEF Filter!Enter, Filter!Execute
<1>2. /\ UNCHANGED Filter!syscallNameToNumber /\ UNCHANGED Filter!auditArchitecture
      /\ UNCHANGED Filter!x32ABIBit /\ UNCHANGED Filter!instructions
      /\ (Filter!ValidPolicy => Filter!ValidPolicy')
  BY <1>1, SameProgram
<1>3. CASE \E c \in Calls : Filter!Enter(c)
  <2>1. /\ filter \in {"installed", "decided"} /\ filter' = "filter"
        /\ call' \in Calls /\ ip' = 1
    BY <1>3 DEF Filter!Enter
  <2>2. Reached' /\ Filter!DecidesByPolicy'
    BY <2>1 DEF Reached, Filter!DecidesByPolicy
  <2> QED
    BY <1>1, <1>2, <2>1, <2>2, CallsAssumption DEF FilterInv, FilterStates
<1>4. CASE Filter!Execute
  <2>1. filter = "filter" /\ UNCHANGED call
    BY <1>4 DEF Filter!Execute
  <2>2. \/ filter' = "filter" /\ Reached'
        \/ filter' = "decided" /\ verdict' = Filter!Decision(call)
    BY <1>4, <2>1, ExecuteStep
  <2>3. Filter!DecidesByPolicy'
    BY <1>1, <1>2, <2>1, <2>2 DEF Filter!DecidesByPolicy, Filter!Decision, Filter!HasBit
  <2> QED
    BY <1>1, <1>2, <2>1, <2>2, <2>3 DEF FilterInv, FilterStates
<1> QED
  BY <1>3, <1>4

\* Every step of the child keeps the filter deciding by the policy.
LEMMA FilterStep ==
  ASSUME FilterInv, [ChildNext]_<<vars, filterVars>>
  PROVE  FilterInv'
<1>r. FilterReady
  BY Accepted
<1>1. CASE UNCHANGED filterVars
  BY <1>1, FilterSame
<1>2. CASE BuildFilter
  BY <1>2, BuildStep DEF BuildFilter
<1>3. CASE ApplySeccompFilter
  <2>1. UNCHANGED filterVars \/ Filter!Install
    BY <1>3 DEF ApplySeccompFilter
  <2> QED
    BY <1>r, <1>1, <2>1, BuildStep
<1>4. CASE SystemCall
  BY <1>4, DecideStep DEF SystemCall
<1> QED
  BY <1>1, <1>2, <1>3, <1>4 DEF ChildNext

-----------------------------------------------------------------------------
(* The theorems.                                                           *)

ChildInv == ConfinedInv /\ FilterInv

\* The strengthening holds of every behaviour.
LEMMA ChildInvHolds == ChildSpec => []ChildInv
<1>1. ChildInit => ChildInv
  BY ConfinedInit, FilterInit DEF ChildInv
<1>2. ChildInv /\ [ChildNext]_<<vars, filterVars>> => ChildInv'
  BY Accepted, ConfinedStep, FilterStep DEF ChildInv
<1> QED
  BY <1>1, <1>2, PTL DEF ChildSpec

\* Whatever drop_capabilities and blocked_syscalls are, whatever the Go runtime
\* does with the goroutine and its threads meanwhile, and wherever Child fails:
\* a payload that runs, and all that it execs, has just the capabilities that are
\* left, and no thread of its init is without the filter and no_new_privs.
THEOREM PayloadStaysConfined == ChildSpec => []PayloadConfined
<1>1. ChildInv => PayloadConfined
  <2> SUFFICES ASSUME ChildInv PROVE PayloadConfined
    OBVIOUS
  <2>1. TypeOK /\ Drops /\ PayloadAsLeft /\ InStep
    BY DEF ChildInv, ConfinedInv
  <2>2. payload # None => pc = "running"
    BY <2>1 DEF TypeOK
  <2>3. PayloadHasWhatIsLeft
    <3> SUFFICES ASSUME payload # None
                 PROVE  /\ \A s \in Sets : payload.sets[s] \cap Dropped = {}
                        /\ payload.sets["permitted"] = Caps \ Dropped
      BY DEF PayloadHasWhatIsLeft
    <3>1. payload.sets = ThreadSets(Left, Left)
      BY <2>1 DEF PayloadAsLeft
    <3> QED
      BY <3>1, ThreadSetsAre DEF Left, Sets
  <2>4. EverythingFiltered
    BY <2>1, <2>2 DEF EverythingFiltered, PayloadAsLeft, Drops
  <2>5. payload # None => filter \in {"installed", "filter", "decided"}
    BY <2>1, <2>2 DEF InStep
  <2> QED
    BY <2>1, <2>3, <2>4, <2>5 DEF PayloadConfined
<1> QED
  BY <1>1, ChildInvHolds, PTL

\* The init's own calls are none of those that can be blocked, and not x32's.
LEMMA InitCallsFree ==
  ASSUME arch \in {"amd64", "arm64", "other"}, NEW nr \in Filter!initCalls
  PROVE  /\ ~(Filter!x32ABIBit # 0 /\ Filter!HasBit(nr, Filter!x32ABIBit))
         /\ \A n \in DOMAIN Filter!syscallNameToNumber : Filter!syscallNameToNumber[n] # nr
<1>1. CASE arch = "amd64"
  <2>1. nr \in {1, 9, 13, 14, 56, 59, 61, 62, 186, 202, 231, 234}
    BY <1>1 DEF Filter!initCalls
  <2>2. nr \div 1073741824 = 0
    BY <2>1
  <2>3. Filter!x32ABIBit = 1073741824 /\ Filter!syscallNameToNumber = Filter!amd64
    BY <1>1 DEF Filter!x32ABIBit, Filter!syscallNameToNumber
  <2>4. \A n \in DOMAIN Filter!amd64 : Filter!amd64[n] # nr
    BY <2>1 DEF Filter!amd64
  <2> QED
    BY <2>2, <2>3, <2>4 DEF Filter!HasBit
<1>2. CASE arch = "arm64"
  <2>1. nr \in {64, 94, 98, 129, 131, 134, 135, 178, 220, 221, 222, 260}
    BY <1>2 DEF Filter!initCalls
  <2>2. Filter!x32ABIBit = 0 /\ Filter!syscallNameToNumber = Filter!arm64
    BY <1>2 DEF Filter!x32ABIBit, Filter!syscallNameToNumber
  <2>3. \A n \in DOMAIN Filter!arm64 : Filter!arm64[n] # nr
    BY <2>1 DEF Filter!arm64
  <2> QED
    BY <2>2, <2>3
<1>3. CASE arch = "other"
  BY <1>3 DEF Filter!initCalls
<1> QED
  BY <1>1, <1>2, <1>3

\* The program that buildFilter writes for any list of names decides every call
\* of any number and interface as the policy says, and none that it accepts
\* stops the calls the init lives on.
THEOREM CallsDecidedByPolicy == ChildSpec => []CallsDecided
<1>1. ChildInv => CallsDecided
  <2> SUFFICES ASSUME ChildInv PROVE CallsDecided
    OBVIOUS
  <2>1. FilterInv /\ Filter!DecidesByPolicy
    BY DEF ChildInv, FilterInv
  <2>2. Filter!InitSurvives
    <3> SUFFICES ASSUME filter = "decided", call.arch = Filter!auditArchitecture,
                        call.nr \in Filter!initCalls
                 PROVE  verdict = "ALLOW"
      BY DEF Filter!InitSurvives
    <3>1. verdict = Filter!Decision(call)
      BY <2>1 DEF Filter!DecidesByPolicy
    <3>2. Filter!ToSet(policy.names) \subseteq DOMAIN Filter!syscallNameToNumber
      BY <2>1 DEF FilterInv, Filter!ValidPolicy
    <3>3. /\ ~(Filter!x32ABIBit # 0 /\ Filter!HasBit(call.nr, Filter!x32ABIBit))
          /\ \A n \in DOMAIN Filter!syscallNameToNumber :
               Filter!syscallNameToNumber[n] # call.nr
      <4>1. arch \in {"amd64", "arm64", "other"}
        BY <2>1 DEF FilterInv
      <4> QED
        BY <4>1, InitCallsFree
    <3> QED
      BY <3>1, <3>2, <3>3 DEF Filter!Decision
  <2> QED
    BY <2>1, <2>2 DEF CallsDecided
<1> QED
  BY <1>1, ChildInvHolds, PTL

\* No order of the threads and of the steps leaves Child without a privilege that
\* it still needs, and the kernel's checker takes every program of buildFilter.
THEOREM ChildNeverRefused == ChildSpec => []NeverRefused
<1>1. ChildInv => NeverRefused
  BY DEF ChildInv, ConfinedInv, FilterInv, FilterStates, NeverRefused, Filter!NeverRejected
<1> QED
  BY <1>1, ChildInvHolds, PTL

-----------------------------------------------------------------------------
(* Numbers and folds.                                                      *)

\* A set of naturals that is not empty has a least member.
LEMMA LeastMember ==
  ASSUME NEW S \in SUBSET Nat, S # {}
  PROVE  Min(S) \in S /\ \A y \in S : Min(S) <= y
<1>1. \E x \in S : \A y \in S : ~(<<y, x>> \in OpToRel(<, Nat))
  BY NatLessThanWellFounded, WFMin
<1>2. PICK x \in S : \A y \in S : ~(<<y, x>> \in OpToRel(<, Nat))
  BY <1>1
<1>3. \A y \in S : x <= y
  <2> SUFFICES ASSUME NEW y \in S, y < x PROVE FALSE
    OBVIOUS
  <2>1. y \in Nat /\ x \in Nat
    OBVIOUS
  <2>2. <<y, x>> \in OpToRel(<, Nat)
    BY Zenon, <2>1 DEF OpToRel
  <2> QED
    BY <1>2, <2>2
<1> QED
  BY <1>3 DEF Min

\* What holds of 0 and goes from each number to the next holds up to n.
LEMMA CountingUp ==
  ASSUME NEW n \in Nat, NEW good \in SUBSET Nat, 0 \in good,
         \A k \in 1..n : k - 1 \in good => k \in good
  PROVE  0..n \subseteq good
<1> DEFINE bad == {k \in 0..n : k \notin good}
<1> SUFFICES ASSUME bad # {} PROVE FALSE
  OBVIOUS
<1>1. bad \in SUBSET Nat
  OBVIOUS
<1> DEFINE m == Min(bad)
<1>2. m \in bad /\ \A y \in bad : m <= y
  <2> HIDE DEF bad
  <2> QED
    BY <1>1, LeastMember
<1> HIDE DEF m
<1>3. m \in 0..n /\ m \notin good /\ m # 0
  BY <1>2
<1>4. m \in 1..n /\ m - 1 \in 0..n /\ ~(m <= m - 1)
  BY <1>3
<1>5. m - 1 \notin bad
  BY <1>2, <1>4
<1>6. m - 1 \in good
  BY <1>4, <1>5
<1> QED
  BY <1>3, <1>4, <1>6

\* The recursion of MapThenFoldSet: g takes the elements of a set away one by one,
\* in the order c gives, and applies to what is left the function step has for it.
IsFold(g, S, c, step, base) ==
  /\ g[{}] = base
  /\ \A s \in SUBSET S : s # {} => g[s] = step[c[s]][g[s \ {c[s]}]]

\* A choice function: an element of every set that is not empty.
Chooses(c, S) == \A s \in SUBSET S : s # {} => c[s] \in s

\* Such a recursion over a finite set defines a function.
LEMMA FoldExists ==
  ASSUME NEW S, IsFiniteSet(S), NEW V, NEW c, Chooses(c, S), NEW base \in V,
         NEW step \in [S -> [V -> V]]
  PROVE  \E g \in [SUBSET S -> V] : IsFold(g, S, c, step, base)
<1> DEFINE UpTo(n) == {s \in SUBSET S : Cardinality(s) <= n}
           Folded(n) == \E g \in [UpTo(n) -> V] :
             /\ g[{}] = base
             /\ \A s \in UpTo(n) : s # {} => g[s] = step[c[s]][g[s \ {c[s]}]]
           bad == {n \in Nat : ~Folded(n)}
<1>1. \A s \in SUBSET S : IsFiniteSet(s) /\ Cardinality(s) \in Nat /\ Cardinality(s) <= Cardinality(S)
  BY FS_Subset, FS_CardinalityType
<1>2. Cardinality(S) \in Nat
  BY FS_CardinalityType
<1>3. \A s \in SUBSET S : s # {} => /\ c[s] \in s /\ c[s] \in S
                                    /\ s \ {c[s]} \in SUBSET S
                                    /\ Cardinality(s \ {c[s]}) = Cardinality(s) - 1
  <2> SUFFICES ASSUME NEW s \in SUBSET S, s # {}
               PROVE  /\ c[s] \in s /\ c[s] \in S /\ s \ {c[s]} \in SUBSET S
                      /\ Cardinality(s \ {c[s]}) = Cardinality(s) - 1
    OBVIOUS
  <2>1. c[s] \in s
    BY DEF Chooses
  <2> QED
    BY <1>1, <2>1, FS_RemoveElement
<1>4. {} \in SUBSET S /\ Cardinality({}) = 0
  BY FS_EmptySet
<1>5. \A s \in SUBSET S : Cardinality(s) = 0 => s = {}
  BY <1>1, FS_EmptySet
<1>6. Folded(0)
  <2>1. UpTo(0) = {{}}
    <3>1. {} \in UpTo(0)
      BY <1>4
    <3>2. ASSUME NEW s \in UpTo(0) PROVE s = {}
      <4>1. s \in SUBSET S /\ Cardinality(s) \in Nat /\ Cardinality(s) <= 0
        BY <1>1
      <4> QED
        BY <1>5, <4>1
    <3> QED
      BY <3>1, <3>2
  <2> DEFINE g == [s \in UpTo(0) |-> base]
  <2>2. g \in [UpTo(0) -> V] /\ g[{}] = base
    BY <2>1
  <2>3. \A s \in UpTo(0) : s = {}
    BY <2>1
  <2> HIDE DEF g, UpTo
  <2> QED
    BY <2>2, <2>3
<1>7. ASSUME NEW m \in Nat, Folded(m) PROVE Folded(m + 1)
  <2>1. PICK g \in [UpTo(m) -> V] :
             /\ g[{}] = base
             /\ \A s \in UpTo(m) : s # {} => g[s] = step[c[s]][g[s \ {c[s]}]]
    BY <1>7
  <2> DEFINE h == [s \in UpTo(m + 1) |-> IF s = {} THEN base ELSE step[c[s]][g[s \ {c[s]}]]]
  <2>2. \A s \in UpTo(m + 1) : s # {} => s \ {c[s]} \in UpTo(m)
    <3> SUFFICES ASSUME NEW s \in UpTo(m + 1), s # {} PROVE s \ {c[s]} \in UpTo(m)
      OBVIOUS
    <3>1. Cardinality(s) \in Nat /\ Cardinality(s) <= m + 1 /\ s \in SUBSET S
      BY <1>1
    <3>2. s \ {c[s]} \in SUBSET S /\ Cardinality(s \ {c[s]}) = Cardinality(s) - 1
      BY <1>3, <3>1
    <3>3. Cardinality(s \ {c[s]}) <= m
      BY <3>1, <3>2
    <3> QED
      BY <3>2, <3>3
  <2>3. {} \in UpTo(m + 1) /\ UpTo(m) \subseteq UpTo(m + 1)
    BY <1>1, <1>4
  <2>4. \A s \in UpTo(m + 1) : s \in SUBSET S
    OBVIOUS
  <2> HIDE DEF UpTo
  <2>5. h \in [UpTo(m + 1) -> V] /\ h[{}] = base
    <3>1. ASSUME NEW s \in UpTo(m + 1), s # {} PROVE step[c[s]][g[s \ {c[s]}]] \in V
      <4>1. c[s] \in S
        BY <1>3, <2>4, <3>1
      <4>2. g[s \ {c[s]}] \in V
        BY <2>1, <2>2, <3>1
      <4> QED
        BY <4>1, <4>2
    <3> QED
      BY <2>3, <3>1
  <2>6. \A s \in UpTo(m) : h[s] = g[s]
    BY <2>1, <2>3
  <2>7. \A s \in UpTo(m + 1) : s # {} => h[s] = step[c[s]][h[s \ {c[s]}]]
    BY <2>2, <2>6
  <2> HIDE DEF h
  <2> QED
    BY <2>5, <2>7
<1>8. \A n \in Nat : Folded(n)
  <2> SUFFICES ASSUME bad # {} PROVE FALSE
    OBVIOUS
  <2>1. bad \in SUBSET Nat
    OBVIOUS
  <2> HIDE DEF bad
  <2>2. Min(bad) \in bad /\ \A y \in bad : Min(bad) <= y
    BY <2>1, LeastMember
  <2> DEFINE n == Min(bad)
  <2>3. n \in Nat /\ ~Folded(n) /\ \A k \in Nat : k < n => Folded(k)
    <3> HIDE DEF Folded
    <3> QED
      BY <2>1, <2>2 DEF bad
  <2> HIDE DEF n, Folded
  <2>4. n # 0
    BY <1>6, <2>3
  <2>5. n - 1 \in Nat /\ n - 1 < n /\ (n - 1) + 1 = n
    BY <2>3, <2>4
  <2>6. Folded((n - 1) + 1)
    BY <1>7, <2>3, <2>5
  <2> QED
    BY <2>3, <2>5, <2>6
<1>9. UpTo(Cardinality(S)) = SUBSET S
  BY <1>1
<1>10. Folded(Cardinality(S))
  <2> HIDE DEF Folded
  <2> QED
    BY <1>2, <1>8
<1> QED
  BY <1>9, <1>10 DEF IsFold

\* A set of positions that is not empty has a last one.
LEMMA LastPosition ==
  ASSUME NEW n \in Nat, NEW S \in SUBSET (1..n), S # {}
  PROVE  Max(S) \in S /\ \A y \in S : y <= Max(S)
<1> DEFINE bounds == {u \in Nat : \A y \in S : y <= u}
<1>1. bounds \in SUBSET Nat /\ n \in bounds
  OBVIOUS
<1> DEFINE m == Min(bounds)
<1>2. m \in bounds /\ \A u \in bounds : m <= u
  <2> HIDE DEF bounds
  <2> QED
    BY <1>1, LeastMember
<1>3. m \in Nat /\ \A y \in S : y <= m
  BY <1>2
<1> HIDE DEF m
<1>4. m \in S
  <2> SUFFICES ASSUME m \notin S PROVE FALSE
    OBVIOUS
  <2>1. PICK z \in S : z \in 1..n
    OBVIOUS
  <2>2. m - 1 \in Nat
    BY <1>3, <2>1
  <2>3. \A y \in S : y <= m - 1
    BY <1>3
  <2>4. m - 1 \in bounds
    BY <2>2, <2>3
  <2> HIDE DEF bounds
  <2> QED
    BY <1>2, <1>3, <2>4
<1>5. \E x \in S : \A y \in S : x >= y
  BY <1>3, <1>4
<1> QED
  BY <1>5 DEF Max

\* The last of the first k positions, and those before it.
LEMMA FirstPositions ==
  ASSUME NEW k \in Nat \ {0}
  PROVE  1..k # {} /\ Max(1..k) = k /\ (1..k) \ {k} = 1..(k - 1)
<1>1. 1..k \in SUBSET (1..k) /\ k \in 1..k
  OBVIOUS
<1>2. Max(1..k) \in 1..k /\ \A y \in 1..k : y <= Max(1..k)
  BY ONLY <1>1, k \in Nat \ {0}, LastPosition
<1> QED
  BY <1>1, <1>2

\* The recursion of FoldLeft: it takes the last of the first n positions away.
IsFoldLeft(g, n, step, base) ==
  \A s \in SUBSET (1..n) : g[s] = IF s = {} THEN base ELSE step[Max(s)][g[s \ {Max(s)}]]

\* Such a recursion defines a function too.
LEMMA SomeFold ==
  ASSUME NEW n \in Nat, NEW V, NEW base \in V, NEW step \in [1..n -> [V -> V]]
  PROVE  \E g \in [SUBSET (1..n) -> V] : IsFoldLeft(g, n, step, base)
<1> DEFINE S == 1..n
           c == [s \in SUBSET S |-> Max(s)]
<1>1. IsFiniteSet(S)
  BY FS_Interval
<1>2. \A s \in SUBSET S : s # {} => Max(s) \in s
  BY LastPosition
<1>3. Chooses(c, S)
  BY <1>2 DEF Chooses
<1>4. \A s \in SUBSET S : c[s] = Max(s)
  OBVIOUS
<1> HIDE DEF c
<1>5. PICK g \in [SUBSET S -> V] : IsFold(g, S, c, step, base)
  BY <1>1, <1>3, FoldExists
<1>6. ASSUME NEW s \in SUBSET S
      PROVE  g[s] = IF s = {} THEN base ELSE step[Max(s)][g[s \ {Max(s)}]]
  BY <1>4, <1>5 DEF IsFold
<1> QED
  BY <1>5, <1>6 DEF IsFoldLeft

-----------------------------------------------------------------------------
(* The flags.                                                              *)

\* The fields a flag can set.
Settable == {"mode", "subnet", "gateway", "container", "fileSize", "interactive", "whitelist"}

\* What one flag does.
SetFlag(v, flag) == [v EXCEPT ![Variable[flag[1]]] = flag[2]]

\* The recursion that Values is by the definition of FoldLeft.
IsValues(g, flags, defaults) ==
  g = [s \in SUBSET DOMAIN flags |->
         IF s = {} THEN defaults ELSE SetFlag(g[s \ {Max(s)}], flags[Max(s)])]

\* Values sets the flags from the first to the last.
LEMMA ValuesIsFold ==
  ASSUME NEW flags, NEW defaults
  PROVE  Values(flags, defaults) = (CHOOSE g : IsValues(g, flags, defaults))[DOMAIN flags]
BY DEF Values, FoldLeft, MapThenFoldSet, IsValues, SetFlag

\* Flags that parse, over defaults that are a function.
Parsed(flags, defaults) ==
  /\ flags \in Seq(Range(flags)) /\ ~ParseError(flags)
  /\ defaults = [f \in DOMAIN DefaultConfig |-> defaults[f]]

\* The fields that flags set, and the flags there are.
LEMMA VariableFields ==
  /\ DOMAIN DefaultConfig = Settable \cup {"command", "env", "readOnly", "rootfs", "remote", "others"}
  /\ DOMAIN Variable = Settable \cup {"i"}
  /\ \A f \in DOMAIN Variable : Variable[f] = IF f = "i" THEN "interactive" ELSE f
BY DEF DefaultConfig, Variable, Settable

\* Of a command line the flags are set one after the other.
LEMMA ValuesSteps ==
  ASSUME NEW flags, NEW defaults, Parsed(flags, defaults)
  PROVE  \E g : /\ Values(flags, defaults) = g[1..Len(flags)]
                /\ g[{}] = defaults
                /\ \A k \in 1..Len(flags) : g[1..k] = SetFlag(g[1..(k - 1)], flags[k])
<1> DEFINE n == Len(flags)
           D == DOMAIN DefaultConfig
           W == Range(defaults) \cup {flags[i][2] : i \in 1..n}
           V == [D -> W]
           step == [i \in 1..n |-> [v \in V |-> SetFlag(v, flags[i])]]
<1>1. n \in Nat /\ DOMAIN flags = 1..n
  BY DEF Parsed
<1>2. \A i \in 1..n : Variable[flags[i][1]] \in D /\ flags[i][2] \in W
  <2> SUFFICES ASSUME NEW i \in 1..n PROVE Variable[flags[i][1]] \in D /\ flags[i][2] \in W
    OBVIOUS
  <2>1. flags[i][1] \in DOMAIN Variable
    BY <1>1 DEF Parsed, ParseError
  <2> QED
    BY <2>1, VariableFields DEF Settable
<1>3. \A i \in 1..n : \A v \in V : SetFlag(v, flags[i]) \in V
  BY <1>2 DEF SetFlag
<1>4. defaults \in V
  <2>1. DOMAIN defaults = D /\ \A f \in D : defaults[f] \in W
    BY DEF Parsed, Range
  <2> QED
    BY <2>1 DEF Parsed
<1>5. step \in [1..n -> [V -> V]]
  BY <1>3
<1>6. \A i \in 1..n, v \in V : step[i][v] = SetFlag(v, flags[i])
  OBVIOUS
<1>7. \A s \in SUBSET (1..n) : s # {} => Max(s) \in s
  BY <1>1, LastPosition
<1> HIDE DEF n, V, step
<1>8. PICK g \in [SUBSET (1..n) -> V] : IsFoldLeft(g, n, step, defaults)
  BY <1>1, <1>4, <1>5, SomeFold
<1>9. ASSUME NEW s \in SUBSET (1..n)
      PROVE  g[s] = IF s = {} THEN defaults ELSE SetFlag(g[s \ {Max(s)}], flags[Max(s)])
  <2>1. CASE s # {}
    <3>1. Max(s) \in 1..n /\ s \ {Max(s)} \in SUBSET (1..n)
      BY <1>7, <2>1
    <3>2. g[s \ {Max(s)}] \in V
      BY <1>8, <3>1
    <3> QED
      BY <1>6, <1>8, <2>1, <3>1, <3>2 DEF IsFoldLeft
  <2> QED
    BY <1>8, <2>1 DEF IsFoldLeft
<1>10. IsValues(g, flags, defaults)
  BY <1>1, <1>8, <1>9 DEF IsValues
<1> DEFINE h == CHOOSE h : IsValues(h, flags, defaults)
<1>11. IsValues(h, flags, defaults)
  BY <1>10
<1>12. Values(flags, defaults) = h[1..n]
  BY <1>1, ValuesIsFold
<1> HIDE DEF h
<1>13. \A s \in SUBSET (1..n) :
         h[s] = IF s = {} THEN defaults ELSE SetFlag(h[s \ {Max(s)}], flags[Max(s)])
  BY <1>1, <1>11 DEF IsValues
<1>14. h[{}] = defaults
  BY <1>13
<1>15. ASSUME NEW k \in 1..n PROVE h[1..k] = SetFlag(h[1..(k - 1)], flags[k])
  <2>1. k \in Nat \ {0} /\ 1..k \in SUBSET (1..n)
    BY <1>1
  <2> QED
    BY <1>13, <2>1, FirstPositions
<1> QED
  BY <1>12, <1>14, <1>15 DEF n

\* The flags among the first k that set a field.
Setting(flags, f, k) == {i \in 1..k : Variable[flags[i][1]] = f}

\* The value after all flags is that of the last flag that sets the field.
LEMMA LastFlag ==
  ASSUME NEW flags, NEW defaults, Parsed(flags, defaults), NEW f \in DOMAIN DefaultConfig
  PROVE  LET setting == Setting(flags, f, Len(flags)) IN
         /\ setting = {} => Values(flags, defaults)[f] = defaults[f]
         /\ setting # {} => Values(flags, defaults)[f] = flags[Max(setting)][2]
<1> DEFINE n == Len(flags)
           D == DOMAIN DefaultConfig
           S(k) == Setting(flags, f, k)
<1>1. n \in Nat /\ DOMAIN flags = 1..n
  BY DEF Parsed
<1>2. PICK g : /\ Values(flags, defaults) = g[1..n]
               /\ g[{}] = defaults
               /\ \A k \in 1..n : g[1..k] = SetFlag(g[1..(k - 1)], flags[k])
  BY ValuesSteps
<1> DEFINE Right(k) == /\ DOMAIN g[1..k] = D
                       /\ S(k) = {} => g[1..k][f] = defaults[f]
                       /\ S(k) # {} => g[1..k][f] = flags[Max(S(k))][2]
           good == {k \in 0..n : Right(k)}
<1>3. 0 \in good
  <2>1. 1..0 = {} /\ S(0) = {}
    BY DEF Setting
  <2>2. DOMAIN defaults = D
    BY DEF Parsed
  <2> HIDE DEF D
  <2> QED
    BY <1>1, <1>2, <2>1, <2>2
<1>4. ASSUME NEW k \in 1..n, k - 1 \in good PROVE k \in good
  <2> DEFINE v == g[1..(k - 1)]
  <2>1. g[1..k] = [v EXCEPT ![Variable[flags[k][1]]] = flags[k][2]]
    BY <1>2 DEF SetFlag
  <2>2. Right(k - 1)
    BY <1>4
  <2>3. k \in 0..n /\ k \in Nat
    BY <1>1
  <2>4. DOMAIN g[1..k] = D
    BY <2>1, <2>2
  <2>5. CASE Variable[flags[k][1]] = f
    <3>1. g[1..k][f] = flags[k][2]
      BY <2>1, <2>2, <2>5
    <3>2. k \in S(k) /\ S(k) \in SUBSET (1..k)
      BY <2>3, <2>5 DEF Setting
    <3>3. Max(S(k)) \in 1..k /\ k <= Max(S(k))
      <4> HIDE DEF S
      <4> QED
        BY <2>3, <3>2, LastPosition
    <3>4. Max(S(k)) = k
      <4> HIDE DEF S
      <4> QED
        BY <2>3, <3>3
    <3> QED
      BY <2>3, <2>4, <3>1, <3>2, <3>4
  <2>6. CASE Variable[flags[k][1]] # f
    <3>1. g[1..k][f] = v[f]
      BY <2>1, <2>2, <2>6
    <3>2. S(k) = S(k - 1)
      BY <2>3, <2>6 DEF Setting
    <3> HIDE DEF S
    <3> QED
      BY <2>2, <2>3, <2>4, <3>1, <3>2
  <2> QED
    BY <2>5, <2>6
<1>5. n \in good
  <2>1. good \in SUBSET Nat
    OBVIOUS
  <2> HIDE DEF good
  <2>2. 0..n \subseteq good
    BY <1>1, <1>3, <1>4, <2>1, CountingUp
  <2> QED
    BY <1>1, <2>2
<1>6. Right(n)
  BY <1>5
<1> QED
  BY <1>2, <1>6

-----------------------------------------------------------------------------
(* Environments.                                                           *)

\* Two positions of an environment with one key are one.
OneEach(entries) ==
  \A i, j \in 1..Len(entries) : entries[i][1] = entries[j][1] => i = j

\* The keys of an environment, as a set and as what IsInjective says of them.
LEMMA KeyFacts ==
  ASSUME NEW entries \in Seq(Entries)
  PROVE  /\ Len(entries) \in Nat /\ DOMAIN entries = 1..Len(entries)
         /\ \A i \in 1..Len(entries) : entries[i] \in Entries /\ entries[i][1] \in Text
         /\ Range(KeysOf(entries)) = {entries[i][1] : i \in 1..Len(entries)}
         /\ IsInjective(KeysOf(entries)) <=> OneEach(entries)
<1>1. Len(entries) \in Nat /\ DOMAIN entries = 1..Len(entries)
  OBVIOUS
<1>2. \A i \in 1..Len(entries) : entries[i] \in Entries /\ entries[i][1] \in Text
  BY <1>1 DEF Entries
<1>3. DOMAIN KeysOf(entries) = 1..Len(entries)
      /\ \A i \in 1..Len(entries) : KeysOf(entries)[i] = entries[i][1]
  BY <1>1 DEF KeysOf
<1>4. Range(KeysOf(entries)) = {entries[i][1] : i \in 1..Len(entries)}
  BY <1>3 DEF Range
<1>5. IsInjective(KeysOf(entries)) <=> OneEach(entries)
  BY <1>3 DEF IsInjective, OneEach
<1> QED
  BY <1>1, <1>2, <1>4, <1>5

\* Lookup finds the first entry with a key.
LEMMA LookupFirst ==
  ASSUME NEW entries \in Seq(Entries), NEW i \in 1..Len(entries),
         \A j \in 1..(i - 1) : entries[j][1] # entries[i][1]
  PROVE  Lookup(entries, entries[i][1]) = entries[i][2]
<1> DEFINE found == {j \in DOMAIN entries : entries[j][1] = entries[i][1]}
<1>1. Len(entries) \in Nat /\ DOMAIN entries = 1..Len(entries)
  BY KeyFacts
<1>2. found \in SUBSET Nat /\ i \in found /\ found \in SUBSET (1..Len(entries))
  BY <1>1
<1>3. Min(found) \in found /\ \A y \in found : Min(found) <= y
  <2> HIDE DEF found
  <2> QED
    BY <1>2, LeastMember
<1> DEFINE m == Min(found)
<1>4. m \in 1..Len(entries) /\ m <= i /\ entries[m][1] = entries[i][1]
  BY <1>1, <1>2, <1>3
<1>5. Lookup(entries, entries[i][1]) = entries[m][2]
  BY <1>2 DEF Lookup
<1> HIDE DEF m
<1>6. m = i
  BY <1>1, <1>4
<1> QED
  BY <1>5, <1>6

\* It finds nothing of a key that is not there.
LEMMA LookupNone ==
  ASSUME NEW entries \in Seq(Entries), NEW key, key \notin Range(KeysOf(entries))
  PROVE  Lookup(entries, key) = ""
<1>1. {j \in DOMAIN entries : entries[j][1] = key} = {}
  BY KeyFacts
<1> QED
  BY <1>1 DEF Lookup

\* A key that is there has a first entry.
LEMMA FirstEntry ==
  ASSUME NEW entries \in Seq(Entries), NEW key \in Range(KeysOf(entries))
  PROVE  \E i \in 1..Len(entries) :
           entries[i][1] = key /\ \A j \in 1..(i - 1) : entries[j][1] # key
<1> DEFINE found == {j \in 1..Len(entries) : entries[j][1] = key}
<1>1. Len(entries) \in Nat
  OBVIOUS
<1>2. found \in SUBSET Nat /\ found # {}
  BY KeyFacts
<1> DEFINE m == Min(found)
<1>3. m \in found /\ \A y \in found : m <= y
  <2> HIDE DEF found
  <2> QED
    BY <1>2, LeastMember
<1> HIDE DEF m
<1>4. m \in 1..Len(entries) /\ entries[m][1] = key
  BY <1>3
<1>5. ASSUME NEW j \in 1..(m - 1) PROVE entries[j][1] # key
  <2>1. j \in 1..Len(entries) /\ ~(m <= j)
    BY <1>1, <1>4
  <2> QED
    BY <1>3, <2>1
<1> QED
  BY <1>4, <1>5

\* What one variable of the host does.
AddEntry(allowed, result, e) ==
  IF e[1] \in allowed /\ e[1] \notin Range(KeysOf(result)) THEN Append(result, e) ELSE result

\* The recursion that Environment is by the definition of FoldLeft.
IsEnvironment(g, c) ==
  g = [s \in SUBSET DOMAIN hostEnv |->
         IF s = {} THEN c.env
         ELSE AddEntry(Range(c.whitelist), g[s \ {Max(s)}], hostEnv[Max(s)])]

\* Environment goes through the host's variables from the first to the last.
LEMMA EnvironmentIsFold ==
  ASSUME NEW c
  PROVE  Environment(c) = (CHOOSE g : IsEnvironment(g, c))[DOMAIN hostEnv]
BY DEF Environment, FoldLeft, MapThenFoldSet, IsEnvironment, AddEntry

\* The host's variables are looked at one after the other.
LEMMA EnvironmentSteps ==
  ASSUME NEW c, c.env \in Seq(Entries), hostEnv \in Seq(Entries)
  PROVE  \E g : /\ Environment(c) = g[1..Len(hostEnv)]
                /\ g[{}] = c.env
                /\ \A k \in 1..Len(hostEnv) :
                     g[1..k] = AddEntry(Range(c.whitelist), g[1..(k - 1)], hostEnv[k])
<1> DEFINE n == Len(hostEnv)
           V == Seq(Entries)
           Add(v, i) == AddEntry(Range(c.whitelist), v, hostEnv[i])
           step == [i \in 1..n |-> [v \in V |-> Add(v, i)]]
<1>1. n \in Nat /\ DOMAIN hostEnv = 1..n /\ \A i \in 1..n : hostEnv[i] \in Entries
  BY KeyFacts
<1>2. \A i \in 1..n : \A v \in V : Add(v, i) \in V
  <2> SUFFICES ASSUME NEW i \in 1..n, NEW v \in V PROVE Add(v, i) \in V
    OBVIOUS
  <2>1. Append(v, hostEnv[i]) \in V
    BY <1>1, AppendProperties
  <2> QED
    BY <2>1 DEF AddEntry
<1>3. step \in [1..n -> [V -> V]]
  BY <1>2
<1>4. \A i \in 1..n, v \in V : step[i][v] = Add(v, i)
  OBVIOUS
<1>5. \A s \in SUBSET (1..n) : s # {} => Max(s) \in s
  BY <1>1, LastPosition
<1>6. c.env \in V
  OBVIOUS
<1> HIDE DEF n, V, step
<1>7. PICK g \in [SUBSET (1..n) -> V] : IsFoldLeft(g, n, step, c.env)
  BY <1>1, <1>3, <1>6, SomeFold
<1>8. ASSUME NEW s \in SUBSET (1..n)
      PROVE  g[s] = IF s = {} THEN c.env ELSE Add(g[s \ {Max(s)}], Max(s))
  <2>1. CASE s # {}
    <3>1. Max(s) \in 1..n /\ s \ {Max(s)} \in SUBSET (1..n)
      BY <1>5, <2>1
    <3>2. g[s \ {Max(s)}] \in V
      BY <1>7, <3>1
    <3> HIDE DEF Add
    <3> QED
      BY <1>4, <1>7, <2>1, <3>1, <3>2 DEF IsFoldLeft
  <2> QED
    BY <1>7, <2>1 DEF IsFoldLeft
<1>9. IsEnvironment(g, c)
  BY <1>1, <1>7, <1>8 DEF IsEnvironment
<1> DEFINE h == CHOOSE h : IsEnvironment(h, c)
<1>10. IsEnvironment(h, c)
  BY <1>9
<1>11. Environment(c) = h[1..n]
  BY <1>1, EnvironmentIsFold
<1> HIDE DEF h
<1>12. \A s \in SUBSET (1..n) :
         h[s] = IF s = {} THEN c.env ELSE Add(h[s \ {Max(s)}], Max(s))
  BY <1>1, <1>10 DEF IsEnvironment
<1>13. h[{}] = c.env
  BY <1>12
<1>14. ASSUME NEW k \in 1..n PROVE h[1..k] = Add(h[1..(k - 1)], k)
  <2>1. k \in Nat \ {0} /\ 1..k \in SUBSET (1..n)
    BY <1>1
  <2> HIDE DEF Add
  <2> QED
    BY <1>12, <2>1, FirstPositions
<1> QED
  BY <1>11, <1>13, <1>14 DEF n

\* The first variable of the host with its key, which is whitelisted and not in env_vars.
FromHost(c, i) ==
  /\ hostEnv[i][1] \in Range(c.whitelist) \ Range(KeysOf(c.env))
  /\ \A m \in 1..(i - 1) : hostEnv[m][1] # hostEnv[i][1]

\* What the environment r has when the first k variables of the host were looked at.
Gathered(c, r, k) ==
  /\ r \in Seq(Entries) /\ OneEach(r)
  /\ \A j \in 1..Len(r) :
       \/ \E i \in 1..Len(c.env) : r[j] = c.env[i]
       \/ \E i \in 1..k : FromHost(c, i) /\ r[j] = hostEnv[i]
  /\ Range(KeysOf(r)) =
       Range(KeysOf(c.env)) \cup ({hostEnv[i][1] : i \in 1..k} \cap Range(c.whitelist))

\* The next variable is gathered as Environment says.
LEMMA GatheredStep ==
  ASSUME NEW c, c.env \in Seq(Entries), hostEnv \in Seq(Entries),
         NEW k \in 1..Len(hostEnv), NEW r, Gathered(c, r, k - 1)
  PROVE  Gathered(c, AddEntry(Range(c.whitelist), r, hostEnv[k]), k)
<1> DEFINE e == hostEnv[k]
           W == Range(c.whitelist)
           q == AddEntry(W, r, e)
           given == Range(KeysOf(c.env))
           seen(n) == {hostEnv[i][1] : i \in 1..n}
<1>1. /\ Len(hostEnv) \in Nat /\ k \in Nat /\ k >= 1 /\ k \in 1..k
      /\ \A i \in 1..(k - 1) : i \in 1..k
  BY KeyFacts
<1>2. e \in Entries
  BY KeyFacts
<1>3. r \in Seq(Entries) /\ OneEach(r) /\ Len(r) \in Nat
      /\ Range(KeysOf(r)) = {r[i][1] : i \in 1..Len(r)}
      /\ Range(KeysOf(r)) = given \cup (seen(k - 1) \cap W)
  BY KeyFacts DEF Gathered
<1>4. seen(k) = seen(k - 1) \cup {e[1]}
  <2>1. 1..k = 1..(k - 1) \cup {k}
    BY <1>1
  <2> QED
    BY <2>1
<1>5. CASE e[1] \in W /\ e[1] \notin Range(KeysOf(r))
  <2>1. q = Append(r, e)
    BY <1>5 DEF AddEntry
  <2>2. /\ q \in Seq(Entries) /\ Len(q) = Len(r) + 1
        /\ \A i \in 1..Len(r) : q[i] = r[i]
        /\ q[Len(r) + 1] = e
    BY <1>2, <1>3, <2>1, AppendProperties
  <2>3. \A i \in 1..Len(q) : i \in 1..Len(r) \/ i = Len(r) + 1
    BY <1>3, <2>2
  <2>4. \A i \in 1..Len(r) : q[i][1] # e[1]
    BY <1>3, <1>5, <2>2
  <2> HIDE DEF q, e
  <2>5. OneEach(q)
    BY <1>3, <2>2, <2>3, <2>4 DEF OneEach
  <2>6. FromHost(c, k)
    <3>1. e[1] \notin given /\ e[1] \notin seen(k - 1)
      BY <1>3, <1>5
    <3> QED
      BY <1>5, <3>1 DEF FromHost, e
  <2>7. ASSUME NEW j \in 1..Len(q)
        PROVE  \/ \E i \in 1..Len(c.env) : q[j] = c.env[i]
               \/ \E i \in 1..k : FromHost(c, i) /\ q[j] = hostEnv[i]
    <3>1. CASE j \in 1..Len(r)
      <4>1. \/ \E i \in 1..Len(c.env) : r[j] = c.env[i]
            \/ \E i \in 1..(k - 1) : FromHost(c, i) /\ r[j] = hostEnv[i]
        BY <3>1 DEF Gathered
      <4> QED
        BY <1>1, <2>2, <3>1, <4>1
    <3>2. CASE j = Len(r) + 1
      BY <1>1, <2>2, <2>6, <3>2 DEF e
    <3> QED
      BY <2>3, <3>1, <3>2
  <2>8. Range(KeysOf(q)) = Range(KeysOf(r)) \cup {e[1]}
    <3>1. Range(KeysOf(q)) = {q[i][1] : i \in 1..Len(q)}
      BY <2>2, KeyFacts
    <3>2. \A i \in 1..Len(r) : i \in 1..Len(q) /\ q[i][1] = r[i][1]
      BY <1>3, <2>2
    <3>3. Len(r) + 1 \in 1..Len(q) /\ q[Len(r) + 1][1] = e[1]
      BY <1>3, <2>2
    <3>4. \A i \in 1..Len(q) : q[i][1] \in {r[j][1] : j \in 1..Len(r)} \cup {e[1]}
      BY <2>3, <3>2, <3>3
    <3>5. \A i \in 1..Len(r) : r[i][1] \in Range(KeysOf(q))
      BY <3>1, <3>2
    <3>6. e[1] \in Range(KeysOf(q))
      BY <3>1, <3>3
    <3> QED
      BY <1>3, <3>1, <3>4, <3>5, <3>6
  <2>9. Range(KeysOf(q)) = given \cup (seen(k) \cap W)
    <3> HIDE DEF given, seen, W
    <3> QED
      BY <1>3, <1>4, <1>5, <2>8
  <2>10. Gathered(c, q, k)
    BY <2>2, <2>5, <2>7, <2>9 DEF Gathered
  <2> QED
    BY <2>10 DEF q, e
<1>6. CASE ~(e[1] \in W /\ e[1] \notin Range(KeysOf(r)))
  <2>1. q = r
    BY <1>6 DEF AddEntry
  <2>2. Range(KeysOf(r)) = given \cup (seen(k) \cap W)
    <3> HIDE DEF given, seen, W, e
    <3> QED
      BY <1>3, <1>4, <1>6
  <2>3. \A j \in 1..Len(r) :
          \/ \E i \in 1..Len(c.env) : r[j] = c.env[i]
          \/ \E i \in 1..k : FromHost(c, i) /\ r[j] = hostEnv[i]
    BY <1>1 DEF Gathered
  <2>4. Gathered(c, r, k)
    BY <1>3, <2>2, <2>3 DEF Gathered
  <2> QED
    BY <2>1, <2>4
<1> QED
  BY <1>5, <1>6

\* Of env_vars in which no key is twice, Environment gathers all the host has to give.
LEMMA EnvironmentGathers ==
  ASSUME NEW c, c.env \in Seq(Entries), IsInjective(KeysOf(c.env)), hostEnv \in Seq(Entries)
  PROVE  Gathered(c, Environment(c), Len(hostEnv))
<1> DEFINE n == Len(hostEnv)
<1>1. n \in Nat
  BY KeyFacts
<1>2. PICK g : /\ Environment(c) = g[1..n]
               /\ g[{}] = c.env
               /\ \A k \in 1..n : g[1..k] = AddEntry(Range(c.whitelist), g[1..(k - 1)], hostEnv[k])
  BY EnvironmentSteps
<1> DEFINE good == {k \in 0..n : Gathered(c, g[1..k], k)}
<1>3. 0 \in good
  <2>1. g[1..0] = c.env /\ {hostEnv[i][1] : i \in 1..0} = {}
    <3>1. 1..0 = {}
      OBVIOUS
    <3> QED
      BY <1>2, <3>1
  <2>2. OneEach(c.env)
    BY KeyFacts
  <2>3. Gathered(c, c.env, 0)
    BY <2>1, <2>2 DEF Gathered
  <2> QED
    BY <1>1, <2>1, <2>3
<1>4. ASSUME NEW k \in 1..n, k - 1 \in good PROVE k \in good
  <2>1. Gathered(c, g[1..(k - 1)], k - 1)
    BY <1>4
  <2>2. Gathered(c, g[1..k], k)
    BY <1>2, <2>1, GatheredStep
  <2> QED
    BY <1>1, <2>2
<1>5. 0..n \subseteq good
  <2>1. good \in SUBSET Nat
    OBVIOUS
  <2> HIDE DEF good
  <2> QED
    BY <1>1, <1>3, <1>4, <2>1, CountingUp
<1>6. n \in good
  BY <1>1, <1>5
<1> QED
  BY <1>2, <1>6

\* What a key has in the environment: what env_vars says, else what the host says of
\* a key that is whitelisted.
LEMMA EnvironmentLookup ==
  ASSUME NEW c, c.env \in Seq(Entries), IsInjective(KeysOf(c.env)), hostEnv \in Seq(Entries),
         NEW key \in Text
  PROVE  Lookup(Environment(c), key) =
           IF key \in Range(KeysOf(c.env)) THEN Lookup(c.env, key)
           ELSE IF key \in Range(c.whitelist) THEN Lookup(hostEnv, key) ELSE ""
<1> DEFINE r == Environment(c)
           n == Len(hostEnv)
<1>1. Gathered(c, r, n)
  BY EnvironmentGathers
<1> HIDE DEF r
<1>2. r \in Seq(Entries) /\ OneEach(r) /\ Len(r) \in Nat
  BY <1>1 DEF Gathered
<1>3. \A j \in 1..Len(r) : Lookup(r, r[j][1]) = r[j][2]
  <2> SUFFICES ASSUME NEW j \in 1..Len(r) PROVE Lookup(r, r[j][1]) = r[j][2]
    OBVIOUS
  <2>1. \A m \in 1..(j - 1) : r[m][1] # r[j][1]
    BY <1>2 DEF OneEach
  <2> QED
    BY <1>2, <2>1, LookupFirst
<1>4. OneEach(c.env) /\ Len(c.env) \in Nat
  BY KeyFacts
<1>5. \A i \in 1..Len(c.env) : Lookup(c.env, c.env[i][1]) = c.env[i][2]
  <2> SUFFICES ASSUME NEW i \in 1..Len(c.env) PROVE Lookup(c.env, c.env[i][1]) = c.env[i][2]
    OBVIOUS
  <2>1. \A m \in 1..(i - 1) : c.env[m][1] # c.env[i][1]
    BY <1>4 DEF OneEach
  <2> QED
    BY <2>1, LookupFirst
<1>6. Range(KeysOf(hostEnv)) = {hostEnv[i][1] : i \in 1..n}
      /\ Range(KeysOf(c.env)) = {c.env[i][1] : i \in 1..Len(c.env)}
      /\ Range(KeysOf(r)) = {r[i][1] : i \in 1..Len(r)}
  BY <1>2, KeyFacts
<1>7. Range(KeysOf(r)) =
        Range(KeysOf(c.env)) \cup (Range(KeysOf(hostEnv)) \cap Range(c.whitelist))
  BY <1>1, <1>6 DEF Gathered
<1> SUFFICES Lookup(r, key) =
               IF key \in Range(KeysOf(c.env)) THEN Lookup(c.env, key)
               ELSE IF key \in Range(c.whitelist) THEN Lookup(hostEnv, key) ELSE ""
  BY DEF r
<1>8. CASE key \in Range(KeysOf(r))
  <2>1. PICK j \in 1..Len(r) : r[j][1] = key
    BY <1>6, <1>8
  <2>2. Lookup(r, key) = r[j][2]
    BY <1>3, <2>1
  <2>3. CASE \E i \in 1..Len(c.env) : r[j] = c.env[i]
    <3>1. PICK i \in 1..Len(c.env) : r[j] = c.env[i]
      BY <2>3
    <3> QED
      BY <1>5, <1>6, <2>1, <2>2, <3>1
  <2>4. CASE \E i \in 1..n : FromHost(c, i) /\ r[j] = hostEnv[i]
    <3>1. PICK i \in 1..n : FromHost(c, i) /\ r[j] = hostEnv[i]
      BY <2>4
    <3>2. Lookup(hostEnv, hostEnv[i][1]) = hostEnv[i][2]
      BY <3>1, LookupFirst DEF FromHost
    <3>3. key \in Range(c.whitelist) /\ key \notin Range(KeysOf(c.env))
      BY <2>1, <3>1 DEF FromHost
    <3> QED
      BY <2>1, <2>2, <3>1, <3>2, <3>3
  <2> QED
    BY <1>1, <2>3, <2>4 DEF Gathered
<1>9. CASE key \notin Range(KeysOf(r))
  <2>1. Lookup(r, key) = ""
    BY <1>2, <1>9, LookupNone
  <2>2. key \notin Range(KeysOf(c.env))
    BY <1>7, <1>9
  <2>3. key \in Range(c.whitelist) => Lookup(hostEnv, key) = ""
    BY <1>7, <1>9, LookupNone
  <2> QED
    BY <2>1, <2>2, <2>3
<1> QED
  BY <1>8, <1>9

\* What interactiveEnvironment does with one entry.
KeepOther(kept, e) == IF e[1] = "TERM" THEN kept ELSE Append(kept, e)

\* The recursion of its loop by the definition of FoldLeft.
IsKept(g, entries) ==
  g = [s \in SUBSET DOMAIN entries |->
         IF s = {} THEN <<>> ELSE KeepOther(g[s \ {Max(s)}], entries[Max(s)])]

\* The entries it keeps.
Kept(entries) == (CHOOSE g : IsKept(g, entries))[DOMAIN entries]

\* TERM is added to those.
LEMMA WithTermIsFold ==
  ASSUME NEW entries, NEW term
  PROVE  WithTerm(entries, term) = Append(Kept(entries), <<"TERM", term>>)
BY DEF WithTerm, Kept, FoldLeft, MapThenFoldSet, IsKept, KeepOther

\* The entries are looked at one after the other.
LEMMA KeptSteps ==
  ASSUME NEW entries \in Seq(Entries)
  PROVE  \E g : /\ Kept(entries) = g[1..Len(entries)]
                /\ g[{}] = <<>>
                /\ \A k \in 1..Len(entries) : g[1..k] = KeepOther(g[1..(k - 1)], entries[k])
<1> DEFINE n == Len(entries)
           V == Seq(Entries)
           step == [i \in 1..n |-> [v \in V |-> KeepOther(v, entries[i])]]
<1>1. n \in Nat /\ DOMAIN entries = 1..n /\ \A i \in 1..n : entries[i] \in Entries
  BY KeyFacts
<1>2. \A i \in 1..n : \A v \in V : KeepOther(v, entries[i]) \in V
  <2> SUFFICES ASSUME NEW i \in 1..n, NEW v \in V PROVE KeepOther(v, entries[i]) \in V
    OBVIOUS
  <2>1. Append(v, entries[i]) \in V
    BY <1>1, AppendProperties
  <2> QED
    BY <2>1 DEF KeepOther
<1>3. step \in [1..n -> [V -> V]]
  BY <1>2
<1>4. \A i \in 1..n, v \in V : step[i][v] = KeepOther(v, entries[i])
  OBVIOUS
<1>5. \A s \in SUBSET (1..n) : s # {} => Max(s) \in s
  BY <1>1, LastPosition
<1>6. <<>> \in V
  BY EmptySeq
<1> HIDE DEF n, V, step
<1>7. PICK g \in [SUBSET (1..n) -> V] : IsFoldLeft(g, n, step, <<>>)
  BY <1>1, <1>3, <1>6, SomeFold
<1>8. ASSUME NEW s \in SUBSET (1..n)
      PROVE  g[s] = IF s = {} THEN <<>> ELSE KeepOther(g[s \ {Max(s)}], entries[Max(s)])
  <2>1. CASE s # {}
    <3>1. Max(s) \in 1..n /\ s \ {Max(s)} \in SUBSET (1..n)
      BY <1>5, <2>1
    <3>2. g[s \ {Max(s)}] \in V
      BY <1>7, <3>1
    <3> QED
      BY <1>4, <1>7, <2>1, <3>1, <3>2 DEF IsFoldLeft
  <2> QED
    BY <1>7, <2>1 DEF IsFoldLeft
<1>9. IsKept(g, entries)
  BY <1>1, <1>7, <1>8 DEF IsKept
<1> DEFINE h == CHOOSE h : IsKept(h, entries)
<1>10. IsKept(h, entries)
  BY <1>9
<1>11. Kept(entries) = h[1..n]
  BY <1>1 DEF Kept
<1> HIDE DEF h
<1>12. \A s \in SUBSET (1..n) :
         h[s] = IF s = {} THEN <<>> ELSE KeepOther(h[s \ {Max(s)}], entries[Max(s)])
  BY <1>1, <1>10 DEF IsKept
<1>13. h[{}] = <<>>
  BY <1>12
<1>14. ASSUME NEW k \in 1..n PROVE h[1..k] = KeepOther(h[1..(k - 1)], entries[k])
  <2>1. k \in Nat \ {0} /\ 1..k \in SUBSET (1..n)
    BY <1>1
  <2> QED
    BY <1>12, <2>1, FirstPositions
<1> QED
  BY <1>11, <1>13, <1>14 DEF n

\* What has been kept of the first k entries.
KeptOf(entries, r, k) ==
  /\ r \in Seq(Entries) /\ OneEach(r)
  /\ \A j \in 1..Len(r) : \E i \in 1..k : r[j] = entries[i] /\ r[j][1] # "TERM"
  /\ \A i \in 1..k : entries[i][1] # "TERM" => \E j \in 1..Len(r) : r[j] = entries[i]

\* One more entry is kept, or left out.
LEMMA KeptStep ==
  ASSUME NEW entries \in Seq(Entries), OneEach(entries),
         NEW k \in 1..Len(entries), NEW r, KeptOf(entries, r, k - 1)
  PROVE  KeptOf(entries, KeepOther(r, entries[k]), k)
<1> DEFINE e == entries[k]
           q == KeepOther(r, e)
<1>1. /\ Len(entries) \in Nat /\ k \in Nat /\ k \in 1..k
      /\ \A i \in 1..(k - 1) : i \in 1..k /\ i \in 1..Len(entries) /\ i # k
      /\ \A i \in 1..k : i \in 1..(k - 1) \/ i = k
  BY KeyFacts
<1>2. e \in Entries /\ r \in Seq(Entries) /\ OneEach(r) /\ Len(r) \in Nat
  BY KeyFacts DEF KeptOf
<1>3. CASE e[1] = "TERM"
  <2>1. q = r
    BY <1>3 DEF KeepOther
  <2>2. \A j \in 1..Len(r) : \E i \in 1..k : r[j] = entries[i] /\ r[j][1] # "TERM"
    BY <1>1 DEF KeptOf
  <2>3. \A i \in 1..k : entries[i][1] # "TERM" => \E j \in 1..Len(r) : r[j] = entries[i]
    BY <1>1, <1>3 DEF KeptOf
  <2> HIDE DEF q, e
  <2>4. KeptOf(entries, q, k)
    BY <1>2, <2>1, <2>2, <2>3 DEF KeptOf
  <2> QED
    BY <2>4 DEF q, e
<1>4. CASE e[1] # "TERM"
  <2>1. q = Append(r, e)
    BY <1>4 DEF KeepOther
  <2>2. /\ q \in Seq(Entries) /\ Len(q) = Len(r) + 1
        /\ \A i \in 1..Len(r) : q[i] = r[i]
        /\ q[Len(r) + 1] = e
    BY <1>2, <2>1, AppendProperties
  <2>3. \A i \in 1..Len(q) : i \in 1..Len(r) \/ i = Len(r) + 1
    BY <1>2, <2>2
  <2>4. Len(r) + 1 \in 1..Len(q) /\ \A i \in 1..Len(r) : i \in 1..Len(q)
    BY <1>2, <2>2
  <2>5. \A j \in 1..Len(r) : r[j][1] # e[1]
    <3> SUFFICES ASSUME NEW j \in 1..Len(r) PROVE r[j][1] # e[1]
      OBVIOUS
    <3>1. PICK i \in 1..(k - 1) : r[j] = entries[i]
      BY DEF KeptOf
    <3>2. entries[i][1] # entries[k][1]
      BY <1>1 DEF OneEach
    <3> QED
      BY <3>1, <3>2
  <2>6. \A j \in 1..Len(r) : \E i \in 1..k : q[j] = entries[i] /\ q[j][1] # "TERM"
    BY <1>1, <2>2 DEF KeptOf
  <2>7. \A i \in 1..(k - 1) : entries[i][1] # "TERM" => \E j \in 1..Len(q) : q[j] = entries[i]
    BY <2>2, <2>4 DEF KeptOf
  <2>8. q[Len(r) + 1] = entries[k] /\ q[Len(r) + 1][1] # "TERM"
    BY <1>4, <2>2
  <2> HIDE DEF q
  <2>9. OneEach(q)
    <3> HIDE DEF e
    <3> QED
      BY <1>2, <2>2, <2>3, <2>5 DEF OneEach
  <2>10. \A j \in 1..Len(q) : \E i \in 1..k : q[j] = entries[i] /\ q[j][1] # "TERM"
    BY <1>1, <2>3, <2>6, <2>8
  <2>11. \A i \in 1..k : entries[i][1] # "TERM" => \E j \in 1..Len(q) : q[j] = entries[i]
    BY <1>1, <2>4, <2>7, <2>8
  <2>12. KeptOf(entries, q, k)
    BY <2>2, <2>9, <2>10, <2>11 DEF KeptOf
  <2> QED
    BY <2>12 DEF q
<1> QED
  BY <1>3, <1>4

\* An environment with TERM has each key once, TERM with the given value, and every
\* other key with the value it had.
LEMMA WithTermFacts ==
  ASSUME NEW entries \in Seq(Entries), OneEach(entries), NEW term \in Text
  PROVE  /\ WithTerm(entries, term) \in Seq(Entries)
         /\ OneEach(WithTerm(entries, term))
         /\ \A key \in Text : Lookup(WithTerm(entries, term), key) =
              IF key = "TERM" THEN term ELSE Lookup(entries, key)
         /\ Range(KeysOf(WithTerm(entries, term))) \subseteq Range(KeysOf(entries)) \cup {"TERM"}
<1> DEFINE n == Len(entries)
           q == Kept(entries)
           e == <<"TERM", term>>
           r == WithTerm(entries, term)
<1>1. n \in Nat
  BY KeyFacts
<1>2. KeptOf(entries, q, n)
  <2>1. PICK g : /\ q = g[1..n]
                 /\ g[{}] = <<>>
                 /\ \A k \in 1..n : g[1..k] = KeepOther(g[1..(k - 1)], entries[k])
    BY KeptSteps
  <2> DEFINE good == {k \in 0..n : KeptOf(entries, g[1..k], k)}
  <2>2. 0 \in good
    <3>1. g[1..0] = <<>> /\ \A i \in 1..0 : FALSE
      <4>1. 1..0 = {}
        OBVIOUS
      <4> QED
        BY <2>1, <4>1
    <3>2. <<>> \in Seq(Entries) /\ Len(<<>>) = 0
      BY EmptySeq
    <3>3. KeptOf(entries, <<>>, 0)
      BY <3>1, <3>2 DEF KeptOf, OneEach
    <3> QED
      BY <1>1, <3>1, <3>3
  <2>3. ASSUME NEW k \in 1..n, k - 1 \in good PROVE k \in good
    <3>1. KeptOf(entries, g[1..(k - 1)], k - 1)
      BY <2>3
    <3>2. KeptOf(entries, g[1..k], k)
      BY <2>1, <3>1, KeptStep
    <3> QED
      BY <1>1, <3>2
  <2>4. 0..n \subseteq good
    <3>1. good \in SUBSET Nat
      OBVIOUS
    <3> HIDE DEF good
    <3> QED
      BY <1>1, <2>2, <2>3, <3>1, CountingUp
  <2>5. n \in good
    BY <1>1, <2>4
  <2> QED
    BY <2>1, <2>5
<1>3. r = Append(q, e)
  BY WithTermIsFold
<1> HIDE DEF q, r
<1>4. q \in Seq(Entries) /\ OneEach(q) /\ Len(q) \in Nat
  BY <1>2 DEF KeptOf
<1>5. e \in Entries
  <2>1. "TERM" \in Text
    BY DEF Text
  <2> QED
    BY <2>1 DEF Entries
<1>6. /\ r \in Seq(Entries) /\ Len(r) = Len(q) + 1
      /\ \A i \in 1..Len(q) : r[i] = q[i]
      /\ r[Len(q) + 1] = e
  BY <1>3, <1>4, <1>5, AppendProperties
<1>7. \A i \in 1..Len(r) : i \in 1..Len(q) \/ i = Len(q) + 1
  BY <1>4, <1>6
<1>8. Len(q) + 1 \in 1..Len(r) /\ \A i \in 1..Len(q) : i \in 1..Len(r)
  BY <1>4, <1>6
<1>9. \A j \in 1..Len(q) : \E i \in 1..n : q[j] = entries[i] /\ q[j][1] # "TERM"
  BY <1>2 DEF KeptOf
<1>10. OneEach(r)
  <2>1. \A j \in 1..Len(q) : r[j][1] # r[Len(q) + 1][1]
    BY <1>6, <1>9
  <2> QED
    BY <1>4, <1>6, <1>7, <2>1 DEF OneEach
<1>11. \A j \in 1..Len(r) : Lookup(r, r[j][1]) = r[j][2]
  <2> SUFFICES ASSUME NEW j \in 1..Len(r) PROVE Lookup(r, r[j][1]) = r[j][2]
    OBVIOUS
  <2>1. \A m \in 1..(j - 1) : r[m][1] # r[j][1]
    BY <1>4, <1>6, <1>10 DEF OneEach
  <2> QED
    BY <1>6, <2>1, LookupFirst
<1>12. \A i \in 1..n : Lookup(entries, entries[i][1]) = entries[i][2]
  <2> SUFFICES ASSUME NEW i \in 1..n PROVE Lookup(entries, entries[i][1]) = entries[i][2]
    OBVIOUS
  <2>1. \A m \in 1..(i - 1) : entries[m][1] # entries[i][1]
    BY <1>1 DEF OneEach
  <2> QED
    BY <2>1, LookupFirst
<1>13. ASSUME NEW key \in Text
       PROVE  Lookup(r, key) = IF key = "TERM" THEN term ELSE Lookup(entries, key)
  <2>1. CASE key = "TERM"
    <3>1. r[Len(q) + 1][1] = "TERM" /\ r[Len(q) + 1][2] = term
      BY <1>6
    <3> QED
      BY <1>8, <1>11, <2>1, <3>1
  <2>2. CASE key # "TERM" /\ key \in Range(KeysOf(entries))
    <3>1. PICK i \in 1..n : entries[i][1] = key
      BY <2>2, KeyFacts
    <3>2. PICK j \in 1..Len(q) : q[j] = entries[i]
      BY <1>2, <2>2, <3>1 DEF KeptOf
    <3>3. j \in 1..Len(r) /\ r[j] = entries[i]
      BY <1>6, <1>8, <3>2
    <3>4. Lookup(r, r[j][1]) = r[j][2] /\ Lookup(entries, entries[i][1]) = entries[i][2]
      BY <1>11, <1>12, <3>3
    <3> QED
      BY <2>2, <3>1, <3>3, <3>4
  <2>3. CASE key # "TERM" /\ key \notin Range(KeysOf(entries))
    <3>1. \A i \in 1..n : entries[i][1] # key
      BY <2>3, KeyFacts
    <3>2. \A j \in 1..Len(r) : r[j][1] # key
      <4>1. \A j \in 1..Len(q) : r[j][1] # key
        BY <1>6, <1>9, <3>1
      <4>2. r[Len(q) + 1][1] # key
        BY <1>6, <2>3
      <4> QED
        BY <1>7, <4>1, <4>2
    <3>3. key \notin Range(KeysOf(r))
      BY <1>6, <3>2, KeyFacts
    <3> QED
      BY <1>6, <2>3, <3>3, LookupNone
  <2> QED
    BY <2>1, <2>2, <2>3
<1>14. Range(KeysOf(r)) \subseteq Range(KeysOf(entries)) \cup {"TERM"}
  <2>1. Range(KeysOf(r)) = {r[j][1] : j \in 1..Len(r)}
    BY <1>6, KeyFacts
  <2>2. Range(KeysOf(entries)) = {entries[i][1] : i \in 1..n}
    BY KeyFacts
  <2>3. \A j \in 1..Len(q) : r[j][1] \in Range(KeysOf(entries))
    BY <1>6, <1>9, <2>2
  <2>4. r[Len(q) + 1][1] = "TERM"
    BY <1>6
  <2> QED
    BY <1>7, <2>1, <2>3, <2>4
<1> QED
  BY <1>6, <1>10, <1>13, <1>14 DEF r

-----------------------------------------------------------------------------
(* The snapshot and the sizes.                                             *)

\* The fields of a configuration, with the types that matter.
Fields(c) ==
  /\ c = [f \in DOMAIN DefaultConfig |-> c[f]]
  /\ c.interactive \in BOOLEAN /\ c.fileSize \in Int
  /\ c.remote \in [total : Int, file : Int]
  /\ c.env \in Seq(Entries) /\ c.command \in Seq(Text)

\* json.Marshal changes values and nothing else.
LEMMA MarshalFacts ==
  ASSUME NEW c, Fields(c)
  PROVE  /\ DOMAIN Marshal(c) = DOMAIN DefaultConfig
         /\ \A f \in DOMAIN DefaultConfig \ {"command", "env"} : Marshal(c)[f] = c[f]
         /\ c.command # <<>> => Marshal(c).command # <<>>
         /\ KeysOf(Marshal(c).env) = KeysOf(c.env)
         /\ \A key \in Text : Lookup(Marshal(c).env, key) = Encoded(Lookup(c.env, key))
<1> DEFINE m == Marshal(c)
           D == DOMAIN DefaultConfig
<1>1. {"command", "env"} \subseteq D
  BY VariableFields
<1>2. DOMAIN c = D /\ c.env \in Seq(Entries) /\ c.command \in Seq(Text)
  BY DEF Fields
<1>3. /\ DOMAIN m = D
      /\ \A f \in D \ {"command", "env"} : m[f] = c[f]
      /\ m.command = [i \in DOMAIN c.command |-> Encoded(c.command[i])]
      /\ m.env = [i \in DOMAIN c.env |-> <<c.env[i][1], Encoded(c.env[i][2])>>]
  <2> HIDE DEF D
  <2> QED
    BY <1>1, <1>2 DEF Marshal
<1> HIDE DEF m
<1>4. c.command # <<>> => m.command # <<>>
  <2> SUFFICES ASSUME c.command # <<>>, m.command = <<>> PROVE FALSE
    OBVIOUS
  <2>1. Len(c.command) \in Nat \ {0} /\ DOMAIN c.command = 1..Len(c.command)
    BY <1>2, EmptySeq
  <2>2. 1 \in DOMAIN c.command
    BY <2>1
  <2>3. 1 \in DOMAIN m.command
    BY <1>3, <2>2
  <2>4. DOMAIN <<>> = {}
    OBVIOUS
  <2> QED
    BY <2>3, <2>4
<1>5. /\ DOMAIN m.env = DOMAIN c.env
      /\ \A i \in DOMAIN c.env : m.env[i][1] = c.env[i][1] /\ m.env[i][2] = Encoded(c.env[i][2])
  BY <1>3
<1>6. KeysOf(m.env) = KeysOf(c.env)
  BY <1>5 DEF KeysOf
<1>7. ASSUME NEW key \in Text PROVE Lookup(m.env, key) = Encoded(Lookup(c.env, key))
  <2> DEFINE found == {i \in DOMAIN c.env : c.env[i][1] = key}
  <2>1. {i \in DOMAIN m.env : m.env[i][1] = key} = found
    BY <1>5
  <2>2. Lookup(m.env, key) = IF found = {} THEN "" ELSE m.env[Min(found)][2]
    BY <2>1 DEF Lookup
  <2>3. Lookup(c.env, key) = IF found = {} THEN "" ELSE c.env[Min(found)][2]
    BY DEF Lookup
  <2>4. found # {} => Min(found) \in DOMAIN c.env
    <3>1. found \in SUBSET Nat
      BY <1>2
    <3> HIDE DEF found
    <3>2. found # {} => Min(found) \in found
      BY <3>1, LeastMember
    <3> QED
      BY <3>2 DEF found
  <2>5. Encoded("") = ""
    BY NamesAssumption DEF Encoded
  <2> HIDE DEF found
  <2> QED
    BY <1>5, <2>2, <2>3, <2>4, <2>5
<1> QED
  BY <1>3, <1>4, <1>6, <1>7 DEF m

\* What the parent accepted the child accepts when it has come through the pipe.
LEMMA MarshalValid ==
  ASSUME NEW c, Fields(c), Validate(c)
  PROVE  Validate(Marshal(c))
<1> DEFINE m == Marshal(c)
<1>1. /\ m.mode = c.mode /\ m.subnet = c.subnet /\ m.gateway = c.gateway
      /\ m.container = c.container /\ m.whitelist = c.whitelist /\ m.fileSize = c.fileSize
      /\ m.readOnly = c.readOnly /\ m.rootfs = c.rootfs /\ m.remote = c.remote
      /\ m.others = c.others
  BY MarshalFacts, VariableFields DEF Settable
<1>2. (c.command # <<>> => m.command # <<>>) /\ KeysOf(m.env) = KeysOf(c.env)
  BY MarshalFacts
<1> HIDE DEF m
<1>3. Validate(m)
  BY <1>1, <1>2 DEF Validate, ValidBridge
<1> QED
  BY <1>3 DEF m

\* The sizes that Validate let pass are not refused, and lose no bit.
LEMMA SizesFit ==
  ASSUME NEW r \in [total : Int, file : Int], ValidRemoteLimits(r)
  PROVE  /\ ~LimitsRefused(r)
         /\ LimitsOf(r) = [total |-> Total(r) * UnitBytes, file |-> File(r) * UnitBytes]
         /\ LimitsOf(r).file <= LimitsOf(r).total
<1> DEFINE q == MaxWord \div UnitBytes
           t == Total(r)
           f == File(r)
<1>1. UnitBytes \in Nat /\ UnitBytes > 0 /\ MaxWord \in Nat
  BY UnitsAssumption
<1>2. q \in Nat /\ UnitBytes * q <= MaxWord
  BY <1>1
<1>3. t \in 0..q /\ f \in 0..q /\ f <= t /\ r.total >= 0 /\ r.file >= 0
  BY DEF ValidRemoteLimits
<1>4. ~LimitsRefused(r)
  <2>1. r.total \in Int /\ r.file \in Int
    OBVIOUS
  <2> HIDE DEF q, t, f
  <2>2. ~(r.total < 0) /\ ~(r.file < 0) /\ ~(f > t) /\ ~(t > q) /\ ~(f > q)
    BY <1>2, <1>3, <2>1
  <2> QED
    BY <2>2 DEF LimitsRefused, q, t, f
<1> HIDE DEF q, t, f
<1>5. \A x \in 0..q : x * UnitBytes \in Nat /\ x * UnitBytes <= MaxWord
  <2> SUFFICES ASSUME NEW x \in 0..q PROVE x * UnitBytes \in Nat /\ x * UnitBytes <= MaxWord
    OBVIOUS
  <2>1. x \in Nat /\ q - x \in Nat
    BY <1>2
  <2>2. x * UnitBytes \in Nat /\ (q - x) * UnitBytes \in Nat
    BY <1>1, <2>1
  <2>3. (q - x) * UnitBytes = UnitBytes * q - x * UnitBytes
    BY <1>1, <1>2, <2>1
  <2> QED
    BY <1>1, <1>2, <2>1, <2>2, <2>3
<1>6. \A y \in Nat : y <= MaxWord => y % (MaxWord + 1) = y
  BY <1>1
<1>7. (t * UnitBytes) % (MaxWord + 1) = t * UnitBytes /\ (f * UnitBytes) % (MaxWord + 1) = f * UnitBytes
  BY <1>3, <1>5, <1>6
<1>8. f * UnitBytes <= t * UnitBytes
  <2>1. t - f \in Nat /\ t \in Nat /\ f \in Nat
    BY <1>2, <1>3
  <2>2. (t - f) * UnitBytes \in Nat /\ (t - f) * UnitBytes = t * UnitBytes - f * UnitBytes
    BY <1>1, <2>1
  <2>3. t * UnitBytes \in Nat /\ f * UnitBytes \in Nat
    BY <1>1, <2>1
  <2> QED
    BY <2>2, <2>3
<1>9. LimitsOf(r) = [total |-> t * UnitBytes, file |-> f * UnitBytes]
  BY <1>7 DEF LimitsOf, t, f
<1>10. LimitsOf(r).file <= LimitsOf(r).total
  BY <1>8, <1>9
<1> QED
  BY <1>4, <1>9, <1>10 DEF t, f

-----------------------------------------------------------------------------
(* What the sources say.                                                   *)

\* Where the configuration comes from.
Sources ==
  /\ \E in \in Inputs : argv = in[1] /\ file = in[2]
  /\ args \in Commands /\ hostEnv \in Hosts

\* The defaults have their types.
LEMMA DefaultTyped == Fields(DefaultConfig)
<1>1. <<"PATH", "bin">> \in Entries
  BY DEF Text, Entries
<1>2. <<<<"PATH", "bin">>>> \in Seq(Entries) /\ <<>> \in Seq(Text)
  BY <1>1
<1>3. NoRemote \in [total : Int, file : Int]
  BY DEF NoRemote
<1>4. DefaultConfig = [f \in DOMAIN DefaultConfig |-> DefaultConfig[f]]
  BY DEF DefaultConfig
<1>5. DefaultConfig.interactive \in BOOLEAN
  BY DEF DefaultConfig
<1>6. /\ DefaultConfig.fileSize = 100 /\ DefaultConfig.remote = NoRemote
      /\ DefaultConfig.env = <<<<"PATH", "bin">>>> /\ DefaultConfig.command = <<>>
  BY DEF DefaultConfig
<1> QED
  BY <1>2, <1>3, <1>4, <1>5, <1>6 DEF Fields

\* The file and the command line are ones that the decoders let through.
LEMMA SourcesTyped ==
  ASSUME Sources
  PROVE  /\ argv \in Seq(Range(argv))
         /\ \A i \in DOMAIN argv :
              /\ argv[i][1] \in {"interactive", "i"} => argv[i][2] \in BOOLEAN
              /\ argv[i][1] = "fileSize" => argv[i][2] \in Int
         /\ Before("interactive") \in BOOLEAN /\ Before("fileSize") \in Int
         /\ Before("remote") \in [total : Int, file : Int]
         /\ Before("env") \in Seq(Entries) /\ Before("command") \in Seq(Text)
         /\ args \in Seq(Text) /\ hostEnv \in Seq(Entries)
<1>1. PICK in \in Inputs : argv = in[1] /\ file = in[2]
  BY DEF Sources
<1>2. /\ argv \in Seq(Range(argv))
      /\ \A i \in DOMAIN argv :
           /\ argv[i][1] \in {"interactive", "i"} => argv[i][2] \in BOOLEAN
           /\ argv[i][1] = "fileSize" => argv[i][2] \in Int
      /\ "interactive" \in DOMAIN file => file.interactive \in BOOLEAN
      /\ "fileSize" \in DOMAIN file => file.fileSize \in Int
      /\ "remote" \in DOMAIN file => file.remote \in [total : Int, file : Int]
      /\ "env" \in DOMAIN file => file.env \in Seq(Entries)
      /\ "command" \in DOMAIN file => file.command \in Seq(Text)
  BY <1>1, InputsAssumption
<1>3. /\ DefaultConfig.interactive \in BOOLEAN /\ DefaultConfig.fileSize \in Int
      /\ DefaultConfig.remote \in [total : Int, file : Int]
      /\ DefaultConfig.env \in Seq(Entries) /\ DefaultConfig.command \in Seq(Text)
  BY DefaultTyped DEF Fields
<1>4. args \in Seq(Text) /\ hostEnv \in Seq(Entries)
  BY HostAssumption DEF Sources
<1> QED
  BY <1>2, <1>3, <1>4 DEF Before

\* The flags that Effective considers are those that LastFlag speaks of.
LEMMA SameSetting ==
  ASSUME Sources, ~ParseError(argv), NEW f \in Settable
  PROVE  {i \in DOMAIN argv : argv[i][1] = f \/ (f = "interactive" /\ argv[i][1] = "i")}
           = Setting(argv, f, Len(argv))
<1>1. DOMAIN argv = 1..Len(argv)
  BY SourcesTyped
<1>2. \A i \in DOMAIN argv : argv[i][1] \in DOMAIN Variable
  BY DEF ParseError
<1>3. f # "i"
  BY DEF Settable
<1>4. ASSUME NEW i \in DOMAIN argv
      PROVE  Variable[argv[i][1]] = f <=> argv[i][1] = f \/ (f = "interactive" /\ argv[i][1] = "i")
  BY <1>2, <1>3, VariableFields
<1> QED
  BY <1>1, <1>4 DEF Setting

\* The second pass leaves in each field what goes first, and takes nothing else.
LEMMA OverriddenIsEffective ==
  ASSUME Sources, ~ParseError(argv), Fields(cfg),
         \A f \in DOMAIN DefaultConfig \ {"rootfs"} : cfg[f] = Before(f)
  PROVE  /\ Overridden = [f \in DOMAIN DefaultConfig |-> Overridden[f]]
         /\ \A f \in Settable : Overridden[f] = Effective(f)
         /\ \A f \in DOMAIN DefaultConfig \ Settable : Overridden[f] = cfg[f]
         /\ Effective("interactive") \in BOOLEAN /\ Effective("fileSize") \in Int
<1> DEFINE v == Values(argv, cfg)
           variables == {Variable[f] : f \in Seen(argv)}
           S(f) == Setting(argv, f, Len(argv))
           D == DOMAIN DefaultConfig
<1>1. Parsed(argv, cfg)
  BY SourcesTyped DEF Parsed, Fields
<1>2. Len(argv) \in Nat /\ DOMAIN argv = 1..Len(argv)
  BY SourcesTyped
<1>3. \A f : f \in variables <=> S(f) # {}
  BY <1>2 DEF Seen, Setting
<1>4. \A f \in D : /\ S(f) = {} => v[f] = cfg[f]
                   /\ S(f) # {} => v[f] = argv[Max(S(f))][2]
  BY <1>1, LastFlag
<1>5. \A f \in D : Overridden[f] =
        IF f \notin variables THEN cfg[f]
        ELSE IF f = "whitelist" THEN SplitCSV(v[f]) ELSE v[f]
  BY DEF Overridden, Fields
<1>6. Settable \subseteq D \ {"rootfs"}
  BY VariableFields DEF Settable
<1>7. ASSUME NEW f \in Settable PROVE Overridden[f] = Effective(f)
  <2>1. Effective(f) = IF S(f) = {} THEN Before(f)
                       ELSE IF f = "whitelist" THEN SplitCSV(argv[Max(S(f))][2])
                       ELSE argv[Max(S(f))][2]
    BY SameSetting DEF Effective
  <2>2. f \in D /\ cfg[f] = Before(f)
    BY <1>6
  <2> HIDE DEF v, variables, S, D
  <2> QED
    BY <1>3, <1>4, <1>5, <2>1, <2>2
<1>8. ASSUME NEW f \in D \ Settable PROVE Overridden[f] = cfg[f]
  <2>1. S(f) = {}
    <3>1. \A x \in DOMAIN Variable : Variable[x] \in Settable
      BY VariableFields DEF Settable
    <3>2. \A i \in 1..Len(argv) : argv[i][1] \in DOMAIN Variable
      BY <1>2 DEF ParseError
    <3> QED
      BY <3>1, <3>2 DEF Setting
  <2> HIDE DEF v, variables, S, D
  <2> QED
    BY <1>3, <1>5, <2>1
<1>9. \A f \in Settable : S(f) # {} => Max(S(f)) \in S(f)
  <2> SUFFICES ASSUME NEW f \in Settable, S(f) # {} PROVE Max(S(f)) \in S(f)
    OBVIOUS
  <2>1. S(f) \in SUBSET (1..Len(argv))
    BY DEF Setting
  <2> HIDE DEF S
  <2> QED
    BY <1>2, <2>1, LastPosition
<1>10. {"interactive", "fileSize"} \subseteq Settable
  BY DEF Settable
<1>11. Effective("interactive") \in BOOLEAN
  <2> DEFINE s == {i \in DOMAIN argv : argv[i][1] = "interactive" \/ argv[i][1] = "i"}
  <2>1. s = S("interactive")
    BY <1>10, SameSetting
  <2>2. Effective("interactive") = IF s = {} THEN Before("interactive") ELSE argv[Max(s)][2]
    BY DEF Effective
  <2>3. s # {} => Max(s) \in s
    BY <1>9, <1>10, <2>1
  <2>4. s # {} => argv[Max(s)][2] \in BOOLEAN
    BY <2>3, SourcesTyped
  <2> HIDE DEF s
  <2> QED
    BY <2>2, <2>4, SourcesTyped
<1>12. Effective("fileSize") \in Int
  <2> DEFINE s == {i \in DOMAIN argv : argv[i][1] = "fileSize"}
  <2>1. s = S("fileSize")
    BY <1>10, SameSetting
  <2>2. Effective("fileSize") = IF s = {} THEN Before("fileSize") ELSE argv[Max(s)][2]
    BY DEF Effective
  <2>3. s # {} => Max(s) \in s
    BY <1>9, <1>10, <2>1
  <2>4. s # {} => argv[Max(s)][2] \in Int
    BY <2>3, SourcesTyped
  <2> HIDE DEF s
  <2> QED
    BY <2>2, <2>4, SourcesTyped
<1>13. Overridden = [f \in D |-> Overridden[f]]
  BY DEF Overridden, Fields
<1> QED
  BY <1>7, <1>8, <1>11, <1>12, <1>13

-----------------------------------------------------------------------------
(* The way of a configuration.                                             *)

\* An environment with each key once and each value the one expected.
Complete(env) ==
  /\ IsInjective(KeysOf(env))
  /\ \A key \in Text : Lookup(env, key) = Expected(key)

\* Valid keys are different and none is bad.
LEMMA ValidKeysAre ==
  ASSUME NEW keys
  PROVE  ValidKeys(keys) <=> IsInjective(keys) /\ \A key \in Range(keys) : key \notin BadNames
BY DEF ValidKeys, Range

\* What Lookup returns is a string.
LEMMA LookupText ==
  ASSUME NEW entries \in Seq(Entries), NEW key
  PROVE  Lookup(entries, key) \in Text
<1>1. "" \in Text
  BY DEF Text
<1>2. CASE key \in Range(KeysOf(entries))
  <2>1. PICK i \in 1..Len(entries) :
          entries[i][1] = key /\ \A j \in 1..(i - 1) : entries[j][1] # key
    BY <1>2, FirstEntry
  <2>2. Lookup(entries, entries[i][1]) = entries[i][2]
    BY <2>1, LookupFirst
  <2>3. entries[i] \in Entries
    BY KeyFacts
  <2> QED
    BY <2>1, <2>2, <2>3 DEF Entries
<1>3. CASE key \notin Range(KeysOf(entries))
  BY <1>1, <1>3, LookupNone
<1> QED
  BY <1>2, <1>3

\* The environment of the snapshot: what Parent makes of env_vars, the whitelist,
\* the host and the terminal.
Snapshot(c) == IF c.interactive THEN WithTerm(Environment(c), Term(c)) ELSE Environment(c)

\* It has each key once, each value the one expected, and no bad key.
LEMMA SnapshotComplete ==
  ASSUME Sources, NEW c, Fields(c), Validate(c), c.env = Before("env"),
         c.whitelist = Effective("whitelist"), c.interactive = Effective("interactive")
  PROVE  /\ Snapshot(c) \in Seq(Entries) /\ Complete(Snapshot(c))
         /\ ValidKeys(KeysOf(Snapshot(c)))
<1> DEFINE e == Environment(c)
           given == Range(KeysOf(c.env))
           allowed == Range(c.whitelist)
<1>1. c.env \in Seq(Entries) /\ hostEnv \in Seq(Entries) /\ c.interactive \in BOOLEAN
  BY SourcesTyped DEF Fields
<1>2. ValidKeys(KeysOf(c.env)) /\ ValidKeys(c.whitelist)
  BY DEF Validate
<1>3. IsInjective(KeysOf(c.env)) /\ \A key \in given \cup allowed : key \notin BadNames
  BY <1>2, ValidKeysAre
<1>4. Gathered(c, e, Len(hostEnv))
  BY <1>1, <1>3, EnvironmentGathers
<1>5. e \in Seq(Entries) /\ OneEach(e) /\ Range(KeysOf(e)) \subseteq given \cup allowed
  BY <1>4 DEF Gathered
<1>6. ASSUME NEW key \in Text
      PROVE  Lookup(e, key) =
               IF key \in given THEN Lookup(c.env, key)
               ELSE IF key \in allowed THEN Lookup(hostEnv, key) ELSE ""
  BY <1>1, <1>3, EnvironmentLookup
<1>7. ASSUME NEW key \in Text
      PROVE  Expected(key) =
               IF key \in given THEN Lookup(c.env, key)
               ELSE IF key = "TERM" /\ c.interactive
                    THEN IF Lookup(hostEnv, key) \in TerminalNames THEN Lookup(hostEnv, key)
                         ELSE Dumb
               ELSE IF key \in allowed THEN Lookup(hostEnv, key) ELSE ""
  BY DEF Expected
<1> HIDE DEF e, given, allowed
<1>8. CASE ~c.interactive
  <2>1. Snapshot(c) = e
    BY <1>8 DEF Snapshot, e
  <2>2. \A key \in Text : Lookup(e, key) = Expected(key)
    BY <1>6, <1>7, <1>8
  <2>3. IsInjective(KeysOf(e))
    BY <1>5, KeyFacts
  <2>4. ValidKeys(KeysOf(e))
    BY <1>3, <1>5, <2>3, ValidKeysAre
  <2> QED
    BY <1>5, <2>1, <2>2, <2>3, <2>4 DEF Complete
<1>9. CASE c.interactive
  <2> DEFINE w == WithTerm(e, Term(c))
  <2>1. Snapshot(c) = w
    BY <1>9 DEF Snapshot, e
  <2>2. Term(c) = IF "TERM" \in given THEN Lookup(c.env, "TERM")
                  ELSE IF Lookup(hostEnv, "TERM") \in TerminalNames THEN Lookup(hostEnv, "TERM")
                  ELSE Dumb
    BY DEF Term, given
  <2>3. Term(c) \in Text
    <3>1. Dumb \in Text
      BY DEF Text
    <3> QED
      BY <1>1, <2>2, <3>1, LookupText
  <2>4. /\ w \in Seq(Entries) /\ OneEach(w)
        /\ \A key \in Text : Lookup(w, key) = IF key = "TERM" THEN Term(c) ELSE Lookup(e, key)
        /\ Range(KeysOf(w)) \subseteq Range(KeysOf(e)) \cup {"TERM"}
    BY <1>5, <2>3, WithTermFacts
  <2> HIDE DEF w
  <2>5. \A key \in Text : Lookup(w, key) = Expected(key)
    <3> SUFFICES ASSUME NEW key \in Text PROVE Lookup(w, key) = Expected(key)
      OBVIOUS
    <3>1. CASE key = "TERM"
      BY <1>7, <1>9, <2>2, <2>4, <3>1
    <3>2. CASE key # "TERM"
      BY <1>6, <1>7, <2>4, <3>2
    <3> QED
      BY <3>1, <3>2
  <2>6. IsInjective(KeysOf(w))
    BY <2>4, KeyFacts
  <2>7. \A key \in Range(KeysOf(w)) : key \notin BadNames
    BY <1>3, <1>5, <2>4, NamesAssumption
  <2>8. ValidKeys(KeysOf(w))
    BY <2>6, <2>7, ValidKeysAre
  <2> QED
    BY <2>1, <2>4, <2>5, <2>6, <2>8 DEF Complete
<1> QED
  BY <1>1, <1>8, <1>9

\* What the limits are to be, once there are any.
LimitsInv ==
  limits # NoRemote =>
    /\ limits = [total |-> Total(file.remote) * UnitBytes, file |-> File(file.remote) * UnitBytes]
    /\ limits.file <= limits.total

\* What holds at each stage; from parent to payload the configuration is valid.
ConfigInv ==
  /\ stage \in {"discover", "load", "override", "parent", "resolve", "write", "read",
                "payload", "refused"}
  /\ Sources
  /\ Fields(cfg) /\ DOMAIN message = DOMAIN DefaultConfig
  /\ stage \in {"discover", "load"} => cfg = DefaultConfig
  /\ stage = "load" => file # NoFile
  /\ stage \notin {"discover", "refused"} => ~ParseError(argv)
  /\ stage = "override" => \A f \in DOMAIN DefaultConfig \ {"rootfs"} : cfg[f] = Before(f)
  /\ stage = "parent" => (\A f \in Settable : cfg[f] = Effective(f)) /\ cfg.env = Before("env")
  /\ stage \in {"parent", "resolve"} => cfg.remote = Before("remote")
  /\ stage \in {"parent", "resolve", "write", "read", "payload"} => Validate(cfg)
  /\ stage \in {"resolve", "write", "read", "payload"} => Complete(cfg.env)
  /\ stage = "write" => cfg.rootfs = "absolute"
  /\ stage \in {"read", "payload"} => message = Marshal(cfg)
  /\ LimitsInv

\* The program begins with the defaults.
LEMMA ConfigInvInit == ConfigInit => ConfigInv
<1> SUFFICES ASSUME ConfigInit PROVE ConfigInv
  OBVIOUS
<1>1. Sources
  BY DEF ConfigInit, Sources
<1>2. Fields(cfg) /\ DOMAIN message = DOMAIN DefaultConfig
  BY DefaultTyped DEF ConfigInit
<1>3. LimitsInv
  BY DEF ConfigInit, LimitsInv
<1> QED
  BY <1>1, <1>2, <1>3 DEF ConfigInit, ConfigInv

\* No step changes what the sources say.
LEMMA SameSources ==
  ASSUME UNCHANGED inputs
  PROVE  /\ Sources => Sources'
         /\ ParseError(argv)' <=> ParseError(argv)
         /\ \A f : Before(f)' = Before(f)
         /\ \A f : Effective(f)' = Effective(f)
         /\ \A key : Expected(key)' = Expected(key)
<1>1. argv' = argv /\ args' = args /\ file' = file /\ hostEnv' = hostEnv
  BY DEF inputs
<1>2. Sources => Sources'
  BY <1>1 DEF Sources
<1>3. ParseError(argv)' <=> ParseError(argv)
  BY <1>1 DEF ParseError
<1>4. \A f : Before(f)' = Before(f)
  BY <1>1 DEF Before
<1>5. \A f : Effective(f)' = Effective(f)
  BY <1>1, <1>4 DEF Effective
<1>6. \A key : Expected(key)' = Expected(key)
  BY <1>1, <1>4, <1>5 DEF Expected
<1> QED
  BY <1>2, <1>3, <1>4, <1>5, <1>6

\* A refusal changes nothing else.
LEMMA RefuseStep ==
  ASSUME ConfigInv, Refuse
  PROVE  ConfigInv'
<1>1. stage' = "refused" /\ UNCHANGED <<inputs, cfg, limits, message>>
  BY DEF Refuse
<1>2. Sources' /\ file' = file
  BY <1>1, SameSources DEF ConfigInv, inputs
<1>3. LimitsInv'
  BY <1>1, <1>2 DEF ConfigInv, LimitsInv
<1>4. Fields(cfg)'
  BY <1>1 DEF ConfigInv
<1> QED
  BY <1>1, <1>2, <1>3, <1>4 DEF ConfigInv

\* The first pass keeps the defaults.
LEMMA DiscoverStep ==
  ASSUME ConfigInv, Discover
  PROVE  ConfigInv'
<1>1. CASE ParseError(argv)
  BY <1>1, RefuseStep DEF Discover
<1>2. CASE ~ParseError(argv)
  <2>1. /\ stage' = IF file = NoFile THEN "override" ELSE "load"
        /\ UNCHANGED <<inputs, cfg, limits, message>>
        /\ cfg = DefaultConfig
    BY <1>2 DEF Discover, ConfigInv
  <2>2. Sources' /\ ~ParseError(argv)' /\ file' = file
    BY <1>2, <2>1, SameSources DEF ConfigInv, inputs
  <2>3. LimitsInv'
    BY <2>1, <2>2 DEF ConfigInv, LimitsInv
  <2>4. Fields(cfg)'
    BY <2>1 DEF ConfigInv
  <2>5. file = NoFile => \A f : Before(f)' = cfg'[f]
    BY <2>1, SameSources DEF Before
  <2> QED
    BY <2>1, <2>2, <2>3, <2>4, <2>5 DEF ConfigInv
<1> QED
  BY <1>1, <1>2

\* The file goes over the defaults.
LEMMA LoadStep ==
  ASSUME ConfigInv, LoadConfig
  PROVE  ConfigInv'
<1> DEFINE D == DOMAIN DefaultConfig
           c == ResolveConfigPaths(Decoded)
<1>1. CASE Refuse
  BY <1>1, RefuseStep
<1>2. CASE /\ stage = "load" /\ Validate(c)
           /\ stage' = "override" /\ cfg' = c /\ UNCHANGED <<inputs, limits, message>>
  <2>1. /\ Sources /\ cfg = DefaultConfig /\ file # NoFile /\ ~ParseError(argv)
        /\ DOMAIN message = D
    BY <1>2 DEF ConfigInv
  <2>2. \A f \in D : Decoded[f] = Before(f)
    BY <2>1 DEF Decoded, Before
  <2>3. Decoded = [f \in D |-> Decoded[f]]
    BY <2>1 DEF Decoded
  <2> HIDE DEF c
  <2>4. c = [f \in D |-> c[f]] /\ \A f \in D \ {"rootfs"} : c[f] = Before(f)
    <3>1. c = [Decoded EXCEPT !.rootfs = "absolute"] \/ c = Decoded
      BY DEF c, ResolveConfigPaths
    <3> HIDE DEF D
    <3> QED
      BY <2>2, <2>3, <3>1
  <2>5. {"interactive", "fileSize", "remote", "env", "command"} \subseteq D \ {"rootfs"}
    BY VariableFields DEF Settable
  <2>6. Fields(c)
    BY <2>1, <2>4, <2>5, SourcesTyped DEF Fields
  <2>7. Sources' /\ ~ParseError(argv)' /\ file' = file
    BY <1>2, <2>1, SameSources DEF inputs
  <2>8. LimitsInv'
    BY <1>2, <2>7 DEF ConfigInv, LimitsInv
  <2>9. Fields(cfg)'
    BY <1>2, <2>6
  <2>10. \A f \in D \ {"rootfs"} : cfg'[f] = Before(f)'
    BY <1>2, <2>4, SameSources
  <2> QED
    BY <1>2, <2>1, <2>7, <2>8, <2>9, <2>10 DEF ConfigInv
<1> QED
  BY <1>1, <1>2 DEF LoadConfig

\* The command line goes over the file.
LEMMA ParseStep ==
  ASSUME ConfigInv, ParseArgs
  PROVE  ConfigInv'
<1> DEFINE D == DOMAIN DefaultConfig
           c == IF args = <<>> THEN Overridden ELSE [Overridden EXCEPT !.command = args]
<1>1. CASE Refuse
  BY <1>1, RefuseStep
<1>2. CASE /\ stage = "override" /\ Validate(c)
           /\ stage' = "parent" /\ cfg' = c /\ UNCHANGED <<inputs, limits, message>>
  <2>1. /\ Sources /\ Fields(cfg) /\ ~ParseError(argv) /\ DOMAIN message = D
        /\ \A f \in D \ {"rootfs"} : cfg[f] = Before(f)
    BY <1>2 DEF ConfigInv
  <2>2. /\ Overridden = [f \in D |-> Overridden[f]]
        /\ \A f \in Settable : Overridden[f] = Effective(f)
        /\ \A f \in D \ Settable : Overridden[f] = cfg[f]
        /\ Effective("interactive") \in BOOLEAN /\ Effective("fileSize") \in Int
    BY <2>1, OverriddenIsEffective
  <2>3. /\ {"interactive", "fileSize"} \subseteq Settable /\ Settable \subseteq D \ {"command"}
        /\ {"remote", "env", "command"} \subseteq D \ Settable /\ "rootfs" \notin {"remote", "env", "command"}
    BY VariableFields DEF Settable
  <2>4. /\ c = [f \in D |-> c[f]]
        /\ \A f \in D \ {"command"} : c[f] = Overridden[f]
        /\ c.command = IF args = <<>> THEN Overridden.command ELSE args
    <3> HIDE DEF D
    <3> QED
      BY <2>2, <2>3
  <2> HIDE DEF c
  <2>5. c.remote = Before("remote") /\ c.env = Before("env") /\ \A f \in Settable : c[f] = Effective(f)
    BY <2>1, <2>2, <2>3, <2>4
  <2>6. c.command \in Seq(Text)
    <3>1. Overridden.command = Before("command")
      BY <2>1, <2>2, <2>3
    <3> QED
      BY <2>1, <2>4, <3>1, SourcesTyped
  <2>7. Fields(c)
    BY <2>1, <2>2, <2>3, <2>4, <2>5, <2>6, SourcesTyped DEF Fields
  <2>8. Sources' /\ ~ParseError(argv)' /\ file' = file
    BY <1>2, <2>1, SameSources DEF inputs
  <2>9. LimitsInv'
    BY <1>2, <2>8 DEF ConfigInv, LimitsInv
  <2>10. Fields(cfg)' /\ Validate(cfg)'
    BY <1>2, <2>7
  <2>11. /\ \A f \in Settable : cfg'[f] = Effective(f)'
         /\ cfg'.env = Before("env")' /\ cfg'.remote = Before("remote")'
    BY <1>2, <2>5, SameSources
  <2> QED
    BY <1>2, <2>1, <2>8, <2>9, <2>10, <2>11 DEF ConfigInv
<1> QED
  BY <1>1, <1>2 DEF ParseArgs

\* The parent completes the environment.
LEMMA SnapshotStep ==
  ASSUME ConfigInv, SnapshotEnvironment
  PROVE  ConfigInv'
<1> DEFINE D == DOMAIN DefaultConfig
           c == [cfg EXCEPT !.whitelist = <<>>, !.env = Snapshot(cfg)]
<1>1. CASE Refuse
  BY <1>1, RefuseStep
<1>2. CASE /\ stage = "parent" /\ stage' = "resolve"
           /\ cfg' = c /\ UNCHANGED <<inputs, limits, message>>
  <2>1. /\ Sources /\ Fields(cfg) /\ ~ParseError(argv) /\ DOMAIN message = D
        /\ \A f \in Settable : cfg[f] = Effective(f)
        /\ cfg.env = Before("env") /\ cfg.remote = Before("remote") /\ Validate(cfg)
    BY <1>2 DEF ConfigInv
  <2>2. {"whitelist", "interactive"} \subseteq Settable
    BY DEF Settable
  <2>3. /\ Snapshot(cfg) \in Seq(Entries) /\ Complete(Snapshot(cfg))
        /\ ValidKeys(KeysOf(Snapshot(cfg)))
    BY <2>1, <2>2, SnapshotComplete
  <2>4. /\ c = [f \in D |-> c[f]] /\ c.env = Snapshot(cfg) /\ c.whitelist = <<>>
        /\ \A f \in D \ {"whitelist", "env"} : c[f] = cfg[f]
    <3>1. {"whitelist", "env"} \subseteq D
      BY VariableFields DEF Settable
    <3>2. cfg = [f \in D |-> cfg[f]]
      BY <2>1 DEF Fields
    <3> HIDE DEF D
    <3> QED
      BY <3>1, <3>2
  <2> HIDE DEF c
  <2>5. /\ c.mode = cfg.mode /\ c.subnet = cfg.subnet /\ c.gateway = cfg.gateway
        /\ c.container = cfg.container /\ c.fileSize = cfg.fileSize
        /\ c.interactive = cfg.interactive /\ c.command = cfg.command
        /\ c.readOnly = cfg.readOnly /\ c.rootfs = cfg.rootfs /\ c.remote = cfg.remote
        /\ c.others = cfg.others
    BY <2>4, VariableFields DEF Settable
  <2>6. Fields(c)
    BY <2>1, <2>3, <2>4, <2>5 DEF Fields
  <2>7. ValidKeys(<<>>)
    BY DEF ValidKeys, IsInjective
  <2>8. Validate(c)
    BY <2>1, <2>3, <2>4, <2>5, <2>7 DEF Validate, ValidBridge
  <2>9. Sources' /\ ~ParseError(argv)' /\ file' = file
    BY <1>2, <2>1, SameSources DEF inputs
  <2>10. LimitsInv'
    BY <1>2, <2>9 DEF ConfigInv, LimitsInv
  <2>11. Fields(cfg)' /\ Validate(cfg)'
    BY <1>2, <2>6, <2>8
  <2>12. cfg'.remote = Before("remote")'
    BY <1>2, <2>1, <2>5, SameSources
  <2>13. Complete(cfg.env)'
    BY <1>2, <2>3, <2>4, SameSources DEF Complete
  <2> QED
    BY <1>2, <2>1, <2>9, <2>10, <2>11, <2>12, <2>13 DEF ConfigInv
<1> QED
  BY <1>1, <1>2 DEF SnapshotEnvironment, Snapshot

\* The root is resolved; the sizes are not refused.
LEMMA ResolveStep ==
  ASSUME ConfigInv, Resolve
  PROVE  ConfigInv'
<1> DEFINE D == DOMAIN DefaultConfig
           c == [cfg EXCEPT !.rootfs = "absolute", !.remote = NoRemote]
<1>1. CASE Refuse
  BY <1>1, RefuseStep
<1> SUFFICES ASSUME stage = "resolve", ~Refuse PROVE ConfigInv'
  BY <1>1 DEF Resolve
<1>2. /\ Sources /\ Fields(cfg) /\ ~ParseError(argv) /\ DOMAIN message = D
      /\ cfg.remote = Before("remote") /\ Validate(cfg) /\ Complete(cfg.env)
  BY DEF ConfigInv
<1>3. cfg.remote \in [total : Int, file : Int]
  BY <1>2 DEF Fields
<1>4. ASSUME cfg.remote # NoRemote
      PROVE  /\ ~LimitsRefused(cfg.remote) /\ cfg.remote = file.remote
             /\ LimitsOf(cfg.remote) =
                  [total |-> Total(cfg.remote) * UnitBytes, file |-> File(cfg.remote) * UnitBytes]
             /\ LimitsOf(cfg.remote).file <= LimitsOf(cfg.remote).total
  <2>1. ValidRemoteLimits(cfg.remote)
    BY <1>2, <1>4 DEF Validate
  <2>2. DefaultConfig.remote = NoRemote
    BY DEF DefaultConfig
  <2>3. cfg.remote = file.remote
    BY <1>2, <1>4, <2>2 DEF Before
  <2> QED
    BY <1>3, <2>1, <2>3, SizesFit
<1>5. /\ stage' = "write" /\ cfg' = c
      /\ limits' = IF cfg.remote = NoRemote THEN NoRemote ELSE LimitsOf(cfg.remote)
      /\ UNCHANGED <<inputs, message>>
  BY <1>4 DEF Resolve
<1>6. /\ c = [f \in D |-> c[f]] /\ c.rootfs = "absolute" /\ c.remote = NoRemote
      /\ \A f \in D \ {"rootfs", "remote"} : c[f] = cfg[f]
  <2>1. {"rootfs", "remote"} \subseteq D
    BY VariableFields
  <2>2. cfg = [f \in D |-> cfg[f]]
    BY <1>2 DEF Fields
  <2> HIDE DEF D
  <2> QED
    BY <2>1, <2>2
<1> HIDE DEF c
<1>7. /\ c.mode = cfg.mode /\ c.subnet = cfg.subnet /\ c.gateway = cfg.gateway
      /\ c.container = cfg.container /\ c.fileSize = cfg.fileSize
      /\ c.interactive = cfg.interactive /\ c.command = cfg.command
      /\ c.readOnly = cfg.readOnly /\ c.env = cfg.env /\ c.whitelist = cfg.whitelist
      /\ c.others = cfg.others
  BY <1>6, VariableFields DEF Settable
<1>8. Fields(c)
  <2>1. NoRemote \in [total : Int, file : Int]
    BY DEF NoRemote
  <2> QED
    BY <1>2, <1>6, <1>7, <2>1 DEF Fields
<1>9. Validate(c)
  BY <1>2, <1>6, <1>7 DEF Validate, ValidBridge
<1>10. Sources' /\ ~ParseError(argv)' /\ file' = file
  BY <1>2, <1>5, SameSources DEF inputs
<1>11. LimitsInv'
  BY <1>4, <1>5, <1>10 DEF LimitsInv
<1>12. Fields(cfg)' /\ Validate(cfg)' /\ cfg'.rootfs = "absolute"
  BY <1>5, <1>6, <1>8, <1>9
<1>13. Complete(cfg.env)'
  BY <1>2, <1>5, <1>7, SameSources DEF Complete
<1> QED
  BY <1>2, <1>5, <1>10, <1>11, <1>12, <1>13 DEF ConfigInv

\* The snapshot is written.
LEMMA WriteStep ==
  ASSUME ConfigInv, WriteConfig
  PROVE  ConfigInv'
<1>1. CASE Refuse
  BY <1>1, RefuseStep
<1>2. CASE /\ stage = "write" /\ stage' = "read" /\ message' = Marshal(cfg)
           /\ UNCHANGED <<inputs, cfg, limits>>
  <2>1. /\ Sources /\ Fields(cfg) /\ ~ParseError(argv) /\ Validate(cfg) /\ Complete(cfg.env)
    BY <1>2 DEF ConfigInv
  <2>2. Sources' /\ ~ParseError(argv)' /\ file' = file
    BY <1>2, <2>1, SameSources DEF inputs
  <2>3. LimitsInv'
    BY <1>2, <2>2 DEF ConfigInv, LimitsInv
  <2>4. Fields(cfg)' /\ Validate(cfg)' /\ message' = Marshal(cfg)'
    BY <1>2, <2>1
  <2>5. Complete(cfg.env)'
    BY <1>2, <2>1, SameSources DEF Complete
  <2>6. DOMAIN message' = DOMAIN DefaultConfig
    BY <1>2, <2>1, MarshalFacts
  <2> QED
    BY <1>2, <2>1, <2>2, <2>3, <2>4, <2>5, <2>6 DEF ConfigInv
<1> QED
  BY <1>1, <1>2 DEF WriteConfig

\* The child accepts it.
LEMMA ReadStep ==
  ASSUME ConfigInv, ReadConfig
  PROVE  ConfigInv'
<1>1. /\ stage = "read" /\ Sources /\ Fields(cfg) /\ ~ParseError(argv) /\ Validate(cfg)
      /\ Complete(cfg.env) /\ message = Marshal(cfg) /\ DOMAIN message = DOMAIN DefaultConfig
  BY DEF ConfigInv, ReadConfig
<1>2. Validate(message)
  BY <1>1, MarshalValid
<1>3. stage' = "payload" /\ UNCHANGED <<inputs, cfg, limits, message>>
  BY <1>2 DEF ReadConfig
<1>4. Sources' /\ ~ParseError(argv)' /\ file' = file
  BY <1>1, <1>3, SameSources DEF inputs
<1>5. LimitsInv'
  BY <1>3, <1>4 DEF ConfigInv, LimitsInv
<1>6. Fields(cfg)' /\ Validate(cfg)' /\ message' = Marshal(cfg)'
  BY <1>1, <1>3
<1>7. Complete(cfg.env)'
  BY <1>1, <1>3, SameSources DEF Complete
<1> QED
  BY <1>1, <1>3, <1>4, <1>5, <1>6, <1>7 DEF ConfigInv

\* Nothing happens afterwards.
LEMMA IdleStep ==
  ASSUME ConfigInv, UNCHANGED configVars
  PROVE  ConfigInv'
<1>1. UNCHANGED <<inputs, cfg, limits, message>> /\ stage' = stage
  BY DEF configVars
<1>2. argv' = argv /\ args' = args /\ file' = file /\ hostEnv' = hostEnv
  BY <1>1 DEF inputs
<1>3. (Sources => Sources') /\ (ParseError(argv)' <=> ParseError(argv))
      /\ (\A f : Before(f)' = Before(f)) /\ (\A f : Effective(f)' = Effective(f))
  BY <1>1, SameSources
<1>4. LimitsInv'
  BY <1>1, <1>2 DEF ConfigInv, LimitsInv
<1>5. Complete(cfg.env) => Complete(cfg.env)'
  BY <1>1, SameSources DEF Complete
<1>6. (Fields(cfg) => Fields(cfg)') /\ (Validate(cfg) => Validate(cfg)') /\ Marshal(cfg)' = Marshal(cfg)
  BY <1>1
<1> QED
  BY <1>1, <1>2, <1>3, <1>4, <1>5, <1>6 DEF ConfigInv

\* Every step keeps the invariant.
LEMMA ConfigInvStep == ConfigInv /\ [ConfigNext]_configVars => ConfigInv'
<1> SUFFICES ASSUME ConfigInv, [ConfigNext]_configVars PROVE ConfigInv'
  OBVIOUS
<1>1. CASE UNCHANGED configVars
  BY <1>1, IdleStep
<1>2. CASE Finished
  BY <1>2, IdleStep DEF Finished
<1> QED
  BY <1>1, <1>2, DiscoverStep, LoadStep, ParseStep, SnapshotStep, ResolveStep, WriteStep, ReadStep
     DEF ConfigNext

\* The invariant holds of the specification.
LEMMA ConfigInvHolds == ConfigSpec => []ConfigInv
BY ConfigInvInit, ConfigInvStep, PTL DEF ConfigSpec

\* Every setting comes from the source that goes first, and the payload's environment
\* is exactly the one expected, whatever the flags, the file and the host.
THEOREM SettingsArrive == ConfigSpec => []AsConfigured
<1>1. ConfigInv => Precedence
  BY DEF ConfigInv, Precedence, Settable
<1>2. ConfigInv => PayloadEnvironment
  <2> SUFFICES ASSUME ConfigInv, stage = "payload" PROVE PayloadEnvironment
    BY DEF PayloadEnvironment
  <2>1. Sources /\ Fields(cfg) /\ Complete(cfg.env) /\ message = Marshal(cfg)
    BY DEF ConfigInv
  <2>2. /\ KeysOf(message.env) = KeysOf(cfg.env)
        /\ \A key \in Text : Lookup(message.env, key) = Encoded(Lookup(cfg.env, key))
    BY <2>1, MarshalFacts
  <2>3. \A key \in Text : Lookup(message.env, key) = Encoded(Expected(key))
    BY <2>1, <2>2 DEF Complete
  <2>4. IsInjective(KeysOf(message.env))
    BY <2>1, <2>2 DEF Complete
  <2>5. cfg.env \in Seq(Entries) /\ hostEnv \in Seq(Entries)
    BY <2>1, SourcesTyped DEF Fields
  <2>6. Range(KeysOf(cfg.env)) \subseteq Text /\ Range(KeysOf(hostEnv)) \subseteq Text
    BY <2>5, KeyFacts
  <2>7. "TERM" \in Text
    BY DEF Text
  <2> QED
    BY <2>2, <2>3, <2>4, <2>6, <2>7 DEF PayloadEnvironment
<1>3. ConfigInv => AsConfigured
  BY <1>1, <1>2 DEF AsConfigured
<1> QED
  BY <1>3, ConfigInvHolds, PTL

\* What the parent accepted, completed and sent, the child accepts, and the limits of a
\* remote root are those asked for: no combination of settings makes the copies of the
\* rules disagree, at any width of the word.
THEOREM RulesAgree == ConfigSpec => []ChildAgrees
<1>1. ConfigInv => ConfigTypeOK
  <2> SUFFICES ASSUME ConfigInv PROVE ConfigTypeOK
    OBVIOUS
  <2>1. /\ DOMAIN cfg = DOMAIN DefaultConfig /\ DOMAIN message = DOMAIN DefaultConfig
        /\ cfg.interactive \in BOOLEAN /\ cfg.fileSize \in Int
    BY DEF ConfigInv, Fields
  <2>2. stage \in {"parent", "resolve", "write", "read", "payload"} =>
          cfg.rootfs \in {"", "absolute"} /\ cfg.fileSize >= 0
    BY DEF ConfigInv, Validate
  <2>3. stage \in {"discover", "load", "override", "parent", "resolve", "write", "read",
                   "payload", "refused"}
    BY DEF ConfigInv
  <2> QED
    BY <2>1, <2>2, <2>3 DEF ConfigTypeOK
<1>2. ConfigInv => SnapshotAccepted /\ LimitsAgree
  BY DEF ConfigInv, SnapshotAccepted, LimitsAgree, LimitsInv
<1>3. ConfigInv => ChildAgrees
  BY <1>1, <1>2 DEF ChildAgrees
<1> QED
  BY <1>3, ConfigInvHolds, PTL
=============================================================================
