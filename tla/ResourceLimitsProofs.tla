------------------------ MODULE ResourceLimitsProofs ------------------------
(***************************************************************************)
(* Theorems about ResourceLimits, for any number of runs below one         *)
(* delegated cgroup, any requests, any unit and any width of the word.     *)
(***************************************************************************)
EXTENDS ResourceLimits, TLAPS

-----------------------------------------------------------------------------
(* Numbers.                                                                *)

\* A product that the guard of configure lets through is not reduced: what is
\* written is what was asked for.
LEMMA BytesExact ==
  ASSUME NEW n \in Nat, ~Overflows(n)
  PROVE  Bytes(n) = n * UnitBytes
<1>1. UnitBytes \in Nat /\ UnitBytes > 0 /\ MaxWord \in Nat
  BY LimitsAssumption
<1> DEFINE q == MaxWord \div UnitBytes
<1>2. q \in Nat /\ UnitBytes * q <= MaxWord
  BY <1>1
<1>3. n <= q
  BY <1>2 DEF Overflows
<1> HIDE DEF q
<1>4. n * UnitBytes \in Nat /\ n * UnitBytes <= UnitBytes * q
  BY <1>1, <1>2, <1>3
<1>5. n * UnitBytes < MaxWord + 1
  BY <1>1, <1>2, <1>4
<1> DEFINE b == n * UnitBytes
<1> HIDE DEF b
<1>6. b \in Nat /\ b < MaxWord + 1
  BY <1>4, <1>5 DEF b
<1>7. b % (MaxWord + 1) = b
  BY <1>1, <1>6
<1> QED
  BY <1>7 DEF b, Bytes

\* What is converted to bytes fits into its word.
LEMMA BytesType == \A n \in Nat : Bytes(n) \in 0..MaxWord
<1> SUFFICES ASSUME NEW n \in Nat PROVE Bytes(n) \in 0..MaxWord
  OBVIOUS
<1>1. UnitBytes \in Nat /\ MaxWord \in Nat
  BY LimitsAssumption
<1> DEFINE b == n * UnitBytes
<1>2. b \in Nat
  BY <1>1
<1> HIDE DEF b
<1>3. b % (MaxWord + 1) \in 0..MaxWord
  BY <1>1, <1>2
<1> QED
  BY <1>3 DEF b, Bytes

\* The smallest of three limits.
LEMMA CeilingBound ==
  ASSUME NEW a \in Nat, NEW i \in Inherited
  PROVE  /\ Ceiling(a, i) \in {a, i.cur, i.max}
         /\ Ceiling(a, i) <= a /\ Ceiling(a, i) <= i.cur /\ Ceiling(a, i) <= i.max
<1>1. i.cur \in Nat /\ i.max \in Nat
  BY LimitsAssumption
<1> DEFINE S == {a, i.cur, i.max}
<1>2. \E x \in S : \A y \in S : x <= y
  BY <1>1
<1>3. Min(S) \in S /\ \A y \in S : Min(S) <= y
  BY <1>2 DEF Min
<1> QED
  BY <1>3 DEF Ceiling

-----------------------------------------------------------------------------
(* Files and cgroups.                                                      *)

FileNames == {"cpu.max", "memory.max", "memory.swap.max", "memory.oom.group", "pids.max"}

\* The five control files and their controllers.
LEMMA FilesListed ==
  /\ DOMAIN Files = 1..5 /\ Len(Files) = 5
  /\ ToSet(Files) = FileNames
  /\ \A i \in 1..5 : Files[i] \in FileNames
  /\ \A f \in FileNames : Controller(f) \in Controllers
<1>1. DOMAIN Files = 1..5 /\ Len(Files) = 5
  BY DEF Files
<1>2. /\ Files[1] = "cpu.max" /\ Files[2] = "memory.max" /\ Files[3] = "memory.swap.max"
      /\ Files[4] = "memory.oom.group" /\ Files[5] = "pids.max"
  BY DEF Files
<1>3. \A i \in 1..5 : i = 1 \/ i = 2 \/ i = 3 \/ i = 4 \/ i = 5
  OBVIOUS
<1>4. ToSet(Files) = FileNames
  BY <1>1, <1>2, <1>3 DEF ToSet, FileNames
<1>5. \A i \in 1..5 : Files[i] \in FileNames
  BY <1>2, <1>3 DEF FileNames
<1>6. \A f \in FileNames : Controller(f) \in Controllers
  BY DEF FileNames, Controller, Controllers
<1> QED
  BY <1>1, <1>4, <1>5, <1>6

IsCgroup(g) == \E F \in SUBSET ToSet(Files) : g \in CgroupsWith(F)

\* Writing a limit, moving processes and taking files away make a cgroup of a
\* cgroup, and leave the rest of it alone.
LEMMA LimitSet ==
  ASSUME NEW g, IsCgroup(g), NEW f \in DOMAIN g.limits, NEW v \in 0..MaxWord
  PROVE  LET h == [g EXCEPT !.limits[f] = v]
         IN  /\ IsCgroup(h) /\ h.owner = g.owner /\ h.members = g.members
             /\ DOMAIN h.limits = DOMAIN g.limits
             /\ h.limits[f] = v
             /\ \A e \in DOMAIN g.limits \ {f} : h.limits[e] = g.limits[e]
<1> PICK F \in SUBSET ToSet(Files) : g \in CgroupsWith(F)
  BY DEF IsCgroup
<1> DEFINE h == [g EXCEPT !.limits[f] = v]
<1>1. g \in [owner : Procs, members : SUBSET Procs, limits : [F -> 0..MaxWord]]
  BY DEF CgroupsWith
<1>2. /\ h \in [owner : Procs, members : SUBSET Procs, limits : [F -> 0..MaxWord]]
      /\ h.owner = g.owner /\ h.members = g.members
      /\ h.limits = [g.limits EXCEPT ![f] = v]
  BY <1>1
<1> QED
  BY <1>1, <1>2 DEF IsCgroup, CgroupsWith

\* Another set of members leaves a control group one.
LEMMA MembersSet ==
  ASSUME NEW g, IsCgroup(g), NEW M \in SUBSET Procs
  PROVE  LET h == [g EXCEPT !.members = M]
         IN  IsCgroup(h) /\ h.owner = g.owner /\ h.members = M /\ h.limits = g.limits
BY DEF IsCgroup, CgroupsWith

Without(l, c) == [f \in {f \in DOMAIN l : Controller(f) # c} |-> l[f]]

Stripped(g, c) == [g EXCEPT !.limits = Without(g.limits, c)]

\* So does the loss of the files of a controller.
LEMMA FilesTaken ==
  ASSUME NEW g, IsCgroup(g), NEW c, NEW h, h = Stripped(g, c)
  PROVE  /\ IsCgroup(h) /\ h.owner = g.owner /\ h.members = g.members
         /\ DOMAIN h.limits = {f \in DOMAIN g.limits : Controller(f) # c}
         /\ \A f \in DOMAIN h.limits : h.limits[f] = g.limits[f]
<1> PICK F \in SUBSET ToSet(Files) : g \in CgroupsWith(F)
  BY DEF IsCgroup
<1> DEFINE l == Without(g.limits, c)
<1>1. g \in [owner : Procs, members : SUBSET Procs, limits : [F -> 0..MaxWord]]
  BY DEF CgroupsWith
<1>2. DOMAIN g.limits = F /\ \A f \in F : g.limits[f] \in 0..MaxWord
  BY <1>1
<1> DEFINE G == {f \in F : Controller(f) # c}
<1>3. /\ l \in [G -> 0..MaxWord] /\ G \in SUBSET ToSet(Files)
      /\ DOMAIN l = {f \in DOMAIN g.limits : Controller(f) # c}
      /\ \A f \in DOMAIN l : l[f] = g.limits[f]
  BY <1>2 DEF Without
<1> HIDE DEF l, G
<1>4. h = [g EXCEPT !.limits = l]
  BY DEF l, Stripped
<1>5. /\ h \in [owner : Procs, members : SUBSET Procs, limits : [G -> 0..MaxWord]]
      /\ h.owner = g.owner /\ h.members = g.members /\ h.limits = l
  BY <1>1, <1>3, <1>4
<1>6. IsCgroup(h)
  BY <1>3, <1>5 DEF IsCgroup, CgroupsWith
<1> QED
  BY <1>3, <1>5, <1>6

\* What the kernel makes for mkdir.
LEMMA CgroupMade ==
  ASSUME NEW p \in Procs, NEW D
  PROVE  LET F == {f \in ToSet(Files) : Controller(f) \in D}
             g == [owner |-> p, members |-> {}, limits |-> [f \in F |-> MaxWord]]
         IN  IsCgroup(g) /\ g # Absent
<1> DEFINE F == {f \in ToSet(Files) : Controller(f) \in D}
           g == [owner |-> p, members |-> {}, limits |-> [f \in F |-> MaxWord]]
<1>1. MaxWord \in 0..MaxWord /\ F \in SUBSET ToSet(Files)
  BY LimitsAssumption
<1>2. g \in CgroupsWith(F)
  BY <1>1 DEF CgroupsWith
<1> QED
  BY <1>1, <1>2, AbsentAssumption DEF IsCgroup

\* A control group is never the mark of none.
LEMMA CgroupThere == \A g : IsCgroup(g) => g # Absent
BY AbsentAssumption DEF IsCgroup

-----------------------------------------------------------------------------
(* Types, and who answers for a cgroup.                                    *)

\* What is known of a request, and so of what may be written for it.
LEMMA RequestType ==
  ASSUME TypeOK, NEW p \in Procs
  PROVE  /\ request[p].cpu \in 0..MaxWord /\ request[p].memory \in 0..MaxWord
         /\ request[p].pids \in 0..MaxWord /\ request[p].file \in 0..MaxWord
         /\ \A f \in FileNames : Value(p, f) \in 0..MaxWord
<1>1. /\ request[p].cpu \in 0..MaxWord /\ request[p].memory \in 0..MaxWord
      /\ request[p].pids \in 0..MaxWord /\ request[p].file \in 0..MaxWord
  BY LimitsAssumption DEF TypeOK
<1>2. 0 \in 0..MaxWord /\ 1 \in 0..MaxWord /\ Bytes(request[p].memory) \in 0..MaxWord
  BY <1>1, BytesType, LimitsAssumption
<1> QED
  BY <1>1, <1>2 DEF Value, FileNames

\* The set of the cgroups that are there.
CgroupType(c) == DOMAIN c = Names /\ \A n \in Names : c[n] # Absent => IsCgroup(c[n])

\* A change to one cgroup keeps the type of the hierarchy.
LEMMA CgroupTypeKept ==
  ASSUME CgroupType(cgroup), NEW n, NEW g, IsCgroup(g) \/ g = Absent,
         cgroup' = [cgroup EXCEPT ![n] = g]
  PROVE  CgroupType(cgroup')
BY DEF CgroupType

\* A run and its cgroup know each other, until the run has removed it; a run
\* that is over and has not removed it has reported that.
Accounted ==
  /\ PathIsOwn
  /\ \A n \in Names : cgroup[n] # Absent => path[cgroup[n].owner] = n
  /\ \A p \in Procs :
       /\ pc[p] \in {"check", "mkdir"} => path[p] = Absent
       /\ pc[p] \in {"configure", "undo"} => path[p] # Absent
       /\ pc[p] \notin {"cleanup", "end"} => cleanups[p] = 0
       /\ pc[p] = "end" /\ path[p] # Absent => "cleanup" \in error[p]

PcLabels ==
  {"check", "mkdir", "configure", "undo", "attach", "child", "running", "dying",
   "cleanup", "end"}
Reported == {"prepare", "run", "denied", "cleanup"}

AccountInv == TypeOK /\ Accounted

\* There are no control groups at first.
LEMMA AccountInit == Init => AccountInv
<1> SUFFICES ASSUME Init PROVE AccountInv
  OBVIOUS
<1>1. 0 \in 0..Len(Files) /\ 0 \in 0..MaxCleanups
  BY FilesListed, LimitsAssumption
<1> QED
  BY <1>1 DEF Init, AccountInv, TypeOK, Accounted, PathIsOwn

\* Every step keeps the types.
LEMMA TypeStep == AccountInv /\ [Next]_vars => TypeOK'
<1> SUFFICES ASSUME AccountInv, [Next]_vars PROVE TypeOK'
  OBVIOUS
<1>o. TypeOK /\ Accounted
  BY DEF AccountInv
<1>c. CgroupType(cgroup) /\ (CgroupType(cgroup') <=> CgroupType(cgroup)')
  BY <1>o DEF TypeOK, CgroupType, IsCgroup
<1>t. TypeOK' <=>
        /\ request' \in [Procs -> Requests]
        /\ pc' \in [Procs -> PcLabels] /\ error' \in [Procs -> SUBSET Reported]
        /\ path' \in [Procs -> Names \cup {Absent}]
        /\ written' \in [Procs -> 0..5] /\ cleanups' \in [Procs -> 0..MaxCleanups]
        /\ CgroupType(cgroup')
        /\ delegated' \subseteq Controllers /\ lost' \in [Procs -> SUBSET Controllers]
  BY FilesListed DEF TypeOK, CgroupType, IsCgroup, PcLabels, Reported
<1>u. /\ request \in [Procs -> Requests]
      /\ pc \in [Procs -> PcLabels] /\ error \in [Procs -> SUBSET Reported]
      /\ path \in [Procs -> Names \cup {Absent}]
      /\ written \in [Procs -> 0..5] /\ cleanups \in [Procs -> 0..MaxCleanups]
      /\ CgroupType(cgroup)
      /\ delegated \subseteq Controllers /\ lost \in [Procs -> SUBSET Controllers]
  BY <1>o, <1>c, FilesListed DEF TypeOK, PcLabels, Reported
<1>pc. ASSUME NEW p \in Procs, NEW a, NEW b \in PcLabels, Step(p, a, b)
       PROVE  pc' \in [Procs -> PcLabels]
  BY <1>pc, <1>u DEF Step
<1>er. ASSUME NEW p \in Procs, NEW w \in Reported, Reports(p, w)
       PROVE  error' \in [Procs -> SUBSET Reported]
  BY <1>er, <1>u DEF Reports
<1>l. /\ \A a \in {"check", "mkdir", "configure", "undo", "attach", "child", "running",
                   "dying", "cleanup", "end"} : a \in PcLabels
      /\ \A w \in {"prepare", "run", "denied", "cleanup"} : w \in Reported
  BY DEF PcLabels, Reported
<1> USE DEF hostVars
<1>1. ASSUME NEW p \in Procs, Check(p) PROVE TypeOK'
  BY <1>1, <1>u, <1>t, <1>pc, <1>er, <1>l DEF Check
<1>2. ASSUME NEW p \in Procs, Mkdir(p) PROVE TypeOK'
  <2>1. CASE UNCHANGED cgroup
    BY <1>2, <1>u, <1>t, <1>pc, <1>er, <1>l, <2>1 DEF Mkdir
  <2>2. CASE \E n \in {n \in Names : cgroup[n] = Absent} :
               /\ path' = [path EXCEPT ![p] = n]
               /\ cgroup' = [cgroup EXCEPT ![n] =
                    [owner |-> p, members |-> {},
                     limits |-> [f \in {f \in ToSet(Files) : Controller(f) \in delegated} |->
                                   MaxWord]]]
    <3>1. CgroupType(cgroup')
      BY <2>2, <1>c, CgroupMade, CgroupTypeKept
    <3>2. path' \in [Procs -> Names \cup {Absent}]
      BY <1>u, <2>2
    <3> QED
      BY <1>2, <1>u, <1>t, <1>pc, <1>er, <1>l, <3>1, <3>2 DEF Mkdir
  <2> QED
    BY <1>2, <2>1, <2>2 DEF Mkdir
<1>3. ASSUME NEW p \in Procs, Configure(p) PROVE TypeOK'
  <2> DEFINE f == Files[written[p] + 1]
             h == [cgroup[path[p]] EXCEPT !.limits[f] = Value(p, f)]
  <2>1. written[p] \in 0..5 /\ written[p] < 5
    BY <1>u, <1>3, FilesListed DEF Configure
  <2>2. f \in FileNames
    BY <2>1, FilesListed
  <2>3. written' \in [Procs -> 0..5]
    <3>1. written' = [written EXCEPT ![p] = @ + 1] \/ UNCHANGED written
      BY <1>3 DEF Configure
    <3> QED
      BY <1>u, <2>1, <3>1
  <2>4. CASE UNCHANGED cgroup
    BY <1>3, <1>u, <1>t, <1>pc, <1>er, <1>l, <2>3, <2>4 DEF Configure
  <2>5. CASE f \in DOMAIN Own(p).limits /\ cgroup' = [cgroup EXCEPT ![path[p]] = h]
    <3>1. path[p] \in Names /\ cgroup[path[p]] # Absent
      BY <1>o, <1>3 DEF Accounted, PathIsOwn, Configure, TypeOK
    <3>2. CgroupType(cgroup')
      BY <1>o, <2>2, <2>5, <3>1, <1>c, RequestType, LimitSet, CgroupTypeKept DEF CgroupType, Own
    <3> QED
      BY <1>3, <1>u, <1>t, <1>pc, <1>er, <1>l, <2>3, <3>2 DEF Configure
  <2> QED
    BY <1>3, <2>4, <2>5 DEF Configure
<1>4. ASSUME NEW p \in Procs, Configured(p) PROVE TypeOK'
  BY <1>4, <1>u, <1>t, <1>pc, <1>er, <1>l DEF Configured
<1>5. ASSUME NEW p \in Procs, Attach(p) PROVE TypeOK'
  <2>1. CgroupType(cgroup')
    <3>1. CASE UNCHANGED cgroup
      BY <3>1, <1>c
    <3>2. CASE path[p] # Absent /\ cgroup' = [cgroup EXCEPT ![path[p]].members = {p}]
      <4>1. path[p] \in Names /\ IsCgroup(cgroup[path[p]])
        BY <1>o, <1>c, <3>2 DEF Accounted, PathIsOwn, TypeOK, CgroupType
      <4>2. {p} \in SUBSET Procs
        OBVIOUS
      <4> QED
        BY <1>c, <3>2, <4>1, <4>2, MembersSet, CgroupTypeKept
    <3> QED
      BY <1>5, <3>1, <3>2 DEF Attach
  <2> QED
    BY <1>5, <1>u, <1>t, <1>pc, <1>er, <1>l, <2>1 DEF Attach
<1>6. ASSUME NEW p \in Procs, ApplyFileSizeLimit(p) PROVE TypeOK'
  BY <1>6, <1>u, <1>t, <1>pc, <1>er, <1>l DEF ApplyFileSizeLimit
<1>7. ASSUME NEW p \in Procs, ChildGone(p) PROVE TypeOK'
  <2>1. CgroupType(cgroup')
    <3>1. CASE UNCHANGED cgroup
      BY <3>1, <1>c
    <3>2. CASE path[p] # Absent /\ cgroup' = [cgroup EXCEPT ![path[p]].members = {}]
      <4>1. path[p] \in Names /\ IsCgroup(cgroup[path[p]])
        BY <1>o, <1>c, <3>2 DEF Accounted, PathIsOwn, TypeOK, CgroupType
      <4> QED
        BY <1>c, <3>2, <4>1, MembersSet, CgroupTypeKept
    <3> QED
      BY <1>7, <3>1, <3>2 DEF ChildGone
  <2> QED
    BY <1>7, <1>u, <1>t, <1>pc, <1>er, <1>l, <2>1 DEF ChildGone
<1>8. ASSUME NEW n \in Names, LastProcessGone(n) PROVE TypeOK'
  <2>1. CgroupType(cgroup')
    BY <1>8, <1>c, MembersSet, CgroupTypeKept DEF LastProcessGone, CgroupType
  <2> QED
    BY <1>8, <1>u, <1>t, <1>pc, <1>er, <1>l, <2>1 DEF LastProcessGone
<1>cleanup. ASSUME NEW p \in Procs, Cleanup(p)
            PROVE  /\ CgroupType(cgroup')
                   /\ path' \in [Procs -> Names \cup {Absent}]
                   /\ error' \in [Procs -> SUBSET Reported]
  <2>1. UNCHANGED cgroup \/ cgroup' = [cgroup EXCEPT ![path[p]] = Absent]
    BY <1>cleanup DEF Cleanup
  <2>2. CgroupType(cgroup')
    BY <2>1, <1>c, CgroupTypeKept
  <2> QED
    BY <1>cleanup, <1>u, <1>er, <1>l, <2>2 DEF Cleanup
<1>9. ASSUME NEW p \in Procs, Undo(p) PROVE TypeOK'
  <2>1. Cleanup(p) /\ cleanups' = [cleanups EXCEPT ![p] = @ + 1]
    BY <1>9 DEF Undo, Cleanup
  <2>2. cleanups' \in [Procs -> 0..MaxCleanups]
    BY <1>9, <1>o, <1>u, <2>1, LimitsAssumption DEF Undo, Step, Accounted
  <2> QED
    BY <2>2, <1>9, <1>u, <1>t, <1>pc, <1>er, <1>l, <2>1, <1>cleanup DEF Undo
<1>10. ASSUME NEW p \in Procs, CleanupCall(p) PROVE TypeOK'
  <2>1. Cleanup(p) /\ cleanups' = [cleanups EXCEPT ![p] = @ + 1]
    BY <1>10 DEF CleanupCall, Cleanup
  <2>2. cleanups' \in [Procs -> 0..MaxCleanups]
    BY <1>10, <1>u, <2>1, LimitsAssumption DEF CleanupCall
  <2> QED
    BY <1>10, <1>u, <1>t, <1>pc, <1>er, <1>l, <2>1, <2>2, <1>cleanup DEF CleanupCall
<1>11. ASSUME NEW c \in Controllers, Revoke(c) PROVE TypeOK'
  <2>1. CgroupType(cgroup')
    <3>1. cgroup' = [n \in Names |->
            IF cgroup[n] = Absent THEN Absent
            ELSE [cgroup[n] EXCEPT !.limits =
                    [f \in {f \in DOMAIN @ : Controller(f) # c} |-> @[f]]]]
      BY <1>11 DEF Revoke
    <3>2. ASSUME NEW n \in Names, cgroup[n] # Absent PROVE IsCgroup(cgroup'[n])
      <4>1. cgroup'[n] = Stripped(cgroup[n], c)
        BY <3>1, <3>2 DEF Without, Stripped
      <4>2. IsCgroup(cgroup[n])
        BY <1>c, <3>2 DEF CgroupType
      <4> QED
        BY <4>1, <4>2, FilesTaken
    <3>3. \A n \in Names : cgroup[n] = Absent => cgroup'[n] = Absent
      BY <3>1
    <3> QED
      BY <3>1, <3>2, <3>3 DEF CgroupType
  <2> QED
    BY <1>11, <1>u, <1>t, <1>pc, <1>er, <1>l, <2>1 DEF Revoke
<1>12. CASE UNCHANGED vars
  BY <1>12, <1>u, <1>t, <1>pc, <1>er, <1>l DEF vars
<1> QED
  BY <1>1, <1>2, <1>3, <1>4, <1>5, <1>6, <1>7, <1>8, <1>9, <1>10, <1>11, <1>12
     DEF Next, Finished

\* An action that takes no cgroup away, makes none and leaves the paths alone
\* keeps runs and cgroups together.
SameOwners ==
  \A n \in Names :
    /\ cgroup'[n] # Absent <=> cgroup[n] # Absent
    /\ cgroup[n] # Absent => cgroup'[n].owner = cgroup[n].owner

\* What an action does to the members or the limits of one cgroup.
LEMMA OwnersKept ==
  ASSUME AccountInv, NEW n \in Names, cgroup[n] # Absent, NEW h, IsCgroup(h),
         h.owner = cgroup[n].owner, cgroup' = [cgroup EXCEPT ![n] = h]
  PROVE  SameOwners
<1>1. DOMAIN cgroup = Names /\ h # Absent
  BY CgroupThere DEF AccountInv, TypeOK
<1> QED
  BY <1>1 DEF SameOwners

\* The actions on the cgroup of a run, as one change.
LEMMA MembersChange ==
  ASSUME AccountInv, NEW n \in Names, cgroup[n] # Absent, NEW M \in SUBSET Procs,
         cgroup' = [cgroup EXCEPT ![n].members = M]
  PROVE  /\ SameOwners
         /\ cgroup'[n].members = M /\ cgroup'[n].limits = cgroup[n].limits
         /\ \A m \in Names \ {n} : cgroup'[m] = cgroup[m]
<1> DEFINE h == [cgroup[n] EXCEPT !.members = M]
<1>1. IsCgroup(cgroup[n]) /\ DOMAIN cgroup = Names
  BY DEF AccountInv, TypeOK, IsCgroup
<1>2. IsCgroup(h) /\ h.owner = cgroup[n].owner /\ h.members = M /\ h.limits = cgroup[n].limits
  BY <1>1, MembersSet
<1> HIDE DEF h
<1>3. cgroup' = [cgroup EXCEPT ![n] = h]
  BY DEF h
<1> QED
  BY <1>1, <1>2, <1>3, OwnersKept

\* One limit written changes no other, and no owner.
LEMMA LimitChange ==
  ASSUME AccountInv, NEW n \in Names, cgroup[n] # Absent,
         NEW f \in DOMAIN cgroup[n].limits, NEW v \in 0..MaxWord,
         cgroup' = [cgroup EXCEPT ![n].limits[f] = v]
  PROVE  /\ SameOwners
         /\ cgroup'[n].members = cgroup[n].members
         /\ DOMAIN cgroup'[n].limits = DOMAIN cgroup[n].limits
         /\ cgroup'[n].limits[f] = v
         /\ \A e \in DOMAIN cgroup[n].limits \ {f} : cgroup'[n].limits[e] = cgroup[n].limits[e]
         /\ \A m \in Names \ {n} : cgroup'[m] = cgroup[m]
<1> DEFINE h == [cgroup[n] EXCEPT !.limits[f] = v]
<1>1. IsCgroup(cgroup[n]) /\ DOMAIN cgroup = Names
  BY DEF AccountInv, TypeOK, IsCgroup
<1>2. /\ IsCgroup(h) /\ h.owner = cgroup[n].owner /\ h.members = cgroup[n].members
      /\ DOMAIN h.limits = DOMAIN cgroup[n].limits
      /\ h.limits[f] = v
      /\ \A e \in DOMAIN cgroup[n].limits \ {f} : h.limits[e] = cgroup[n].limits[e]
  BY <1>1, LimitSet
<1>3. cgroup' = [cgroup EXCEPT ![n] = h]
  OBVIOUS
<1> HIDE DEF h
<1> QED
  BY <1>1, <1>2, <1>3, OwnersKept

\* A controller taken away takes its files, and nothing else.
LEMMA RevokeChange ==
  ASSUME AccountInv, NEW c \in Controllers, Revoke(c)
  PROVE  /\ SameOwners
         /\ \A n \in Names : cgroup[n] # Absent =>
              /\ cgroup'[n].members = cgroup[n].members
              /\ DOMAIN cgroup'[n].limits = {f \in DOMAIN cgroup[n].limits : Controller(f) # c}
              /\ \A f \in DOMAIN cgroup'[n].limits :
                   cgroup'[n].limits[f] = cgroup[n].limits[f]
<1>1. \A n \in Names :
        IF cgroup[n] = Absent THEN cgroup'[n] = Absent
        ELSE cgroup'[n] = Stripped(cgroup[n], c)
  BY DEF Revoke, Without, Stripped
<1>2. \A n \in Names : cgroup[n] # Absent => IsCgroup(cgroup[n])
  BY DEF AccountInv, TypeOK, IsCgroup
<1>3. ASSUME NEW n \in Names, cgroup[n] # Absent
      PROVE  /\ IsCgroup(cgroup'[n]) /\ cgroup'[n].owner = cgroup[n].owner
             /\ cgroup'[n].members = cgroup[n].members
             /\ DOMAIN cgroup'[n].limits = {f \in DOMAIN cgroup[n].limits : Controller(f) # c}
             /\ \A f \in DOMAIN cgroup'[n].limits : cgroup'[n].limits[f] = cgroup[n].limits[f]
  <2>1. IsCgroup(cgroup[n])
    BY <1>2, <1>3
  <2>2. cgroup'[n] = Stripped(cgroup[n], c)
    BY <1>1, <1>3
  <2> QED
    BY <2>1, <2>2, FilesTaken
<1> QED
  BY <1>1, <1>3, CgroupThere DEF SameOwners

\* Attach and the end of the child write the members of the run's cgroup.
MovedIn(p, M) == path[p] # Absent /\ cgroup' = [cgroup EXCEPT ![path[p]].members = M]

\* Members come and go one process at a time.
LEMMA MembersWritten ==
  \A p \in Procs :
    /\ Attach(p) => UNCHANGED cgroup \/ MovedIn(p, {p})
    /\ ChildGone(p) => UNCHANGED cgroup \/ MovedIn(p, {})
BY DEF Attach, ChildGone, MovedIn

\* A clean-up removes the process's own control group, or nothing.
LEMMA CleanupChange ==
  \A p \in Procs : Cleanup(p) =>
    UNCHANGED cgroup \/ (path[p] # Absent /\ cgroup' = [cgroup EXCEPT ![path[p]] = Absent])
BY DEF Cleanup

\* Every step keeps every control group that of its owner.
LEMMA AccountStep == AccountInv /\ [Next]_vars => AccountInv'
<1> SUFFICES ASSUME AccountInv, [Next]_vars PROVE Accounted'
  BY TypeStep DEF AccountInv
<1>o. TypeOK /\ Accounted /\ TypeOK'
  BY TypeStep DEF AccountInv
<1>u. /\ DOMAIN pc = Procs /\ DOMAIN error = Procs /\ DOMAIN path = Procs
      /\ DOMAIN cleanups = Procs /\ DOMAIN cgroup = Names
      /\ \A p \in Procs : path[p] \in Names \cup {Absent}
      /\ \A n \in Names : cgroup[n] # Absent => cgroup[n].owner \in Procs
  BY <1>o DEF TypeOK, CgroupsWith
<1>own. \A p \in Procs : path[p] # Absent => path[p] \in Names /\ cgroup[path[p]] # Absent
  BY <1>o, <1>u DEF Accounted, PathIsOwn
<1>same. ASSUME SameOwners, UNCHANGED path,
                \A p \in Procs :
                  /\ pc'[p] \in {"check", "mkdir"} => path[p] = Absent
                  /\ pc'[p] \in {"configure", "undo"} => path[p] # Absent
                  /\ pc'[p] \notin {"cleanup", "end"} => cleanups'[p] = 0
                  /\ pc'[p] = "end" /\ path[p] # Absent => "cleanup" \in error'[p]
         PROVE  Accounted'
  BY <1>same, <1>o, <1>u DEF SameOwners, Accounted, PathIsOwn, Own
<1>still. UNCHANGED cgroup => SameOwners
  BY DEF SameOwners
<1> USE DEF Step, Reports
<1>1. ASSUME NEW p \in Procs, Check(p) PROVE Accounted'
  BY <1>1, <1>o, <1>u, <1>same, <1>still DEF Check, Accounted
<1>2. ASSUME NEW p \in Procs, Mkdir(p) PROVE Accounted'
  <2>1. CASE pc'[p] = "end"
    BY <1>2, <2>1, <1>o, <1>u, <1>same, <1>still DEF Mkdir, Accounted
  <2>2. CASE pc'[p] # "end"
    <3>1. PICK n \in Names :
            /\ cgroup[n] = Absent
            /\ path' = [path EXCEPT ![p] = n]
            /\ cgroup' = [cgroup EXCEPT ![n] =
                 [owner |-> p, members |-> {},
                  limits |-> [f \in {f \in ToSet(Files) : Controller(f) \in delegated} |->
                                MaxWord]]]
      BY <1>2, <2>2, <1>u DEF Mkdir
    <3>2. /\ cgroup'[n] # Absent /\ cgroup'[n].owner = p
          /\ \A m \in Names \ {n} : cgroup'[m] = cgroup[m]
      BY <3>1, <1>u, CgroupMade
    <3>3. path[p] = Absent /\ \A q \in Procs \ {p} : path'[q] = path[q] /\ path[q] # n
      <4>1. path[p] = Absent
        BY <1>2, <1>o DEF Mkdir, Accounted
      <4>2. \A q \in Procs \ {p} : path'[q] = path[q]
        BY <3>1
      <4>3. n # Absent /\ \A q \in Procs : path[q] # n
        BY <3>1, <1>own, AbsentAssumption
      <4> QED
        BY <4>1, <4>2, <4>3
    <3>4. PathIsOwn'
      BY <3>1, <3>2, <3>3, <1>o, <1>u, <1>own DEF Accounted, PathIsOwn, Own
    <3>5. \A m \in Names : cgroup'[m] # Absent => path'[cgroup'[m].owner] = m
      BY <3>1, <3>2, <3>3, <1>o, <1>u, AbsentAssumption DEF Accounted
    <3>6. \A q \in Procs :
            /\ pc'[q] \in {"check", "mkdir"} => path'[q] = Absent
            /\ pc'[q] \in {"configure", "undo"} => path'[q] # Absent
            /\ pc'[q] \notin {"cleanup", "end"} => cleanups'[q] = 0
            /\ pc'[q] = "end" /\ path'[q] # Absent => "cleanup" \in error'[q]
      BY <1>2, <2>2, <3>1, <3>3, <1>o, <1>u, AbsentAssumption DEF Mkdir, Accounted
    <3> QED
      BY <3>4, <3>5, <3>6 DEF Accounted
  <2> QED
    BY <2>1, <2>2
<1>3. ASSUME NEW p \in Procs, Configure(p) PROVE Accounted'
  <2> DEFINE f == Files[written[p] + 1]
  <2>1. f \in FileNames
    BY <1>3, <1>o, FilesListed DEF Configure, TypeOK
  <2>2. path[p] \in Names /\ cgroup[path[p]] # Absent
    BY <1>3, <1>o, <1>own DEF Configure, Accounted
  <2>3. \/ UNCHANGED cgroup
        \/ f \in DOMAIN Own(p).limits /\ cgroup' = [cgroup EXCEPT ![path[p]].limits[f] = Value(p, f)]
    BY <1>3 DEF Configure
  <2>4. SameOwners
    BY <1>o, <1>still, <2>1, <2>2, <2>3, RequestType, LimitChange DEF Own
  <2>5. pc'[p] \in {"configure", "undo"} /\ \A q \in Procs \ {p} : pc'[q] = pc[q]
    BY <1>3, <1>u DEF Configure
  <2>6. UNCHANGED <<path, cleanups>> /\ \A q \in Procs : error[q] \subseteq error'[q]
    BY <1>3, <1>u DEF Configure
  <2>7. pc[p] = "configure"
    BY <1>3 DEF Configure
  <2> QED
    BY <2>4, <2>5, <2>6, <2>7, <1>o, <1>same DEF Accounted
<1>4. ASSUME NEW p \in Procs, Configured(p) PROVE Accounted'
  BY <1>4, <1>o, <1>u, <1>same, <1>still DEF Configured, Accounted
<1>5. ASSUME NEW p \in Procs, Attach(p) PROVE Accounted'
  <2>1. UNCHANGED cgroup \/ MovedIn(p, {p})
    BY <1>5, MembersWritten
  <2>2. {p} \in SUBSET Procs
    OBVIOUS
  <2>3. SameOwners
    BY <2>1, <2>2, <1>own, <1>still, MembersChange DEF MovedIn
  <2> QED
    BY <1>5, <2>3, <1>o, <1>u, <1>same DEF Attach, Accounted
<1>6. ASSUME NEW p \in Procs, ApplyFileSizeLimit(p) PROVE Accounted'
  <2>1. /\ UNCHANGED <<path, cgroup, cleanups>>
        /\ pc[p] = "child" /\ pc'[p] \in {"running", "dying"}
        /\ \A q \in Procs \ {p} : pc'[q] = pc[q]
        /\ \A q \in Procs : error[q] \subseteq error'[q]
    BY <1>6, <1>u DEF ApplyFileSizeLimit
  <2> QED
    BY <2>1, <1>o, <1>same, <1>still DEF Accounted
<1>7. ASSUME NEW p \in Procs, ChildGone(p) PROVE Accounted'
  <2>1. UNCHANGED cgroup \/ MovedIn(p, {})
    BY <1>7, MembersWritten
  <2>2. SameOwners
    BY <2>1, <1>own, <1>still, MembersChange DEF MovedIn
  <2> QED
    BY <1>7, <2>2, <1>o, <1>u, <1>same DEF ChildGone, Accounted
<1>8. ASSUME NEW n \in Names, LastProcessGone(n) PROVE Accounted'
  <2>1. cgroup[n] # Absent /\ cgroup' = [cgroup EXCEPT ![n].members = {}]
    BY <1>8 DEF LastProcessGone
  <2>2. {} \in SUBSET Procs
    OBVIOUS
  <2>3. SameOwners
    BY <2>1, <2>2, MembersChange
  <2> QED
    BY <1>8, <2>3, <1>o, <1>same DEF LastProcessGone, Accounted
<1>cleanup. ASSUME NEW p \in Procs, Cleanup(p), pc' = [pc EXCEPT ![p] = "end"]
            PROVE  Accounted'
  <2>1. CASE /\ path[p] # Absent
             /\ cgroup' = [cgroup EXCEPT ![path[p]] = Absent]
             /\ path' = [path EXCEPT ![p] = Absent] /\ UNCHANGED error
    <3>1. /\ cgroup'[path[p]] = Absent
          /\ \A m \in Names \ {path[p]} : cgroup'[m] = cgroup[m]
          /\ path'[p] = Absent
          /\ \A q \in Procs \ {p} : path'[q] = path[q]
      BY <2>1, <1>u, <1>own
    <3>2. \A q \in Procs \ {p} : path[q] # path[p]
      BY <2>1, <1>o DEF Accounted, PathIsOwn, Own
    <3>3. \A m \in Names \ {path[p]} : cgroup[m] # Absent => cgroup[m].owner # p
      BY <1>o DEF Accounted
    <3>4. PathIsOwn'
      BY <3>1, <3>2, <1>o, <1>own DEF Accounted, PathIsOwn, Own
    <3>5. \A m \in Names : cgroup'[m] # Absent => path'[cgroup'[m].owner] = m
      BY <3>1, <3>3, <1>o, <1>u DEF Accounted
    <3>6. \A q \in Procs :
            /\ pc'[q] \in {"check", "mkdir"} => path'[q] = Absent
            /\ pc'[q] \in {"configure", "undo"} => path'[q] # Absent
            /\ pc'[q] \notin {"cleanup", "end"} => cleanups'[q] = 0
            /\ pc'[q] = "end" /\ path'[q] # Absent => "cleanup" \in error'[q]
      BY <1>cleanup, <2>1, <3>1, <1>o, <1>u DEF Cleanup, Accounted
    <3> QED
      BY <3>4, <3>5, <3>6 DEF Accounted
  <2>2. CASE UNCHANGED <<path, cgroup>>
    <3>1. path[p] # Absent => "cleanup" \in error'[p]
      BY <1>cleanup, <2>2, <1>u, <1>own DEF Cleanup
    <3>2. /\ \A q \in Procs : error[q] \subseteq error'[q]
          /\ \A q \in Procs \ {p} : cleanups'[q] = cleanups[q]
      BY <1>cleanup, <1>u DEF Cleanup
    <3> QED
      BY <1>cleanup, <2>2, <3>1, <3>2, <1>o, <1>u, <1>same, <1>still DEF Accounted
  <2> QED
    BY <1>cleanup, <2>1, <2>2 DEF Cleanup
<1>9. ASSUME NEW p \in Procs, Undo(p) PROVE Accounted'
  BY <1>9, <1>cleanup DEF Undo
<1>10. ASSUME NEW p \in Procs, CleanupCall(p) PROVE Accounted'
  BY <1>10, <1>cleanup DEF CleanupCall
<1>11. ASSUME NEW c \in Controllers, Revoke(c) PROVE Accounted'
  BY <1>11, <1>o, <1>same, RevokeChange DEF Revoke, Accounted
<1>12. CASE UNCHANGED vars
  BY <1>12, <1>o, <1>same, <1>still DEF vars, Accounted
<1> QED
  BY <1>1, <1>2, <1>3, <1>4, <1>5, <1>6, <1>7, <1>8, <1>9, <1>10, <1>11, <1>12
     DEF Next, Finished

\* A cgroup of the delegated one has a run that answers for it and knows it, or
\* that has reported it as left behind; no run answers for another one's.
THEOREM CgroupsHaveOwners == Spec => []CgroupsAccounted
<1>1. AccountInv => CgroupsAccounted
  <2> SUFFICES ASSUME AccountInv PROVE PathIsOwn /\ LeftCgroupReported
    BY DEF CgroupsAccounted
  <2>1. \A n \in Names : cgroup[n] # Absent => cgroup[n].owner \in Procs
    BY DEF AccountInv, TypeOK, CgroupsWith
  <2>2. \A n \in Names : n # Absent
    BY AbsentAssumption
  <2> QED
    BY <2>1, <2>2 DEF AccountInv, Accounted, LeftCgroupReported
<1> QED
  BY <1>1, AccountInit, AccountStep, PTL DEF Spec

-----------------------------------------------------------------------------
(* The limits a payload runs under.                                        *)

\* Each file is one of the list, and each controller has one.
LEMMA FilesIndexed ==
  /\ \A f \in FileNames : \E i \in 1..5 : Files[i] = f
  /\ \A i, j \in 1..5 : Files[i] = Files[j] => i = j
  /\ \A c \in Controllers : \E i \in 1..5 : Controller(Files[i]) = c
<1>1. /\ Files[1] = "cpu.max" /\ Files[2] = "memory.max" /\ Files[3] = "memory.swap.max"
      /\ Files[4] = "memory.oom.group" /\ Files[5] = "pids.max"
  BY DEF Files
<1>2. \A i \in 1..5 : i = 1 \/ i = 2 \/ i = 3 \/ i = 4 \/ i = 5
  OBVIOUS
<1>3. 1 \in 1..5 /\ 2 \in 1..5 /\ 3 \in 1..5 /\ 4 \in 1..5 /\ 5 \in 1..5
  OBVIOUS
<1>4. \A f \in FileNames : \E i \in 1..5 : Files[i] = f
  BY <1>1, <1>3 DEF FileNames
<1>5. \A i, j \in 1..5 : Files[i] = Files[j] => i = j
  BY <1>1, <1>2
<1>6. \A c \in Controllers : \E i \in 1..5 : Controller(Files[i]) = c
  BY <1>1, <1>3 DEF Controllers, Controller
<1> QED
  BY <1>4, <1>5, <1>6

Asked(p, f) == IF f = "memory.max" THEN request[p].memory * UnitBytes ELSE Value(p, f)

\* The files of a controller come and go together.
Whole(g) ==
  \A e, f \in FileNames :
    Controller(e) = Controller(f) /\ e \in DOMAIN g.limits => f \in DOMAIN g.limits

WholeCgroups == \A n \in Names : cgroup[n] # Absent => Whole(cgroup[n])

\* configure has dealt with all files of the controller c.
Done(c, p) == \A i \in DOMAIN Files : Controller(Files[i]) = c => i <= written[p]

Working == {"attach", "child", "running"}

\* What configure has written is there with its value; what is not there was
\* taken away, and then the run knows it or configure will fail on the next file
\* of the same controller.
WrittenSoFar(p) ==
  /\ \A i \in 1..written[p] :
       Files[i] \in DOMAIN Own(p).limits /\ Controller(Files[i]) \in Requested(p)
         => Own(p).limits[Files[i]] = Asked(p, Files[i])
  /\ \A c \in Requested(p) \ lost[p] :
       Done(c, p) => \A f \in FileNames : Controller(f) = c => f \in DOMAIN Own(p).limits

Confined(p) ==
  /\ pc[p] \in {"check", "mkdir"} => written[p] = 0
  /\ pc[p] \in Working /\ Requested(p) # {} => path[p] # Absent /\ written[p] = 5
  /\ pc[p] \in {"child", "running"} /\ path[p] # Absent => p \in Own(p).members
  /\ pc[p] \in Working \cup {"configure"} /\ path[p] # Absent => WrittenSoFar(p)

LimitsInv ==
  /\ AccountInv /\ WholeCgroups
  /\ \A p \in Procs : Confined(p)
  /\ DOMAIN fsize = Procs /\ FileSizeNeverWeaker

\* No limit is to be held at first.
LEMMA LimitsInit == Init => LimitsInv
<1> SUFFICES ASSUME Init PROVE LimitsInv
  OBVIOUS
<1>1. AccountInv
  BY AccountInit
<1>2. WholeCgroups /\ DOMAIN fsize = Procs /\ FileSizeNeverWeaker
  BY DEF Init, WholeCgroups, FileSizeNeverWeaker
<1>3. \A p \in Procs : Confined(p)
  BY DEF Init, Confined, Working
<1> QED
  BY <1>1, <1>2, <1>3 DEF LimitsInv

\* The rest of the runs, while one of them takes a step of its own.
LEMMA OthersConfined ==
  ASSUME NEW q \in Procs, Confined(q), request' = request,
         pc'[q] = pc[q], path'[q] = path[q], written'[q] = written[q], lost'[q] = lost[q],
         path[q] # Absent => cgroup'[path[q]] = cgroup[path[q]]
  PROVE  Confined(q)'
BY DEF Confined, WrittenSoFar, Own, Requested, Asked, Value, Done

\* The files of every cgroup stay whole: a new one has the files of the
\* delegated controllers, and a controller is taken back with all its files.
LEMMA WholeStep == LimitsInv /\ [Next]_vars => WholeCgroups'
<1> SUFFICES ASSUME LimitsInv, [Next]_vars PROVE WholeCgroups'
  OBVIOUS
<1>i. AccountInv /\ TypeOK /\ Accounted /\ WholeCgroups
  BY DEF LimitsInv, AccountInv
<1>u. DOMAIN cgroup = Names
  BY <1>i DEF TypeOK
<1>own. \A p \in Procs : path[p] # Absent => path[p] \in Names /\ cgroup[path[p]] # Absent
  BY <1>i DEF Accounted, PathIsOwn, TypeOK
<1>same. ASSUME \A n \in Names : cgroup'[n] # Absent =>
                   cgroup[n] # Absent /\ DOMAIN cgroup'[n].limits = DOMAIN cgroup[n].limits
         PROVE  WholeCgroups'
  BY <1>same, <1>i DEF WholeCgroups, Whole
<1>still. UNCHANGED cgroup => WholeCgroups'
  BY <1>i DEF WholeCgroups
<1>m. ASSUME NEW p \in Procs, Attach(p) \/ ChildGone(p) PROVE WholeCgroups'
  <2>1. UNCHANGED cgroup \/ MovedIn(p, {p}) \/ MovedIn(p, {})
    BY <1>m, MembersWritten
  <2>2. {p} \in SUBSET Procs /\ {} \in SUBSET Procs
    OBVIOUS
  <2>3. ASSUME NEW M \in SUBSET Procs, MovedIn(p, M) PROVE WholeCgroups'
    <3>1. path[p] \in Names /\ cgroup[path[p]] # Absent
      BY <2>3, <1>own DEF MovedIn
    <3>2. /\ SameOwners /\ cgroup'[path[p]].limits = cgroup[path[p]].limits
          /\ \A m \in Names \ {path[p]} : cgroup'[m] = cgroup[m]
      BY <2>3, <3>1, <1>i, MembersChange DEF MovedIn
    <3> QED
      BY <3>1, <3>2, <1>same DEF SameOwners
  <2> QED
    BY <2>1, <2>2, <2>3, <1>still
<1>1. ASSUME NEW p \in Procs, Mkdir(p) PROVE WholeCgroups'
  <2>1. CASE UNCHANGED cgroup
    BY <2>1, <1>still
  <2>2. CASE ~UNCHANGED cgroup
    <3> DEFINE F == {f \in ToSet(Files) : Controller(f) \in delegated}
    <3>1. PICK n \in Names :
            cgroup' = [cgroup EXCEPT ![n] =
              [owner |-> p, members |-> {}, limits |-> [f \in F |-> MaxWord]]]
      BY <1>1, <2>2 DEF Mkdir
    <3>2. DOMAIN cgroup'[n].limits = F /\ \A m \in Names \ {n} : cgroup'[m] = cgroup[m]
      BY <3>1, <1>u
    <3>3. Whole(cgroup'[n])
      BY <3>2, FilesListed DEF Whole
    <3> QED
      BY <3>2, <3>3, <1>i DEF WholeCgroups, Whole
  <2> QED
    BY <2>1, <2>2
<1>2. ASSUME NEW p \in Procs, Configure(p) PROVE WholeCgroups'
  <2> DEFINE f == Files[written[p] + 1]
  <2>1. f \in FileNames
    BY <1>2, <1>i, FilesListed DEF Configure, TypeOK
  <2>2. path[p] \in Names /\ cgroup[path[p]] # Absent
    BY <1>2, <1>i, <1>own DEF Configure, Accounted
  <2>3. \/ UNCHANGED cgroup
        \/ f \in DOMAIN Own(p).limits /\ cgroup' = [cgroup EXCEPT ![path[p]].limits[f] = Value(p, f)]
    BY <1>2 DEF Configure
  <2>4. CASE f \in DOMAIN Own(p).limits /\ cgroup' = [cgroup EXCEPT ![path[p]].limits[f] = Value(p, f)]
    <3>1. /\ SameOwners /\ DOMAIN cgroup'[path[p]].limits = DOMAIN cgroup[path[p]].limits
          /\ \A m \in Names \ {path[p]} : cgroup'[m] = cgroup[m]
      BY <1>i, <2>1, <2>2, <2>4, RequestType, LimitChange DEF Own
    <3> QED
      BY <2>2, <3>1, <1>same DEF SameOwners
  <2> QED
    BY <2>3, <2>4, <1>still
<1>3. ASSUME NEW n \in Names, LastProcessGone(n) PROVE WholeCgroups'
  <2>1. cgroup[n] # Absent /\ cgroup' = [cgroup EXCEPT ![n].members = {}]
    BY <1>3 DEF LastProcessGone
  <2>2. {} \in SUBSET Procs
    OBVIOUS
  <2>3. /\ SameOwners /\ cgroup'[n].limits = cgroup[n].limits
        /\ \A m \in Names \ {n} : cgroup'[m] = cgroup[m]
    BY <2>1, <2>2, <1>i, MembersChange
  <2> QED
    BY <2>3, <1>same DEF SameOwners
<1>4. ASSUME NEW p \in Procs, Undo(p) \/ CleanupCall(p) PROVE WholeCgroups'
  <2>1. UNCHANGED cgroup \/ cgroup' = [cgroup EXCEPT ![path[p]] = Absent]
    BY <1>4 DEF Undo, CleanupCall, Cleanup
  <2>2. \A n \in Names : cgroup'[n] = Absent \/ cgroup'[n] = cgroup[n]
    BY <2>1, <1>u
  <2> QED
    BY <2>2, <1>same
<1>5. ASSUME NEW c \in Controllers, Revoke(c) PROVE WholeCgroups'
  <2>1. SameOwners /\ \A n \in Names : cgroup[n] # Absent =>
          DOMAIN cgroup'[n].limits = {f \in DOMAIN cgroup[n].limits : Controller(f) # c}
    BY <1>5, <1>i, RevokeChange
  <2> QED
    BY <2>1, <1>i DEF SameOwners, WholeCgroups, Whole
<1>6. ASSUME NEW p \in Procs, Check(p) \/ Configured(p) \/ ApplyFileSizeLimit(p)
      PROVE  WholeCgroups'
  BY <1>6, <1>still DEF Check, Configured, ApplyFileSizeLimit
<1>7. CASE UNCHANGED vars
  BY <1>7, <1>still DEF vars
<1> QED
  BY <1>m, <1>1, <1>2, <1>3, <1>4, <1>5, <1>6, <1>7 DEF Next, Finished

\* The same for what a process has written and whether it is a member.
LEMMA ConfinedStep == LimitsInv /\ [Next]_vars => \A p \in Procs : Confined(p)'
<1> SUFFICES ASSUME LimitsInv, [Next]_vars, NEW q \in Procs PROVE Confined(q)'
  OBVIOUS
<1>i. AccountInv /\ TypeOK /\ Accounted /\ WholeCgroups /\ Confined(q)
  BY DEF LimitsInv, AccountInv
<1>u. /\ DOMAIN pc = Procs /\ DOMAIN path = Procs /\ DOMAIN written = Procs
      /\ DOMAIN lost = Procs /\ DOMAIN cgroup = Names
      /\ \A p \in Procs : written[p] \in 0..5
  BY <1>i, FilesListed DEF TypeOK
<1>own. \A p \in Procs : path[p] # Absent => path[p] \in Names /\ cgroup[path[p]] # Absent
  BY <1>i DEF Accounted, PathIsOwn, TypeOK
<1>apart. \A p \in Procs : p # q /\ path[q] # Absent => path[p] # path[q]
  BY <1>i DEF Accounted, PathIsOwn, Own
\* A step that leaves the cgroup, the path and the files of q alone.
<1>pc. ASSUME UNCHANGED <<request, path, cgroup, written, lost>>,
              pc'[q] \in {"check", "mkdir"} => pc[q] \in {"check", "mkdir"},
              pc'[q] \in Working =>
                \/ pc[q] \in Working
                \/ Requested(q) = {} /\ path[q] = Absent
                \/ pc[q] = "configure" /\ written[q] = 5,
              pc'[q] \in {"child", "running"} => pc[q] \in {"child", "running"},
              pc'[q] = "configure" => pc[q] = "configure"
       PROVE  Confined(q)'
  <2>1. path[q] # Absent /\ pc'[q] \in Working \cup {"configure"} => WrittenSoFar(q)
    BY <1>pc, <1>i DEF Confined
  <2>2. pc'[q] \in Working /\ Requested(q) # {} => path[q] # Absent /\ written[q] = 5
    BY <1>pc, <1>i DEF Confined, Accounted
  <2>3. pc'[q] \in {"child", "running"} /\ path[q] # Absent => q \in Own(q).members
    BY <1>pc, <1>i DEF Confined
  <2>4. pc'[q] \in {"check", "mkdir"} => written[q] = 0
    BY <1>pc, <1>i DEF Confined
  <2> QED
    BY <1>pc, <2>1, <2>2, <2>3, <2>4
       DEF Confined, WrittenSoFar, Own, Requested, Asked, Value, Done
<1>done. ASSUME pc'[q] \in {"undo", "dying", "cleanup", "end"} PROVE Confined(q)'
  BY <1>done DEF Confined, Working
<1> USE DEF Step, hostVars
<1>1. ASSUME NEW p \in Procs, Check(p) PROVE Confined(q)'
  <2>1. /\ UNCHANGED <<request, path, cgroup, written, lost>>
        /\ pc[p] = "check" /\ \A r \in Procs \ {p} : pc'[r] = pc[r]
        /\ pc'[p] \in {"mkdir", "end"} \/ (pc'[p] = "attach" /\ Requested(p) = {})
    <3>1. UNCHANGED <<request, path, cgroup, written, lost>>
      BY <1>1 DEF Check
    <3>2. pc[p] = "check" /\ \A r \in Procs \ {p} : pc'[r] = pc[r]
      BY <1>1, <1>u DEF Check
    <3>3. CASE Requested(p) = {}
      <4>1. pc' = [pc EXCEPT ![p] = "attach"]
        BY <1>1, <3>3 DEF Check
      <4> QED
        BY <3>1, <3>2, <3>3, <4>1, <1>u
    <3>4. CASE Requested(p) # {}
      <4>1. pc' = [pc EXCEPT ![p] = "mkdir"] \/ pc' = [pc EXCEPT ![p] = "end"]
        BY <1>1, <3>4 DEF Check
      <4> QED
        <5>1. pc'[p] = "mkdir" \/ pc'[p] = "end"
          BY <4>1, <1>u
        <5> QED
          BY <3>1, <3>2, <5>1
    <3> QED
      BY <3>3, <3>4
  <2>2. path[p] = Absent
    BY <2>1, <1>i DEF Accounted
  <2>3. CASE q = p
    <3>1. pc'[q] \in Working => Requested(q) = {} /\ path[q] = Absent
      BY <2>1, <2>2, <2>3 DEF Working
    <3>2. pc'[q] \notin {"child", "running"} /\ pc'[q] # "configure" /\ pc[q] = "check"
      BY <2>1, <2>3
    <3>3. UNCHANGED <<request, path, cgroup, written, lost>>
      BY <2>1
    <3>4. pc[q] \in {"check", "mkdir"}
      BY <3>2
    <3> QED
      BY <3>1, <3>2, <3>3, <3>4, <1>pc
  <2>4. CASE q # p
    BY <2>1, <2>4, <1>i, OthersConfined
  <2> QED
    BY <2>3, <2>4
<1>2. ASSUME NEW p \in Procs, Mkdir(p) PROVE Confined(q)'
  <2>1. /\ pc[p] = "mkdir" /\ \A r \in Procs \ {p} : pc'[r] = pc[r] /\ path'[r] = path[r]
        /\ pc'[p] \in {"configure", "end"}
        /\ UNCHANGED <<request, written, lost>>
    BY <1>2, <1>u DEF Mkdir
  <2>2. CASE q # p
    <3>1. path[q] # Absent => cgroup'[path[q]] = cgroup[path[q]]
      BY <1>2, <1>own, <1>u DEF Mkdir
    <3> QED
      BY <2>1, <2>2, <3>1, <1>i, OthersConfined
  <2>3. CASE q = p
    <3>1. written'[q] = 0
      BY <2>1, <2>3, <1>i DEF Confined
    <3>2. \A c \in Controllers : ~Done(c, q)'
      BY <3>1, FilesIndexed, FilesListed DEF Done
    <3>3. WrittenSoFar(q)'
      BY <3>1, <3>2 DEF WrittenSoFar, Requested
    <3> QED
      BY <2>1, <2>3, <3>1, <3>3 DEF Confined, Working
  <2> QED
    BY <2>2, <2>3
<1>3. ASSUME NEW p \in Procs, Configure(p) PROVE Confined(q)'
  <2> DEFINE i == written[p] + 1
             f == Files[i]
  <2>1. /\ pc[p] = "configure" /\ written[p] < 5 /\ i \in 1..5 /\ f \in FileNames
        /\ UNCHANGED <<request, path, lost>>
    BY <1>3, <1>u, FilesListed DEF Configure
  <2>2. path[p] \in Names /\ cgroup[path[p]] # Absent
    BY <2>1, <1>i, <1>own DEF Accounted
  <2>3. \/ UNCHANGED cgroup
        \/ f \in DOMAIN Own(p).limits /\ cgroup' = [cgroup EXCEPT ![path[p]].limits[f] = Value(p, f)]
    BY <1>3 DEF Configure
  <2>4. \A m \in Names \ {path[p]} : cgroup'[m] = cgroup[m]
    BY <2>3, <1>u
  <2>5. CASE q # p
    <3>1. pc'[q] = pc[q] /\ written'[q] = written[q]
      BY <1>3, <2>5, <1>u DEF Configure
    <3>2. path[q] # Absent => cgroup'[path[q]] = cgroup[path[q]]
      BY <2>4, <2>5, <1>own, <1>apart
    <3> QED
      BY <2>1, <3>1, <3>2, <1>i, OthersConfined
  <2>6. CASE q = p /\ pc'[p] = "undo"
    BY <2>6, <1>done
  <2>7. CASE q = p /\ pc'[p] # "undo"
    <3>1. /\ Controller(f) \in Requested(p) =>
               /\ f \in DOMAIN Own(p).limits
               /\ f = "memory.max" => ~Overflows(request[p].memory)
               /\ cgroup' = [cgroup EXCEPT ![path[p]].limits[f] = Value(p, f)]
          /\ Controller(f) \notin Requested(p) => UNCHANGED cgroup
          /\ written' = [written EXCEPT ![p] = i] /\ UNCHANGED pc
      BY <1>3, <2>7, <1>u DEF Configure
    <3>2. WrittenSoFar(p)
      BY <2>1, <2>2, <2>7, <1>i, AbsentAssumption DEF Confined
    <3>3. DOMAIN Own(p)'.limits = DOMAIN Own(p).limits
      <4>1. CASE Controller(f) \in Requested(p)
        BY <1>i, <2>1, <2>2, <3>1, <4>1, RequestType, LimitChange DEF Own
      <4>2. CASE Controller(f) \notin Requested(p)
        BY <2>1, <3>1, <4>2 DEF Own
      <4> QED
        BY <4>1, <4>2
    <3>4. Controller(f) \in Requested(p) => Own(p)'.limits[f] = Asked(p, f)
      <4> SUFFICES ASSUME Controller(f) \in Requested(p)
                   PROVE  Own(p)'.limits[f] = Asked(p, f)
        OBVIOUS
      <4>1. Own(p)'.limits[f] = Value(p, f)
        BY <1>i, <2>1, <2>2, <3>1, RequestType, LimitChange DEF Own
      <4>2. f = "memory.max" => Value(p, f) = request[p].memory * UnitBytes
        BY <1>i, <3>1, RequestType, BytesExact, LimitsAssumption DEF Value
      <4> QED
        BY <4>1, <4>2 DEF Asked
    <3>5. ASSUME NEW j \in 1..written[p], Files[j] \in DOMAIN Own(p).limits
          PROVE  Own(p)'.limits[Files[j]] = Own(p).limits[Files[j]]
      <4>1. Files[j] # f
        BY <2>1, <1>u, <3>5, FilesIndexed
      <4>2. CASE Controller(f) \in Requested(p)
        BY <1>i, <2>1, <2>2, <3>1, <3>5, <4>1, <4>2, RequestType, LimitChange DEF Own
      <4>3. CASE Controller(f) \notin Requested(p)
        BY <2>1, <3>1, <4>3 DEF Own
      <4> QED
        BY <4>2, <4>3
    <3>6. \A e \in FileNames : Asked(p, e)' = Asked(p, e)
      BY <2>1 DEF Asked, Value
    <3>7. Requested(p)' = Requested(p)
      BY <2>1 DEF Requested
    <3>8. \A j \in 1..written'[p] :
            Files[j] \in DOMAIN Own(p)'.limits /\ Controller(Files[j]) \in Requested(p)
              => Own(p)'.limits[Files[j]] = Asked(p, Files[j])'
      <4> TAKE j \in 1..written'[p]
      <4>1. j = i \/ j \in 1..written[p]
        BY <2>1, <3>1, <1>u
      <4>2. j \in 1..5 /\ Files[j] \in FileNames
        BY <2>1, <4>1, <1>u, FilesListed
      <4> QED
        BY <3>2, <3>3, <3>4, <3>5, <3>6, <4>1, <4>2 DEF WrittenSoFar
    <3>9. ASSUME NEW c \in Requested(p) \ lost[p], Done(c, p)'
          PROVE  \A e \in FileNames : Controller(e) = c => e \in DOMAIN Own(p)'.limits
      <4>1. CASE Done(c, p)
        BY <3>2, <3>3, <4>1 DEF WrittenSoFar
      <4>2. CASE ~Done(c, p)
        <5>1. Controller(f) = c
          <6>1. PICK j \in 1..5 : Controller(Files[j]) = c /\ ~(j <= written[p])
            BY <4>2, FilesListed DEF Done
          <6>2. j <= written'[p] /\ written'[p] = i
            BY <3>1, <3>9, <6>1, <1>u, FilesListed DEF Done
          <6>3. j = i
            BY <6>1, <6>2, <2>1, <1>u
          <6> QED
            BY <6>1, <6>3
        <5>2. f \in DOMAIN Own(p).limits /\ Whole(Own(p))
          BY <3>1, <5>1, <2>2, <1>i DEF WholeCgroups, Own
        <5> QED
          BY <2>1, <3>3, <5>1, <5>2 DEF Whole
      <4> QED
        BY <4>1, <4>2
    <3>10. WrittenSoFar(p)'
      BY <2>1, <3>7, <3>8, <3>9 DEF WrittenSoFar
    <3> QED
      BY <2>1, <2>7, <3>1, <3>10 DEF Confined, Working
  <2> QED
    BY <1>3, <2>5, <2>6, <2>7
<1>4. ASSUME NEW p \in Procs, Configured(p) PROVE Confined(q)'
  <2>1. /\ UNCHANGED <<request, path, cgroup, written, lost>>
        /\ pc[p] = "configure" /\ written[p] = 5 /\ pc'[p] = "attach"
        /\ \A r \in Procs \ {p} : pc'[r] = pc[r]
    BY <1>4, <1>u, FilesListed DEF Configured
  <2>2. CASE q = p
    BY <2>1, <2>2, <1>pc DEF Working
  <2>3. CASE q # p
    BY <2>1, <2>3, <1>i, OthersConfined
  <2> QED
    BY <2>2, <2>3
<1>5. ASSUME NEW p \in Procs, Attach(p) PROVE Confined(q)'
  <2>1. /\ UNCHANGED <<request, path, written, lost>>
        /\ pc[p] = "attach" /\ pc'[p] \in {"child", "cleanup"}
        /\ \A r \in Procs \ {p} : pc'[r] = pc[r]
    BY <1>5, <1>u DEF Attach
  <2>2. CASE pc'[p] = "cleanup" /\ q = p
    BY <2>2, <1>done
  <2>3. CASE path[p] = Absent /\ UNCHANGED cgroup
    <3>1. q = p => Confined(q)'
      BY <2>1, <2>3, <1>i DEF Confined, Working, Requested
    <3>2. q # p => Confined(q)'
      BY <2>1, <2>3, <1>i, OthersConfined
    <3> QED
      BY <3>1, <3>2
  <2>4. CASE MovedIn(p, {p})
    <3>1. {p} \in SUBSET Procs /\ path[p] \in Names /\ cgroup[path[p]] # Absent
      BY <2>4, <1>own DEF MovedIn
    <3>2. /\ cgroup'[path[p]].members = {p} /\ cgroup'[path[p]].limits = cgroup[path[p]].limits
          /\ \A m \in Names \ {path[p]} : cgroup'[m] = cgroup[m]
      BY <2>4, <3>1, <1>i, MembersChange DEF MovedIn
    <3>3. q # p => Confined(q)'
      BY <2>1, <3>2, <1>i, <1>own, <1>apart, OthersConfined
    <3>4. ASSUME q = p PROVE Confined(q)'
      <4>1. WrittenSoFar(p)
        BY <2>1, <3>1, <3>4, <1>i, AbsentAssumption DEF Confined, Working
      <4>2. WrittenSoFar(p)'
        BY <2>1, <3>2, <4>1 DEF WrittenSoFar, Own, Requested, Asked, Value, Done
      <4> QED
        BY <2>1, <3>2, <3>4, <4>2, <1>i DEF Confined, Working, Own, Requested
    <3> QED
      BY <3>3, <3>4
  <2>5. CASE pc'[p] = "cleanup" /\ q # p /\ UNCHANGED cgroup
    BY <2>1, <2>5, <1>i, OthersConfined
  <2> QED
    BY <1>5, <2>1, <2>2, <2>3, <2>4, <2>5, <1>u DEF Attach, MovedIn
<1>6. ASSUME NEW p \in Procs, ApplyFileSizeLimit(p) PROVE Confined(q)'
  <2>1. /\ UNCHANGED <<request, path, cgroup, written, lost>>
        /\ pc[p] = "child" /\ pc'[p] \in {"running", "dying"}
        /\ \A r \in Procs \ {p} : pc'[r] = pc[r]
    BY <1>6, <1>u DEF ApplyFileSizeLimit
  <2>2. CASE q = p
    <3>1. CASE pc'[q] = "dying"
      BY <3>1, <1>done
    <3>2. CASE pc'[q] = "running"
      <4>1. pc[q] \in {"child", "running"} /\ pc[q] \in Working
        BY <2>1, <2>2 DEF Working
      <4>2. pc'[q] \notin {"check", "mkdir"} /\ pc'[q] # "configure"
        BY <3>2
      <4>3. UNCHANGED <<request, path, cgroup, written, lost>>
        BY <2>1
      <4> QED
        BY <4>1, <4>2, <4>3, <1>pc
    <3> QED
      BY <2>1, <2>2, <3>1, <3>2
  <2>3. CASE q # p
    BY <2>1, <2>3, <1>i, OthersConfined
  <2> QED
    BY <2>2, <2>3
<1>7. ASSUME NEW p \in Procs, ChildGone(p) PROVE Confined(q)'
  <2>1. /\ UNCHANGED <<request, path, written, lost>>
        /\ pc'[p] = "cleanup" /\ \A r \in Procs \ {p} : pc'[r] = pc[r]
    BY <1>7, <1>u DEF ChildGone
  <2>2. UNCHANGED cgroup \/ MovedIn(p, {})
    BY <1>7, MembersWritten
  <2>3. path[q] # Absent /\ q # p => cgroup'[path[q]] = cgroup[path[q]]
    BY <2>2, <1>own, <1>apart, <1>u DEF MovedIn
  <2> QED
    BY <2>1, <2>3, <1>i, <1>done, OthersConfined
<1>8. ASSUME NEW n \in Names, LastProcessGone(n) PROVE Confined(q)'
  <2>1. /\ cgroup[n] # Absent /\ cgroup' = [cgroup EXCEPT ![n].members = {}]
        /\ pc[cgroup[n].owner] \in {"cleanup", "end"}
        /\ UNCHANGED <<request, pc, path, written, lost>>
    BY <1>8 DEF LastProcessGone
  <2>2. CASE path[q] = n
    <3>1. cgroup[n].owner = q
      BY <2>2, <1>i, AbsentAssumption DEF Accounted, PathIsOwn, Own
    <3> QED
      BY <2>1, <3>1, <1>done
  <2>3. CASE path[q] # n
    BY <2>1, <2>3, <1>i, <1>u, OthersConfined
  <2> QED
    BY <2>2, <2>3
<1>9. ASSUME NEW p \in Procs, Undo(p) \/ CleanupCall(p) PROVE Confined(q)'
  <2>1. /\ UNCHANGED <<request, written, lost>>
        /\ pc'[p] = "end" /\ \A r \in Procs \ {p} : pc'[r] = pc[r] /\ path'[r] = path[r]
        /\ UNCHANGED cgroup \/ (path[p] # Absent /\ cgroup' = [cgroup EXCEPT ![path[p]] = Absent])
    <3>1. Cleanup(p) /\ UNCHANGED <<request, written, lost>>
      BY <1>9 DEF Undo, CleanupCall
    <3>2. pc'[p] = "end" /\ \A r \in Procs \ {p} : pc'[r] = pc[r]
      BY <1>9, <1>u DEF Undo, CleanupCall
    <3>3. \A r \in Procs \ {p} : path'[r] = path[r]
      BY <3>1, <1>u DEF Cleanup
    <3>4. UNCHANGED cgroup \/ (path[p] # Absent /\ cgroup' = [cgroup EXCEPT ![path[p]] = Absent])
      BY <3>1, CleanupChange
    <3> QED
      BY <3>1, <3>2, <3>3, <3>4
  <2>2. path[q] # Absent /\ q # p => cgroup'[path[q]] = cgroup[path[q]]
    BY <2>1, <1>apart, <1>own, <1>u
  <2> QED
    BY <2>1, <2>2, <1>i, <1>done, OthersConfined
<1>10. ASSUME NEW c \in Controllers, Revoke(c) PROVE Confined(q)'
  <2>1. /\ UNCHANGED <<request, pc, path, written>>
        /\ lost'[q] = IF Done(c, q) THEN lost[q] \cup {c} ELSE lost[q]
    BY <1>10 DEF Revoke, Done
  <2>2. path[q] # Absent =>
          /\ cgroup'[path[q]].members = cgroup[path[q]].members
          /\ DOMAIN cgroup'[path[q]].limits =
               {f \in DOMAIN cgroup[path[q]].limits : Controller(f) # c}
          /\ \A f \in DOMAIN cgroup'[path[q]].limits :
               cgroup'[path[q]].limits[f] = cgroup[path[q]].limits[f]
    BY <1>10, <1>i, <1>own, RevokeChange
  <2>3. ASSUME path[q] # Absent, WrittenSoFar(q) PROVE WrittenSoFar(q)'
    <3>1. /\ Requested(q)' = Requested(q) /\ \A d : Done(d, q)' <=> Done(d, q)
          /\ \A f : Asked(q, f)' = Asked(q, f)
      BY <2>1 DEF Requested, Done, Asked, Value
    <3>2. \A i \in 1..written'[q] :
            Files[i] \in DOMAIN Own(q)'.limits /\ Controller(Files[i]) \in Requested(q)
              => Own(q)'.limits[Files[i]] = Asked(q, Files[i])
      BY <2>1, <2>2, <2>3 DEF WrittenSoFar, Own
    <3>3. ASSUME NEW d \in Requested(q) \ lost'[q], Done(d, q)
          PROVE  \A f \in FileNames : Controller(f) = d => f \in DOMAIN Own(q)'.limits
      <4>1. d # c /\ d \notin lost[q]
        BY <2>1, <3>3
      <4> QED
        BY <2>1, <2>2, <2>3, <3>3, <4>1 DEF WrittenSoFar, Own
    <3> QED
      BY <3>1, <3>2, <3>3 DEF WrittenSoFar
  <2> QED
    BY <2>1, <2>2, <2>3, <1>i DEF Confined, Own, Requested
<1>11. CASE UNCHANGED vars
  BY <1>11, <1>i, OthersConfined DEF vars
<1> QED
  BY <1>1, <1>2, <1>3, <1>4, <1>5, <1>6, <1>7, <1>8, <1>9, <1>10, <1>11 DEF Next, Finished

\* The one action that sets a limit on files: what it sets is the smallest of the
\* numbers, so that the kernel has no reason to refuse it.
LEMMA FileSizeStep ==
  LimitsInv /\ [Next]_vars => (DOMAIN fsize = Procs /\ FileSizeNeverWeaker)'
<1> SUFFICES ASSUME LimitsInv, [Next]_vars
             PROVE  DOMAIN fsize' = Procs /\ FileSizeNeverWeaker'
  OBVIOUS
<1>i. TypeOK /\ DOMAIN fsize = Procs /\ FileSizeNeverWeaker
  BY DEF LimitsInv, AccountInv
<1>u. DOMAIN error = Procs /\ DOMAIN pc = Procs
  BY <1>i DEF TypeOK
<1>same. ASSUME UNCHANGED <<request, fsize>>,
                \A q \in Procs : "denied" \in error'[q] => "denied" \in error[q]
         PROVE  DOMAIN fsize' = Procs /\ FileSizeNeverWeaker'
  BY <1>same, <1>i DEF FileSizeNeverWeaker
<1>r. ASSUME NEW p \in Procs, NEW w, Reports(p, w), w # "denied"
      PROVE  \A q \in Procs : "denied" \in error'[q] => "denied" \in error[q]
  BY <1>r, <1>u DEF Reports
<1>1. ASSUME NEW p \in Procs, ApplyFileSizeLimit(p)
      PROVE  DOMAIN fsize' = Procs /\ FileSizeNeverWeaker'
  <2> DEFINE asked == request[p].file
             bytes == Bytes(asked)
  <2>1. /\ UNCHANGED request /\ asked \in Nat /\ UnitBytes \in Nat
        /\ bytes \in Nat /\ (asked > 0 /\ ~Overflows(asked) => bytes = asked * UnitBytes)
    BY <1>1, <1>i, RequestType, BytesType, BytesExact, LimitsAssumption DEF ApplyFileSizeLimit
  <2>2. CASE UNCHANGED fsize /\ Reports(p, "run")
    <3>1. UNCHANGED <<request, fsize>>
      BY <2>1, <2>2
    <3> QED
      BY <2>2, <3>1, <1>r, <1>same
  <2>3. ASSUME asked = 0 \/ ~Overflows(asked), NEW inherited \in Inherited,
               LET ceiling == Ceiling(bytes, inherited) IN
               IF asked = 0
               THEN /\ fsize' = [fsize EXCEPT ![p] = [before |-> inherited, now |-> inherited]]
                    /\ UNCHANGED error
               ELSE IF ceiling > inherited.max
               THEN Reports(p, "denied") /\ UNCHANGED fsize
               ELSE /\ fsize' = [fsize EXCEPT ![p] =
                         [before |-> inherited, now |-> [cur |-> ceiling, max |-> ceiling]]]
                    /\ UNCHANGED error
        PROVE  DOMAIN fsize' = Procs /\ FileSizeNeverWeaker'
    <3> DEFINE ceiling == Ceiling(bytes, inherited)
    <3>1. /\ inherited.cur \in Nat /\ inherited.max \in Nat
          /\ ceiling \in Nat /\ ceiling <= bytes
          /\ ceiling <= inherited.cur /\ ceiling <= inherited.max
      BY <2>1, CeilingBound, LimitsAssumption
    <3>2. PICK now :
            /\ fsize' = [fsize EXCEPT ![p] = [before |-> inherited, now |-> now]]
            /\ UNCHANGED error
            /\ now.cur <= inherited.cur /\ now.max <= inherited.max
            /\ asked > 0 => now.max <= bytes
      <4>1. CASE asked = 0
        BY <2>3, <3>1, <4>1
      <4>2. CASE asked # 0
        <5> HIDE DEF ceiling
        <5>1. ~(ceiling > inherited.max)
          BY <3>1
        <5>2. fsize' = [fsize EXCEPT ![p] =
                [before |-> inherited, now |-> [cur |-> ceiling, max |-> ceiling]]]
          BY <2>3, <4>2, <5>1 DEF ceiling
        <5>3. UNCHANGED error
          BY <2>3, <4>2, <5>1 DEF ceiling
        <5> DEFINE both == [cur |-> ceiling, max |-> ceiling]
        <5>4. both.cur = ceiling /\ both.max = ceiling
          OBVIOUS
        <5> HIDE DEF both
        <5>5. fsize' = [fsize EXCEPT ![p] = [before |-> inherited, now |-> both]]
          BY <5>2 DEF both
        <5>6. both.cur <= inherited.cur /\ both.max <= inherited.max /\ both.max <= bytes
          BY <3>1, <5>4
        <5> QED
          BY <5>3, <5>5, <5>6
      <4> QED
        BY <4>1, <4>2
    <3>3. /\ fsize'[p].before = inherited /\ fsize'[p].now = now
          /\ \A q \in Procs \ {p} : fsize'[q] = fsize[q]
          /\ DOMAIN fsize' = Procs
      BY <3>2, <1>i
    <3>4. asked > 0 => now.max <= asked * UnitBytes
      BY <2>1, <2>3, <3>2
    <3> QED
      BY <2>1, <3>2, <3>3, <3>4, <1>i DEF FileSizeNeverWeaker
  <2>4. \/ UNCHANGED fsize /\ Reports(p, "run")
        \/ \E inherited \in Inherited :
             /\ asked = 0 \/ ~Overflows(asked)
             /\ LET ceiling == Ceiling(bytes, inherited) IN
                IF asked = 0
                THEN /\ fsize' = [fsize EXCEPT ![p] = [before |-> inherited, now |-> inherited]]
                     /\ UNCHANGED error
                ELSE IF ceiling > inherited.max
                THEN Reports(p, "denied") /\ UNCHANGED fsize
                ELSE /\ fsize' = [fsize EXCEPT ![p] =
                          [before |-> inherited, now |-> [cur |-> ceiling, max |-> ceiling]]]
                     /\ UNCHANGED error
    BY <1>1 DEF ApplyFileSizeLimit
  <2> QED
    BY <2>2, <2>3, <2>4
<1>2. ASSUME NEW p \in Procs,
             \/ Check(p) \/ Mkdir(p) \/ Configure(p) \/ Configured(p) \/ Attach(p)
             \/ ChildGone(p) \/ Undo(p) \/ CleanupCall(p)
      PROVE  DOMAIN fsize' = Procs /\ FileSizeNeverWeaker'
  <2>1. UNCHANGED <<request, fsize>>
    BY <1>2 DEF Check, Mkdir, Configure, Configured, Attach, ChildGone, Undo, CleanupCall, Cleanup
  <2>2. \/ UNCHANGED error
        \/ \E w \in {"prepare", "run", "cleanup"} : Reports(p, w)
    BY <1>2 DEF Check, Mkdir, Configure, Configured, Attach, ChildGone, Undo, CleanupCall, Cleanup
  <2> QED
    BY <2>1, <2>2, <1>r, <1>same
<1>3. CASE \/ \E n \in Names : LastProcessGone(n)
           \/ \E c \in Controllers : Revoke(c)
           \/ UNCHANGED vars
  BY <1>3, <1>same DEF LastProcessGone, Revoke, vars
<1> QED
  BY <1>1, <1>2, <1>3 DEF Next, Finished

\* Every step keeps the limits in force for the processes under them.
LEMMA LimitsStep == LimitsInv /\ [Next]_vars => LimitsInv'
BY AccountStep, WholeStep, ConfinedStep, FileSizeStep DEF LimitsInv

\* Whatever fails, whatever is taken back and whatever the word's width: a
\* payload runs in the cgroup of its run, below every limit that was asked for
\* and is still enforced, and below the file size limit it was given or had.
THEOREM LimitsEnforced == Spec => []LimitsHold
<1>1. LimitsInv => LimitsHold
  <2> SUFFICES ASSUME LimitsInv PROVE RunsUnderItsLimits
    BY DEF LimitsInv, AccountInv, LimitsHold
  <2>1. TypeOK /\ Accounted
    BY DEF LimitsInv, AccountInv
  <2> SUFFICES ASSUME NEW p \in Procs, pc[p] = "running", Requested(p) # {}
               PROVE  /\ path[p] # Absent /\ cgroup[path[p]] # Absent /\ p \in Own(p).members
                      /\ \A f \in ToSet(Files) :
                           Controller(f) \in Requested(p) \ lost[p] =>
                             f \in DOMAIN Own(p).limits /\ Own(p).limits[f] = Asked(p, f)
    BY DEF RunsUnderItsLimits, Asked
  <2>2. Confined(p)
    BY DEF LimitsInv
  <2>3. path[p] # Absent /\ written[p] = 5 /\ p \in Own(p).members /\ WrittenSoFar(p)
    BY <2>2 DEF Confined, Working
  <2>4. cgroup[path[p]] # Absent
    BY <2>1, <2>3 DEF Accounted, PathIsOwn
  <2>5. ASSUME NEW f \in FileNames, Controller(f) \in Requested(p) \ lost[p]
        PROVE  f \in DOMAIN Own(p).limits /\ Own(p).limits[f] = Asked(p, f)
    <3>1. Done(Controller(f), p)
      BY <2>3, FilesListed DEF Done
    <3>2. f \in DOMAIN Own(p).limits
      BY <2>3, <2>5, <3>1 DEF WrittenSoFar
    <3>3. PICK i \in 1..5 : Files[i] = f
      BY FilesIndexed
    <3> QED
      BY <2>3, <2>5, <3>2, <3>3 DEF WrittenSoFar
  <2> QED
    BY <2>3, <2>4, <2>5, FilesListed
<1> QED
  BY <1>1, LimitsInit, LimitsStep, PTL DEF Spec
=============================================================================
