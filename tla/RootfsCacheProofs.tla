-------------------------- MODULE RootfsCacheProofs --------------------------
(***************************************************************************)
(* Theorems about RootfsCache, for every set of processes, keys, sizes and *)
(* limits, any number of failures, crashes and restarts.                   *)
(***************************************************************************)
EXTENDS RootfsCache, TLAPS

-----------------------------------------------------------------------------
(* The inductive invariant.                                                *)

\* Between acquireLockAt and lock.Close.
Critical == {"validate", "makeTemp", "request", "body", "mkdir", "extract",
             "removeArchive", "writeManifest", "publish", "removeOld",
             "syncDir", "cleanup", "unlock"}

\* The flock: whoever is between acquireLockAt and lock.Close holds it.
LockInv == \A p \in Procs : pc[p] \in Critical => lock = p

\* How far the new tree is at each step of provision.
BuildInv ==
  \A p \in Procs :
    /\ pc[p] \in {"mkdir", "extract"} => archive[p] = "pinned"
    /\ pc[p] = "extract" =>
         /\ tree[p] \in Trees
         /\ tree[p].files # "none" => tree[p].genuine
    /\ pc[p] \in {"removeArchive", "writeManifest", "publish"} =>
         /\ tree[p] \in Trees
         /\ tree[p].files = "all"
         /\ tree[p].genuine
         /\ Size[KeyOf[p]] <= Limit[p]
    /\ pc[p] = "publish" => tree[p].manifest

\* Whoever will be handed the entry can rely on it already.
AnswerInv ==
  \A p \in Procs :
    \/ pc[p] \in {"removeOld", "syncDir", "returned", "using"}
    \/ pc[p] \in {"cleanup", "unlock"} /\ ok[p]
    => Verified(KeyOf[p]) /\ Size[KeyOf[p]] <= Limit[p]

\* ok is set only on the way out, and stays until the next start.
OkInv == \A p \in Procs : ok[p] => pc[p] \in {"cleanup", "unlock", "returned", "using", "failed"}

CacheInv ==
  TypeOK /\ LockInv /\ BuildInv /\ AnswerInv /\ OkInv /\ ManifestMeansVerified

\* The cache begins in order.
LEMMA CacheInvInit == Init => CacheInv
<1> SUFFICES ASSUME Init PROVE CacheInv
  OBVIOUS
<1>1. Debris \in Trees /\ ~Debris.manifest
  BY DEF Debris, Trees
<1>2. TypeOK
  BY <1>1 DEF Init, TypeOK, Labels, Archives
<1> QED
  BY <1>1, <1>2 DEF Init, CacheInv, LockInv, BuildInv, AnswerInv, OkInv,
     ManifestMeansVerified, Critical

\* That a sandbox ends changes nothing of a tree but its users.
LEMMA WithoutFacts ==
  ASSUME NEW p, NEW t \in Trees \cup {Absent}
  PROVE  /\ Without(t, p) \in Trees \cup {Absent}
         /\ Without(t, p) = Absent <=> t = Absent
         /\ t # Absent => /\ Without(t, p).files = t.files
                          /\ Without(t, p).genuine = t.genuine
                          /\ Without(t, p).manifest = t.manifest
                          /\ Without(t, p).users = t.users \ {p}
BY AbsentAssumption DEF Without, Trees

\* Whether sandboxes come or go, every entry stays what it was.
LEMMA EntriesKept ==
  ASSUME TypeOK, NEW p \in Procs, OpenRootfs(p) \/ Crash(p) \/ Restart(p)
  PROVE  \A k \in Keys :
           /\ published'[k] \in Trees \cup {Absent}
           /\ published'[k] = Absent <=> published[k] = Absent
           /\ published[k] # Absent => /\ published'[k].files = published[k].files
                                       /\ published'[k].genuine = published[k].genuine
                                       /\ published'[k].manifest = published[k].manifest
<1>1. CASE UNCHANGED published
  BY <1>1 DEF TypeOK
<1>2. CASE published' = [k \in Keys |-> Without(published[k], p)]
  BY <1>2, WithoutFacts DEF TypeOK
<1> DEFINE opened == [published[KeyOf[p]] EXCEPT !.users = @ \cup {p}]
<1>3. CASE published[KeyOf[p]] # Absent /\ published' = [published EXCEPT ![KeyOf[p]] = opened]
  <2>1. KeyOf[p] \in Keys /\ published[KeyOf[p]] \in Trees
    BY <1>3, CacheAssumption DEF TypeOK
  <2>2. /\ opened \in Trees /\ opened.files = published[KeyOf[p]].files
        /\ opened.genuine = published[KeyOf[p]].genuine
        /\ opened.manifest = published[KeyOf[p]].manifest
    BY <2>1 DEF Trees
  <2> HIDE DEF opened
  <2> QED
    BY <1>3, <2>1, <2>2, AbsentAssumption DEF TypeOK
<1> QED
  BY <1>1, <1>2, <1>3 DEF OpenRootfs, Crash, Restart

\* A directory just made holds no files.
LEMMA EmptyTreeType == EmptyTree \in Trees /\ EmptyTree.files = "none"
BY DEF EmptyTree, Trees

\* Every step keeps the published entries whole and the lock with one process.
LEMMA CacheInvStep == CacheInv /\ [Next]_vars => CacheInv'
<1> SUFFICES ASSUME CacheInv, [Next]_vars PROVE CacheInv'
  OBVIOUS
<1> USE CacheAssumption, AbsentAssumption
    DEF CacheInv, TypeOK, LockInv, BuildInv, AnswerInv, OkInv, ManifestMeansVerified,
        Verified, Critical, Labels, Archives, Step
<1>1. ASSUME NEW p \in Procs, OpenVersionDir(p) PROVE CacheInv'
  BY <1>1 DEF OpenVersionDir
<1>2. ASSUME NEW p \in Procs, AcquireLock(p) PROVE CacheInv'
  BY <1>2 DEF AcquireLock
<1>3. ASSUME NEW p \in Procs, Validate(p) PROVE CacheInv'
  <2>1. TypeOK'
    BY <1>3 DEF Validate, Valid
  <2>2. LockInv'
    BY <1>3 DEF Validate, Valid
  <2>3. BuildInv'
    BY <1>3 DEF Validate, Valid
  <2>4. AnswerInv'
    BY <1>3 DEF Validate, Valid
  <2>5. OkInv'
    BY <1>3 DEF Validate, Valid
  <2>6. ManifestMeansVerified'
    BY <1>3 DEF Validate, Valid
  <2> QED
    BY <2>1, <2>2, <2>3, <2>4, <2>5, <2>6
<1>4. ASSUME NEW p \in Procs, MakeTemp(p) PROVE CacheInv'
  <2>1. TypeOK'
    BY <1>4 DEF MakeTemp
  <2>2. LockInv'
    BY <1>4 DEF MakeTemp
  <2>3. BuildInv'
    BY <1>4 DEF MakeTemp
  <2>4. AnswerInv'
    BY <1>4 DEF MakeTemp
  <2>5. OkInv'
    BY <1>4 DEF MakeTemp
  <2>6. ManifestMeansVerified'
    BY <1>4 DEF MakeTemp
  <2> QED
    BY <2>1, <2>2, <2>3, <2>4, <2>5, <2>6
<1>5. ASSUME NEW p \in Procs, Request(p) PROVE CacheInv'
  BY <1>5 DEF Request
<1>6. ASSUME NEW p \in Procs, Body(p) PROVE CacheInv'
  BY <1>6 DEF Body
<1>7. ASSUME NEW p \in Procs, MkdirRootfs(p) PROVE CacheInv'
  <2>1. TypeOK'
    BY <1>7, EmptyTreeType DEF MkdirRootfs
  <2>2. LockInv'
    BY <1>7, EmptyTreeType DEF MkdirRootfs
  <2>3. BuildInv'
    BY <1>7, EmptyTreeType DEF MkdirRootfs
  <2>4. AnswerInv'
    BY <1>7, EmptyTreeType DEF MkdirRootfs
  <2>5. OkInv'
    BY <1>7, EmptyTreeType DEF MkdirRootfs
  <2>6. ManifestMeansVerified'
    BY <1>7, EmptyTreeType DEF MkdirRootfs
  <2> QED
    BY <2>1, <2>2, <2>3, <2>4, <2>5, <2>6
<1>8. ASSUME NEW p \in Procs, Extract(p) PROVE CacheInv'
  <2> DEFINE begun == [EmptyTree EXCEPT !.files = "some", !.genuine = (archive[p] = "pinned")]
  <2>0. tree[p] \in Trees /\ archive[p] = "pinned"
    BY <1>8 DEF Extract
  <2>1. CASE tree' = [tree EXCEPT ![p] = begun] /\ UNCHANGED pc
    <3>1. begun \in Trees /\ begun.genuine
      BY <2>0 DEF Trees, EmptyTree
    <3> HIDE DEF begun
    <3>2. TypeOK'
      BY <1>8, <2>1, <3>1 DEF Extract
    <3>3. BuildInv'
      BY <1>8, <2>1, <3>1 DEF Extract
    <3> QED
      BY <1>8, <2>1, <3>2, <3>3 DEF Extract
  <2> DEFINE full == [tree[p] EXCEPT !.files = "all"]
  <2>2. CASE /\ tree[p].files = "some"
             /\ Size[KeyOf[p]] <= Limit[p]
             /\ tree' = [tree EXCEPT ![p] = full]
             /\ Step(p, "extract", "removeArchive")
    <3>0. full \in Trees /\ full.files = "all" /\ full.genuine
      BY <1>8, <2>0, <2>2 DEF Extract, Trees
    <3> HIDE DEF full
    <3>1. TypeOK'
      BY <1>8, <2>2, <3>0 DEF Extract
    <3>2. BuildInv'
      BY <1>8, <2>2, <3>0 DEF Extract
    <3> QED
      BY <1>8, <2>2, <3>1, <3>2 DEF Extract
  <2>3. CASE Step(p, "extract", "cleanup") /\ UNCHANGED tree
    BY <1>8, <2>3 DEF Extract
  <2> QED
    BY <1>8, <2>1, <2>2, <2>3 DEF Extract
<1>9. ASSUME NEW p \in Procs, RemoveArchive(p) PROVE CacheInv'
  BY <1>9 DEF RemoveArchive
<1>10. ASSUME NEW p \in Procs, WriteManifest(p) PROVE CacheInv'
  <2> DEFINE done == [tree[p] EXCEPT !.manifest = TRUE]
  <2>0. /\ tree[p] \in Trees /\ tree[p].files = "all" /\ tree[p].genuine
        /\ Size[KeyOf[p]] <= Limit[p]
    BY <1>10 DEF WriteManifest
  <2>1. done \in Trees /\ done.files = "all" /\ done.genuine /\ done.manifest
    BY <2>0 DEF Trees
  <2>2. CASE /\ tree' = [tree EXCEPT ![p] = done]
             /\ Step(p, "writeManifest", "publish")
    <3> HIDE DEF done
    <3>1. TypeOK'
      BY <1>10, <2>1, <2>2 DEF WriteManifest
    <3>2. BuildInv'
      BY <1>10, <2>0, <2>1, <2>2 DEF WriteManifest
    <3> QED
      BY <1>10, <2>2, <3>1, <3>2 DEF WriteManifest
  <2>3. CASE Step(p, "writeManifest", "cleanup") /\ UNCHANGED tree
    BY <1>10, <2>3 DEF WriteManifest
  <2> QED
    BY <1>10, <2>2, <2>3 DEF WriteManifest
<1>11. ASSUME NEW p \in Procs, Publish(p) PROVE CacheInv'
  BY <1>11 DEF Publish
<1>12. ASSUME NEW p \in Procs, RemoveOld(p) PROVE CacheInv'
  BY <1>12 DEF RemoveOld
<1>13. ASSUME NEW p \in Procs, SyncVersionDir(p) PROVE CacheInv'
  <2>1. TypeOK'
    BY <1>13 DEF SyncVersionDir
  <2>2. LockInv'
    BY <1>13 DEF SyncVersionDir
  <2>3. BuildInv'
    BY <1>13 DEF SyncVersionDir
  <2>4. AnswerInv'
    BY <1>13 DEF SyncVersionDir
  <2>5. OkInv'
    BY <1>13 DEF SyncVersionDir
  <2>6. ManifestMeansVerified'
    BY <1>13 DEF SyncVersionDir
  <2> QED
    BY <2>1, <2>2, <2>3, <2>4, <2>5, <2>6
<1>14. ASSUME NEW p \in Procs, Cleanup(p) PROVE CacheInv'
  <2>1. TypeOK'
    BY <1>14 DEF Cleanup
  <2>2. LockInv'
    BY <1>14 DEF Cleanup
  <2>3. BuildInv'
    BY <1>14 DEF Cleanup
  <2>4. AnswerInv'
    BY <1>14 DEF Cleanup
  <2>5. OkInv'
    BY <1>14 DEF Cleanup
  <2>6. ManifestMeansVerified'
    BY <1>14 DEF Cleanup
  <2> QED
    BY <2>1, <2>2, <2>3, <2>4, <2>5, <2>6
<1>15. ASSUME NEW p \in Procs, Unlock(p) PROVE CacheInv'
  BY <1>15 DEF Unlock
<1>16. ASSUME NEW p \in Procs, OpenRootfs(p) PROVE CacheInv'
  <2>1. \A k \in Keys : Verified(k)' <=> Verified(k)
    BY <1>16, EntriesKept
  <2>2. TypeOK'
    <3>1. published' \in [Keys -> Trees \cup {Absent}]
      <4>1. \E t : published' = [published EXCEPT ![KeyOf[p]] = t] \/ UNCHANGED published
        BY <1>16 DEF OpenRootfs
      <4> QED
        BY <1>16, <4>1, EntriesKept
    <3> QED
      BY <1>16, <3>1 DEF OpenRootfs
  <2>3. LockInv'
    BY <1>16 DEF OpenRootfs
  <2>7. OkInv'
    BY <1>16 DEF OpenRootfs
  <2>6. BuildInv'
    BY <1>16 DEF OpenRootfs
  <2>4. AnswerInv'
    BY <1>16, <2>1 DEF OpenRootfs
  <2>5. ManifestMeansVerified'
    BY <1>16, EntriesKept
  <2> QED
    BY <2>2, <2>3, <2>4, <2>5, <2>6, <2>7
<1>17. ASSUME NEW p \in Procs, Crash(p) \/ Restart(p) PROVE CacheInv'
  <2>1. /\ published' = [k \in Keys |-> Without(published[k], p)]
        /\ \A q \in Procs : q # p => /\ pc'[q] = pc[q] /\ ok'[q] = ok[q]
                                     /\ archive'[q] = archive[q]
                                     /\ tree'[q] = Without(tree[q], p)
        /\ pc'[p] \in {"open", "crashed"} /\ ok'[p] = FALSE
    BY <1>17 DEF Crash, Restart
  <2>2. TypeOK'
    <3>1. published' \in [Keys -> Trees \cup {Absent}]
      BY <2>1, WithoutFacts
    <3>2. tree' \in [Procs -> Trees \cup {Absent}]
      <4>1. \A q \in Procs : Without(tree[q], p) \in Trees \cup {Absent}
        BY WithoutFacts
      <4> QED
        BY <1>17, <4>1 DEF Crash, Restart
    <3>3. /\ pc' \in [Procs -> Labels] /\ ok' \in [Procs -> BOOLEAN]
          /\ lock' \in Procs \cup {NoProc} /\ misread' \subseteq Procs
          /\ tempDir' \in [Procs -> BOOLEAN] /\ archive' \in [Procs -> Archives]
      <4>1. CASE Crash(p)
        BY <4>1 DEF Crash
      <4>2. CASE Restart(p)
        BY <4>2 DEF Restart
      <4> QED
        BY <1>17, <4>1, <4>2
    <3> QED
      BY <3>1, <3>2, <3>3
  <2>3. LockInv'
    BY <1>17, <2>1 DEF Crash, Restart
  <2>4. BuildInv'
    <3> SUFFICES ASSUME NEW q \in Procs, q # p PROVE BuildInv!(q)'
      BY <2>1
    <3>1. tree[q] \in Trees =>
            /\ tree'[q] \in Trees /\ tree'[q].files = tree[q].files
            /\ tree'[q].genuine = tree[q].genuine /\ tree'[q].manifest = tree[q].manifest
      BY <2>1, WithoutFacts
    <3> QED
      BY <2>1, <3>1
  <2>5. \A k \in Keys : Verified(k)' <=> Verified(k)
    BY <1>17, EntriesKept
  <2>6. AnswerInv'
    BY <2>1, <2>5
  <2>7. OkInv'
    BY <2>1
  <2>8. ManifestMeansVerified'
    BY <1>17, EntriesKept
  <2> QED
    BY <2>2, <2>3, <2>4, <2>6, <2>7, <2>8
<1>18. CASE UNCHANGED vars
  BY <1>18 DEF vars
<1> QED
  BY <1>1, <1>2, <1>3, <1>4, <1>5, <1>6, <1>7, <1>8, <1>9, <1>10, <1>11, <1>12, <1>13, <1>14, <1>15, <1>16, <1>17, <1>18
  DEF Next, Provision

\* Types hold in every reachable state of provision.
THEOREM TypeCorrect == Spec => []TypeOK
<1>1. CacheInv => TypeOK
  BY DEF CacheInv
<1> QED
  BY <1>1, CacheInvInit, CacheInvStep, PTL DEF Spec

\* An entry with a manifest is the complete tree of the pinned archive, for any
\* interleaving of provisioners, failures and crashes: validation may trust it.
THEOREM ManifestsTrusted == Spec => []ManifestMeansVerified
<1>1. CacheInv => ManifestMeansVerified
  BY DEF CacheInv
<1> QED
  BY <1>1, CacheInvInit, CacheInvStep, PTL DEF Spec

-----------------------------------------------------------------------------
(* provision implements the abstract cache.                                *)

verifiedKeys == {k \in Keys : Verified(k)}
servedProcs == {p \in Procs : Answered(p)}

\* Every step of the cache is one of the promised cache, or none.
LEMMA CacheStep ==
  CacheInv /\ [Next]_vars => [Promise!CacheNext]_<<verifiedKeys, servedProcs>>
<1> SUFFICES ASSUME CacheInv, [Next]_vars
             PROVE  [Promise!CacheNext]_<<verifiedKeys, servedProcs>>
  OBVIOUS
<1>type. TypeOK
  BY DEF CacheInv
<1>same. ASSUME \A k \in Keys : Verified(k)' <=> Verified(k) PROVE UNCHANGED verifiedKeys
  BY <1>same DEF verifiedKeys
<1>quiet. ASSUME NEW p \in Procs,
                 \/ OpenVersionDir(p) \/ AcquireLock(p) \/ Validate(p) \/ MakeTemp(p)
                 \/ Request(p) \/ Body(p) \/ MkdirRootfs(p) \/ Extract(p)
                 \/ RemoveArchive(p) \/ WriteManifest(p) \/ RemoveOld(p)
                 \/ SyncVersionDir(p) \/ Cleanup(p)
          PROVE  UNCHANGED <<verifiedKeys, servedProcs>>
  <2>1. UNCHANGED published
    BY <1>quiet
       DEF OpenVersionDir, AcquireLock, Validate, MakeTemp, Request, Body, MkdirRootfs,
           Extract, RemoveArchive, WriteManifest, RemoveOld, SyncVersionDir, Cleanup
  <2>2. UNCHANGED servedProcs
    BY <1>quiet, <1>type
       DEF OpenVersionDir, AcquireLock, Validate, MakeTemp, Request, Body, MkdirRootfs,
           Extract, RemoveArchive, WriteManifest, RemoveOld, SyncVersionDir, Cleanup,
           Step, servedProcs, Answered, TypeOK
  <2> QED
    BY <2>1, <2>2, <1>same DEF Verified
<1>publish. ASSUME NEW p \in Procs, Publish(p)
            PROVE  UNCHANGED <<verifiedKeys, servedProcs>> \/ Promise!CacheNext
  <2>1. UNCHANGED servedProcs
    BY <1>publish, <1>type DEF Publish, Step, servedProcs, Answered, TypeOK
  <2>2. CASE UNCHANGED published
    BY <2>1, <2>2, <1>same DEF Verified
  <2>3. CASE published' = [published EXCEPT ![KeyOf[p]] = tree[p]]
    <3>1. /\ tree[p] \in Trees /\ tree[p].files = "all" /\ tree[p].genuine
          /\ KeyOf[p] \in Keys
      BY <1>publish, CacheAssumption DEF CacheInv, BuildInv, Publish, Step
    <3>2. verifiedKeys' = verifiedKeys \cup {KeyOf[p]}
      BY <1>type, <2>3, <3>1, AbsentAssumption DEF verifiedKeys, Verified, TypeOK
    <3>3. Promise!Store(KeyOf[p])
      BY <2>1, <3>2 DEF Promise!Store, verifiedKeys, servedProcs
    <3> QED
      BY <3>1, <3>3 DEF Promise!CacheNext
  <2> QED
    BY <1>publish, <2>2, <2>3 DEF Publish
<1>unlock. ASSUME NEW p \in Procs, Unlock(p)
           PROVE  UNCHANGED <<verifiedKeys, servedProcs>> \/ Promise!CacheNext
  <2>1. UNCHANGED verifiedKeys
    BY <1>unlock, <1>same DEF Unlock, Verified
  <2>2. CASE ~ok[p]
    <3>1. UNCHANGED servedProcs
      BY <1>unlock, <1>type, <2>2 DEF Unlock, Step, servedProcs, Answered, TypeOK
    <3> QED
      BY <2>1, <3>1
  <2>3. CASE ok[p]
    <3>1. servedProcs' = servedProcs \cup {p}
      BY <1>unlock, <1>type, <2>3 DEF Unlock, Step, servedProcs, Answered, TypeOK
    <3>2. Verified(KeyOf[p]) /\ Size[KeyOf[p]] <= Limit[p] /\ KeyOf[p] \in Keys
      BY <1>unlock, <2>3, CacheAssumption DEF CacheInv, AnswerInv, Unlock, Step
    <3>3. Promise!Serve(p)
      BY <2>1, <3>1, <3>2 DEF Promise!Serve, verifiedKeys, servedProcs
    <3> QED
      BY <3>3 DEF Promise!CacheNext
  <2> QED
    BY <2>2, <2>3
<1>leave. ASSUME NEW p \in Procs, OpenRootfs(p) \/ Crash(p) \/ Restart(p)
          PROVE  UNCHANGED <<verifiedKeys, servedProcs>> \/ Promise!CacheNext
  <2>1. UNCHANGED verifiedKeys
    BY <1>leave, <1>type, <1>same, EntriesKept DEF Verified
  <2>2. UNCHANGED servedProcs \/ servedProcs' = servedProcs \ {p}
    BY <1>leave, <1>type DEF OpenRootfs, Step, Crash, Restart, servedProcs, Answered, TypeOK
  <2>3. CASE servedProcs' = servedProcs \ {p}
    BY <2>1, <2>3 DEF Promise!Leave, Promise!CacheNext, verifiedKeys, servedProcs
  <2> QED
    BY <2>1, <2>2, <2>3
<1>stutter. CASE UNCHANGED vars
  BY <1>stutter DEF vars, verifiedKeys, servedProcs, Answered, Verified
<1> QED
  BY <1>quiet, <1>publish, <1>unlock, <1>leave, <1>stutter DEF Next, Provision

\* provision, which spreads a download over many interruptible steps, implements
\* a cache whose entries appear verified in one step and are served only so.
THEOREM ProvisionImplementsCache == Spec => ImplementsCache
<1>1. Init => Promise!CacheInit
  <2> SUFFICES ASSUME Init PROVE Promise!CacheInit
    OBVIOUS
  <2>1. \A k \in Keys : ~Verified(k)
    BY AbsentAssumption DEF Init, Verified, Debris
  <2>2. \A p \in Procs : ~Answered(p)
    BY DEF Init, Answered
  <2> QED
    BY <2>1, <2>2 DEF Promise!CacheInit
<1> QED
  BY <1>1, CacheInvInit, CacheInvStep, CacheStep, PTL
  DEF Spec, ImplementsCache, Promise!CacheSpec, verifiedKeys, servedProcs

-----------------------------------------------------------------------------
(* Entries in use are not replaced.                                        *)

Building == {"makeTemp", "request", "body", "mkdir", "extract",
             "removeArchive", "writeManifest", "publish"}

\* While a process builds a tree it holds the lock, so the entry it found wanting
\* stays so; complete entries have their manifest, so they are found valid by
\* every request that could also extract them, unless the reading fails.
Undisturbed ==
  /\ \A p \in Procs : p \notin misread /\ pc[p] \in Building => ~Valid(KeyOf[p], p)
  /\ \A p, q \in Procs :
       p \notin misread /\ pc[p] \in {"publish", "removeOld"} /\ Answered(q) => KeyOf[p] # KeyOf[q]

InUseInv ==
  /\ CacheInv
  /\ \A k \in Keys :
       published[k] # Absent /\ published[k].files = "all" => published[k].manifest
  /\ Undisturbed

\* Nobody uses an entry at first.
LEMMA InUseInvInit == Init => InUseInv
<1> SUFFICES ASSUME Init PROVE InUseInv
  OBVIOUS
<1>1. CacheInv
  BY CacheInvInit
<1> QED
  BY <1>1, AbsentAssumption DEF Init, InUseInv, Undisturbed, Building, Debris, Answered

\* Publishing keeps the manifests, whatever was read.
LEMMA ManifestStep ==
  ASSUME InUseInv, [Next]_vars
  PROVE  \A k \in Keys :
           published'[k] # Absent /\ published'[k].files = "all" => published'[k].manifest
<1>inv. TypeOK
  BY DEF InUseInv, CacheInv
<1>1. ASSUME NEW p \in Procs, Publish(p)
      PROVE  \A k \in Keys :
               published'[k] # Absent /\ published'[k].files = "all" => published'[k].manifest
  <2>1. pc[p] = "publish"
    BY <1>1 DEF Publish, Step
  <2>2. tree[p].manifest
    BY <2>1 DEF InUseInv, CacheInv, BuildInv
  <2> QED
    BY <2>2, <1>1, <1>inv DEF InUseInv, Publish, TypeOK
<1>2. ASSUME NEW p \in Procs, OpenRootfs(p) \/ Crash(p) \/ Restart(p)
      PROVE  \A k \in Keys :
               published'[k] # Absent /\ published'[k].files = "all" => published'[k].manifest
  BY <1>2, <1>inv, EntriesKept DEF InUseInv
<1>3. \/ \E p \in Procs : Publish(p) \/ OpenRootfs(p) \/ Crash(p) \/ Restart(p)
      \/ UNCHANGED published
  BY DEF Next, Provision, vars, OpenVersionDir, AcquireLock, Validate, MakeTemp, Request, Body,
         MkdirRootfs, Extract, RemoveArchive, WriteManifest, RemoveOld, SyncVersionDir, Cleanup,
         Unlock
<1> QED
  BY <1>1, <1>2, <1>3 DEF InUseInv

\* Every step keeps the entries in use undisturbed.
LEMMA InUseInvStep == InUseInv /\ [Next]_vars => InUseInv'
<1> SUFFICES ASSUME InUseInv, [Next]_vars PROVE Undisturbed'
  BY ManifestStep, CacheInvStep DEF InUseInv
<1>undisturbed. Undisturbed
  BY DEF InUseInv
<1>inv. CacheInv /\ CacheInv' /\ TypeOK /\ LockInv /\ LockInv' /\ misread \subseteq Procs
  BY CacheInvStep DEF InUseInv, CacheInv, TypeOK
<1>quiet. ASSUME \A k \in Keys, p \in Procs : Valid(k, p)' <=> Valid(k, p),
                 \A p \in Procs :
                   /\ p \notin misread' /\ pc'[p] \in Building =>
                        (p \notin misread /\ pc[p] \in Building) \/ ~Valid(KeyOf[p], p)
                   /\ p \notin misread' /\ pc'[p] \in {"publish", "removeOld"} =>
                        \/ p \notin misread /\ pc[p] \in {"publish", "removeOld"}
                        \/ \A q \in Procs : Answered(q) => KeyOf[p] # KeyOf[q]
                   /\ Answered(p)' => Answered(p)
          PROVE  Undisturbed'
  BY <1>quiet, <1>undisturbed, CacheAssumption DEF Undisturbed
<1>1. ASSUME NEW p \in Procs,
             \/ OpenVersionDir(p) \/ AcquireLock(p) \/ Validate(p) \/ MakeTemp(p)
             \/ Request(p) \/ Body(p) \/ MkdirRootfs(p) \/ Extract(p)
             \/ RemoveArchive(p) \/ RemoveOld(p) \/ SyncVersionDir(p) \/ Cleanup(p)
             \/ OpenRootfs(p) \/ Crash(p) \/ Restart(p)
      PROVE  Undisturbed'
  <2>1. \A k \in Keys, q \in Procs : Valid(k, q)' <=> Valid(k, q)
    <3>1. CASE UNCHANGED published
      BY <3>1 DEF Valid
    <3>2. CASE OpenRootfs(p) \/ Crash(p) \/ Restart(p)
      BY <3>2, <1>inv, EntriesKept DEF Valid
    <3> QED
      BY <1>1, <3>1, <3>2
         DEF OpenVersionDir, AcquireLock, Validate, MakeTemp, Request, Body, MkdirRootfs,
             Extract, RemoveArchive, RemoveOld, SyncVersionDir, Cleanup
  <2>2. /\ \A q \in Procs : q # p => pc'[q] = pc[q] /\ (q \in misread' <=> q \in misread)
        /\ p \notin misread' /\ pc'[p] \in Building =>
             (p \notin misread /\ pc[p] \in Building) \/ ~Valid(KeyOf[p], p)
        /\ pc'[p] \notin {"publish", "removeOld"}
        /\ Answered(p)' => Answered(p)
    BY <1>1, <1>inv
       DEF OpenVersionDir, AcquireLock, Validate, MakeTemp, Request, Body, MkdirRootfs,
           Extract, RemoveArchive, RemoveOld, SyncVersionDir, Cleanup, OpenRootfs, Crash,
           Restart, Step, Building, Answered, TypeOK
  <2> QED
    BY <2>1, <2>2, <1>quiet DEF Answered
<1>2. ASSUME NEW p \in Procs, WriteManifest(p) PROVE Undisturbed'
  <2>1. /\ UNCHANGED <<published, misread>>
        /\ pc[p] = "writeManifest"
        /\ \A q \in Procs : q # p => pc'[q] = pc[q]
        /\ pc'[p] \in {"publish", "cleanup"}
    BY <1>2, <1>inv DEF WriteManifest, Step, TypeOK
  <2>2. p \notin misread => \A q \in Procs : Answered(q) => KeyOf[p] # KeyOf[q]
    <3>1. Size[KeyOf[p]] <= Limit[p] /\ (p \notin misread => ~Valid(KeyOf[p], p))
      BY <2>1, <1>undisturbed DEF Undisturbed, InUseInv, CacheInv, BuildInv, Building
    <3>2. \A q \in Procs : Answered(q) => Verified(KeyOf[q])
      BY DEF InUseInv, CacheInv, AnswerInv, Answered
    <3> QED
      BY <3>1, <3>2, CacheAssumption DEF InUseInv, Valid, Verified
  <2>3. \A q \in Procs : /\ pc'[q] \in Building => pc[q] \in Building
                         /\ Answered(q)' => Answered(q)
    BY <2>1 DEF Building, Answered
  <2>4. \A k \in Keys, q \in Procs : Valid(k, q)' <=> Valid(k, q)
    BY <2>1 DEF Valid
  <2> QED
    BY <2>1, <2>2, <2>3, <2>4, <1>quiet
<1>3. ASSUME NEW p \in Procs, Publish(p) PROVE Undisturbed'
  <2>1. /\ pc[p] = "publish" /\ UNCHANGED misread
        /\ \A q \in Procs : q # p => pc'[q] = pc[q] /\ pc[q] \notin Critical
        /\ pc'[p] \in {"syncDir", "removeOld", "cleanup"}
    BY <1>3, <1>inv, CacheAssumption DEF Publish, Step, TypeOK, LockInv, Critical
  <2>2. \A q \in Procs : pc'[q] \notin Building
    BY <2>1 DEF Building, Critical
  <2> QED
    BY <2>1, <2>2, <1>undisturbed DEF Undisturbed, Critical, Answered
<1>4. ASSUME NEW p \in Procs, Unlock(p) PROVE Undisturbed'
  <2>1. /\ pc'[p] \in {"returned", "failed"}
        /\ \A q \in Procs : q # p => pc'[q] = pc[q] /\ pc[q] \notin Critical
    BY <1>4, <1>inv, CacheAssumption DEF Unlock, Step, TypeOK, LockInv, Critical
  <2>2. \A q \in Procs : pc'[q] \notin Critical
    BY <2>1 DEF Critical
  <2> QED
    BY <2>2 DEF Undisturbed, Building, Critical
<1>5. CASE UNCHANGED vars
  BY <1>5, <1>undisturbed DEF vars, Undisturbed, Valid, Answered
<1> QED
  BY <1>1, <1>2, <1>3, <1>4, <1>5 DEF Next, Provision

\* A process that could read the entry never exchanges it in publishReplacement
\* under another one that was answered with it, whatever limits it comes with.
THEOREM EntriesInUseStay == Spec => []InUseNotReplaced
<1>1. InUseInv => InUseNotReplaced
  BY DEF InUseInv, Undisturbed, InUseNotReplaced
<1>2. InUseInv /\ [Next]_vars => InUseInv'
  BY InUseInvStep
<1> QED
  BY <1>1, <1>2, InUseInvInit, PTL DEF Spec

\* Of the processes that wait for the lock with the same request only the first
\* downloads: the others find its entry valid, if they can read it.
THEOREM DownloadsOnce == Spec => []NoNeedlessDownload
<1>1. InUseInv => NoNeedlessDownload
  BY DEF InUseInv, Undisturbed, Building, NoNeedlessDownload
<1>2. InUseInv /\ [Next]_vars => InUseInv'
  BY InUseInvStep
<1> QED
  BY <1>1, <1>2, InUseInvInit, PTL DEF Spec

-----------------------------------------------------------------------------
(* The tree a sandbox runs on.                                             *)

ServedStep ==
  \A p \in Procs :
    pc'[p] = "using" /\ (pc[p] = "using" => RunsOnEntry(p)) =>
      RunsOnEntry(p)' \/ \E q \in Procs : KeyOf[q] = KeyOf[p] /\ ExchangesUnread(q)

\* No step takes the tree of a sandbox from its name, but an exchange by a process
\* that could not read it.
LEMMA TreeKept == InUseInv /\ InUseInv' /\ [Next]_vars => [ServedStep]_vars
<1> SUFFICES ASSUME InUseInv, InUseInv', Next,
                    NEW p \in Procs, pc'[p] = "using", pc[p] = "using" => RunsOnEntry(p),
                    ~\E q \in Procs : KeyOf[q] = KeyOf[p] /\ ExchangesUnread(q)
             PROVE  RunsOnEntry(p)'
  BY DEF ServedStep
<1>inv. TypeOK /\ Undisturbed /\ KeyOf[p] \in Keys
  BY CacheAssumption DEF InUseInv, CacheInv, TypeOK
<1>1. Verified(KeyOf[p])' /\ Size[KeyOf[p]] <= Limit[p]
  BY DEF InUseInv, CacheInv, AnswerInv
<1> SUFFICES p \in published'[KeyOf[p]].users
  BY <1>1 DEF RunsOnEntry
<1>2. pc[p] = "using" =>
        published[KeyOf[p]] # Absent /\ p \in published[KeyOf[p]].users
  BY DEF RunsOnEntry, Verified
<1>3. ASSUME NEW q \in Procs, Publish(q) PROVE p \in published'[KeyOf[p]].users
  <2>1. pc[q] = "publish" /\ pc'[q] \in {"syncDir", "removeOld", "cleanup"} /\ pc[p] = "using"
    BY <1>3, <1>inv DEF Publish, Step, TypeOK
  <2>2. KeyOf[q] # KeyOf[p]
    <3>1. q \in misread => KeyOf[q] # KeyOf[p]
      BY <2>1 DEF ExchangesUnread
    <3>2. q \notin misread => KeyOf[q] # KeyOf[p]
      BY <2>1, <1>inv DEF Undisturbed, Answered
    <3> QED
      BY <3>1, <3>2
  <2>3. published'[KeyOf[p]] = published[KeyOf[p]]
    BY <1>3, <2>2, <1>inv DEF Publish, TypeOK
  <2> QED
    BY <1>2, <2>1, <2>3
<1>4. ASSUME NEW q \in Procs, OpenRootfs(q) PROVE p \in published'[KeyOf[p]].users
  <2> DEFINE opened == [published[KeyOf[q]] EXCEPT !.users = @ \cup {q}]
  <2>1. CASE Step(q, "returned", "failed") /\ UNCHANGED published
    <3>1. pc[p] = "using"
      BY <2>1, <1>inv DEF Step, TypeOK
    <3> QED
      BY <1>2, <2>1, <3>1
  <2>2. CASE published[KeyOf[q]] # Absent /\ published' = [published EXCEPT ![KeyOf[q]] = opened]
    <3>1. published[KeyOf[q]] \in Trees /\ KeyOf[q] \in Keys
      BY <2>2, CacheAssumption, <1>inv DEF TypeOK
    <3>2. opened.users = published[KeyOf[q]].users \cup {q}
      BY <3>1 DEF Trees
    <3> HIDE DEF opened
    <3>3. published'[KeyOf[q]] = opened
      BY <2>2, <3>1, <1>inv DEF TypeOK
    <3>4. p = q \/ pc[p] = "using"
      BY <1>4, <1>inv DEF OpenRootfs, Step, TypeOK
    <3>5. KeyOf[q] # KeyOf[p] => published'[KeyOf[p]] = published[KeyOf[p]]
      BY <2>2, <1>inv DEF TypeOK
    <3> QED
      BY <1>2, <3>2, <3>3, <3>4, <3>5
  <2> QED
    BY <1>4, <2>1, <2>2 DEF OpenRootfs
<1>5. ASSUME NEW q \in Procs, Crash(q) \/ Restart(q) PROVE p \in published'[KeyOf[p]].users
  <2>1. q # p /\ pc[p] = "using"
    BY <1>5, <1>inv DEF Crash, Restart, TypeOK
  <2>2. published'[KeyOf[p]] = Without(published[KeyOf[p]], q)
    BY <1>5, <1>inv DEF Crash, Restart
  <2>3. published[KeyOf[p]] \in Trees \cup {Absent}
    BY <1>inv DEF TypeOK
  <2> QED
    BY <1>2, <2>1, <2>2, <2>3, WithoutFacts
<1>6. ASSUME NEW q \in Procs,
             AcquireLock(q) \/ (Provision(q) /\ ~Publish(q))
      PROVE  p \in published'[KeyOf[p]].users
  <2>1. UNCHANGED published
    BY <1>6 DEF Provision, OpenVersionDir, AcquireLock, Validate, MakeTemp, Request, Body,
         MkdirRootfs, Extract, RemoveArchive, WriteManifest, RemoveOld, SyncVersionDir, Cleanup,
         Unlock
  <2>2. pc[p] = "using"
    BY <1>6, <1>inv DEF Provision, OpenVersionDir, AcquireLock, Validate, MakeTemp, Request, Body,
         MkdirRootfs, Extract, RemoveArchive, WriteManifest, RemoveOld, SyncVersionDir, Cleanup,
         Unlock, Step, TypeOK
  <2> QED
    BY <1>2, <2>1, <2>2
<1> QED
  BY <1>3, <1>4, <1>5, <1>6 DEF Next

\* The tree that a sandbox found when it opened the path stays the entry, complete
\* and verified, while it runs, for any number of other processes that provision
\* the same key, fail and die, but for those that could not read it (provision's
\* validation takes a failed reading for an invalid entry).
THEOREM ServedEntriesVerified == Spec => ServedVerified
<1>1. InUseInv /\ [Next]_vars => InUseInv'
  BY InUseInvStep
<1> QED
  BY <1>1, InUseInvInit, TreeKept, PTL DEF Spec, ServedVerified, ServedStep

-----------------------------------------------------------------------------
(* Temporary directories.                                                  *)

\* There is none before it is made, and none once the removal went well: with
\* one left there is an error to return, or nobody to return it to.
TempInv ==
  /\ CacheInv
  /\ \A p \in Procs :
       tempDir[p] =>
         \/ pc[p] \notin {"open", "lock", "validate", "makeTemp", "unlock", "returned", "using"}
         \/ pc[p] = "unlock" /\ ~ok[p]

\* Every step keeps them so.
LEMMA TempInvStep == TempInv /\ [Next]_vars => TempInv'
<1> SUFFICES ASSUME TempInv, [Next]_vars PROVE TempInv'
  OBVIOUS
<1>inv. CacheInv' /\ TypeOK
  BY CacheInvStep DEF TempInv, CacheInv
<1>1. ASSUME NEW p \in Procs,
             \/ OpenVersionDir(p) \/ AcquireLock(p) \/ Validate(p) \/ MakeTemp(p)
             \/ Request(p) \/ Body(p) \/ MkdirRootfs(p) \/ Extract(p)
      PROVE  TempInv'
  BY <1>1, <1>inv
     DEF TempInv, TypeOK, Step, OpenVersionDir, AcquireLock, Validate, MakeTemp, Request,
         Body, MkdirRootfs, Extract
<1>2. ASSUME NEW p \in Procs,
             \/ RemoveArchive(p) \/ WriteManifest(p) \/ Publish(p) \/ RemoveOld(p)
             \/ SyncVersionDir(p) \/ OpenRootfs(p) \/ Crash(p)
      PROVE  TempInv'
  BY <1>2, <1>inv
     DEF TempInv, TypeOK, Step, RemoveArchive, WriteManifest, Publish, RemoveOld,
         SyncVersionDir, OpenRootfs, Crash
<1>3. ASSUME NEW p \in Procs, Cleanup(p) \/ Unlock(p) \/ Restart(p) PROVE TempInv'
  BY <1>3, <1>inv DEF TempInv, TypeOK, Step, Cleanup, Unlock, Restart
<1>4. CASE UNCHANGED vars
  BY <1>4, <1>inv DEF vars, TempInv
<1> QED
  BY <1>1, <1>2, <1>3, <1>4 DEF Next, Provision

\* A sandbox runs only when its provisioning left no temporary directory: each
\* return after its creation removes it, and a failed removal is an error.
THEOREM NoTempBehind == Spec => []NoTempLeft
<1>1. Init => TempInv
  BY CacheInvInit DEF Init, TempInv
<1>2. TempInv => NoTempLeft
  BY DEF TempInv, NoTempLeft, Answered
<1> QED
  BY <1>1, <1>2, TempInvStep, PTL DEF Spec
=============================================================================
