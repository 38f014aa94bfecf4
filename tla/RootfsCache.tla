----------------------------- MODULE RootfsCache -----------------------------
(***************************************************************************)
(* The managed rootfs cache (rootfs/rootfs.go, rootfs/secure.go): several  *)
(* sandbox processes run Provisioner.provision in one version directory,   *)
(* behind an flock, and each may fail at any system call or be killed at   *)
(* any moment and started again.  A process that was answered with the     *)
(* path of its entry opens that path later, when its sandbox is set up,    *)
(* and runs on the tree it found there whatever becomes of the name.       *)
(*                                                                         *)
(* A directory tree is abstracted to what the code's decisions depend on:  *)
(* how much of the archive was extracted, whether the archive was the one  *)
(* with the pinned digest, and whether it has a manifest for this release. *)
(* It also carries the sandboxes that run on it, which tells it from       *)
(* another tree that is put under its name later.                          *)
(* Size[k] and Limit[p] stand for the three statistics of an archive and   *)
(* the three limits of a request, which are compared alike.                *)
(***************************************************************************)
EXTENDS Naturals

CONSTANTS
  Procs,        \* sandbox processes
  Keys,         \* cache keys of one version directory
  KeyOf,        \* KeyOf[p], the key that p asks for
  Size,         \* Size[k], what extracting the archive of k takes
  Limit,        \* Limit[p], what p allows an archive to take
  NoProc,       \* the lock is free
  Absent        \* no such directory

ASSUME CacheAssumption ==
  /\ KeyOf \in [Procs -> Keys]
  /\ Size \in [Keys -> Nat]
  /\ Limit \in [Procs -> Nat]
  /\ NoProc \notin Procs

Trees == [files : {"none", "some", "all"}, genuine : BOOLEAN, manifest : BOOLEAN,
          users : SUBSET Procs]

ASSUME AbsentAssumption == Absent \notin Trees

\* What may be found under a key's name that no finished run put there.
Debris == [files |-> "some", genuine |-> FALSE, manifest |-> FALSE, users |-> {}]
EmptyTree == [files |-> "none", genuine |-> FALSE, manifest |-> FALSE, users |-> {}]

VARIABLES
  pc,          \* pc[p], the next step of provision
  ok,          \* ok[p], whether provision is about to return without error
  lock,        \* the holder of the flock on .lock
  tempDir,     \* tempDir[p], whether the temporary directory of p exists
  archive,     \* archive[p], the downloaded file in it
  tree,        \* tree[p], the directory rootfs in it, or Absent
  published,   \* published[k], the entry of k in the version directory
  misread      \* history: the processes in provision whose reading of a valid entry
               \* failed, with EIO or EMFILE say

vars == <<pc, ok, lock, tempDir, archive, tree, published, misread>>

Archives == {"none", "partial", "pinned", "other"}

Labels == {"open", "lock", "validate", "makeTemp", "request", "body", "mkdir",
           "extract", "removeArchive", "writeManifest", "publish", "removeOld",
           "syncDir", "cleanup", "unlock", "returned", "using", "failed", "crashed"}

Init ==
  /\ pc = [p \in Procs |-> "open"]
  /\ ok = [p \in Procs |-> FALSE]
  /\ lock = NoProc
  /\ tempDir = [p \in Procs |-> FALSE]
  /\ archive = [p \in Procs |-> "none"]
  /\ tree = [p \in Procs |-> Absent]
  /\ published \in [Keys -> {Absent, Debris}]
  /\ misread = {}

Step(p, from, to) == pc[p] = from /\ pc' = [pc EXCEPT ![p] = to]

-----------------------------------------------------------------------------
(* provision, up to the lock.                                              *)

\* ensureManagedVersionDir; two processes may both create a directory.
OpenVersionDir(p) ==
  /\ \/ Step(p, "open", "lock")
     \/ Step(p, "open", "failed")
  /\ UNCHANGED <<ok, lock, tempDir, archive, tree, published, misread>>

\* Mutant: a shared lock, which several processes hold at once.
AcquireLockShared(p) ==
  /\ \/ lock' = p /\ Step(p, "lock", "validate")
     \/ Step(p, "lock", "failed") /\ UNCHANGED lock
  /\ UNCHANGED <<ok, tempDir, archive, tree, published, misread>>

\* Mutant: the holder of the lock is recorded by the key it asks for.
AcquireLockByKey(p) ==
  /\ \/ lock = NoProc /\ lock' = KeyOf[p] /\ Step(p, "lock", "validate")
     \/ Step(p, "lock", "failed") /\ UNCHANGED lock
  /\ UNCHANGED <<ok, tempDir, archive, tree, published, misread>>

\* acquireLockAt: flock(LOCK_EX) waits until the file is free.
AcquireLock(p) ==
  /\ \/ lock = NoProc /\ lock' = p /\ Step(p, "lock", "validate")
     \/ Step(p, "lock", "failed") /\ UNCHANGED lock
  /\ UNCHANGED <<ok, tempDir, archive, tree, published, misread>>

\* Mutant: the limits are not compared with the statistics in the manifest.
ValidAnySize(k, p) ==
  /\ published[k] # Absent
  /\ published[k].manifest

\* validatePublishedRootfsFD looks at the manifest and at nothing else.
Valid(k, p) ==
  /\ published[k] # Absent
  /\ published[k].manifest
  /\ Size[k] <= Limit[p]

\* A valid entry is returned as it is; any error, of whatever cause, leads to a
\* new download.
Validate(p) ==
  /\ \/ /\ Valid(KeyOf[p], p)
        /\ ok' = [ok EXCEPT ![p] = TRUE]
        /\ UNCHANGED misread
        /\ Step(p, "validate", "unlock")
     \/ /\ misread' = IF Valid(KeyOf[p], p) THEN misread \cup {p} ELSE misread
        /\ UNCHANGED ok
        /\ Step(p, "validate", "makeTemp")
  /\ UNCHANGED <<lock, tempDir, archive, tree, published>>

-----------------------------------------------------------------------------
(* Building the new tree in a temporary directory.  From its creation on   *)
(* every return runs the deferred removal first.                           *)

MakeTemp(p) ==
  /\ \/ Step(p, "makeTemp", "request") /\ tempDir' = [tempDir EXCEPT ![p] = TRUE]
     \/ Step(p, "makeTemp", "unlock") /\ UNCHANGED tempDir
  /\ UNCHANGED <<ok, lock, archive, tree, published, misread>>

\* download: the request is answered with status 200 and the file created.
Request(p) ==
  /\ \/ Step(p, "request", "body") /\ archive' = [archive EXCEPT ![p] = "partial"]
     \/ Step(p, "request", "cleanup") /\ UNCHANGED archive
  /\ UNCHANGED <<ok, lock, tempDir, tree, published, misread>>

\* Mutant: what came is kept without a look at its digest.
BodyUnchecked(p) ==
  /\ \E received \in {"partial", "pinned", "other"} :
       Step(p, "body", "mkdir") /\ archive' = [archive EXCEPT ![p] = received]
  /\ UNCHANGED <<ok, lock, tempDir, tree, published, misread>>

\* download: the body was read to its end or broke off; only a file with the
\* pinned digest is kept.
Body(p) ==
  /\ \E received \in {"partial", "pinned", "other"} :
       IF received = "pinned"
       THEN Step(p, "body", "mkdir") /\ archive' = [archive EXCEPT ![p] = received]
       ELSE Step(p, "body", "cleanup") /\ archive' = [archive EXCEPT ![p] = "none"]
  /\ UNCHANGED <<ok, lock, tempDir, tree, published, misread>>

MkdirRootfs(p) ==
  /\ \/ Step(p, "mkdir", "extract") /\ tree' = [tree EXCEPT ![p] = EmptyTree]
     \/ Step(p, "mkdir", "cleanup") /\ UNCHANGED tree
  /\ UNCHANGED <<ok, lock, tempDir, archive, published, misread>>

\* Mutant: extraction ignores the limits of the request.
ExtractAnySize(p) ==
  /\ pc[p] = "extract"
  /\ \/ /\ tree' = [tree EXCEPT ![p] =
             [EmptyTree EXCEPT !.files = "all", !.genuine = (archive[p] = "pinned")]]
        /\ Step(p, "extract", "removeArchive")
     \/ /\ Step(p, "extract", "cleanup")
        /\ UNCHANGED tree
  /\ UNCHANGED <<ok, lock, tempDir, archive, published, misread>>

\* extractArchiveWithProgress: all entries are written, or an error (one of the
\* limits, a conflict, a failed write) leaves some of them.
Extract(p) ==
  /\ pc[p] = "extract"
  /\ \/ /\ tree[p].files = "none"
        /\ tree' = [tree EXCEPT ![p] =
             [EmptyTree EXCEPT !.files = "some", !.genuine = (archive[p] = "pinned")]]
        /\ UNCHANGED pc
     \/ /\ tree[p].files = "some"
        /\ Size[KeyOf[p]] <= Limit[p]
        /\ tree' = [tree EXCEPT ![p].files = "all"]
        /\ Step(p, "extract", "removeArchive")
     \/ /\ Step(p, "extract", "cleanup")
        /\ UNCHANGED tree
  /\ UNCHANGED <<ok, lock, tempDir, archive, published, misread>>

RemoveArchive(p) ==
  /\ \/ Step(p, "removeArchive", "writeManifest") /\ archive' = [archive EXCEPT ![p] = "none"]
     \/ Step(p, "removeArchive", "cleanup") /\ UNCHANGED archive
  /\ UNCHANGED <<ok, lock, tempDir, tree, published, misread>>

\* writeManifest, and the fsync of the tree's directory.
WriteManifest(p) ==
  /\ \/ Step(p, "writeManifest", "publish") /\ tree' = [tree EXCEPT ![p].manifest = TRUE]
     \/ Step(p, "writeManifest", "cleanup") /\ UNCHANGED tree
  /\ UNCHANGED <<ok, lock, tempDir, archive, published, misread>>

-----------------------------------------------------------------------------
(* publishReplacement and the end of provision.                            *)

\* Mutant: the old entry is taken away first and the new one renamed after it.
PublishInTwoSteps(p) ==
  LET k == KeyOf[p] IN
  /\ \/ /\ published[k] = Absent
        /\ published' = [published EXCEPT ![k] = tree[p]]
        /\ tree' = [tree EXCEPT ![p] = Absent]
        /\ Step(p, "publish", "syncDir")
     \/ /\ published[k] # Absent
        /\ published' = [published EXCEPT ![k] = Absent]
        /\ UNCHANGED <<pc, tree>>
        /\ pc[p] = "publish"
  /\ UNCHANGED <<ok, lock, tempDir, archive, misread>>

\* renameat2 puts the tree under its key: NOREPLACE where nothing was, EXCHANGE
\* where the old entry comes back into the temporary directory.
Publish(p) ==
  LET k == KeyOf[p] IN
  /\ \/ /\ published[k] = Absent
        /\ published' = [published EXCEPT ![k] = tree[p]]
        /\ tree' = [tree EXCEPT ![p] = Absent]
        /\ Step(p, "publish", "syncDir")
     \/ /\ published[k] # Absent
        /\ published' = [published EXCEPT ![k] = tree[p]]
        /\ tree' = [tree EXCEPT ![p] = published[k]]
        /\ Step(p, "publish", "removeOld")
     \/ /\ Step(p, "publish", "cleanup")
        /\ UNCHANGED <<published, tree>>
  /\ UNCHANGED <<ok, lock, tempDir, archive, misread>>

\* What an error leaves of the old tree goes with the temporary directory.
RemoveOld(p) ==
  /\ \/ Step(p, "removeOld", "syncDir") /\ tree' = [tree EXCEPT ![p] = Absent]
     \/ Step(p, "removeOld", "cleanup") /\ UNCHANGED tree
  /\ UNCHANGED <<ok, lock, tempDir, archive, published, misread>>

SyncVersionDir(p) ==
  /\ Step(p, "syncDir", "cleanup")
  /\ \/ ok' = [ok EXCEPT ![p] = TRUE]
     \/ UNCHANGED ok
  /\ UNCHANGED <<lock, tempDir, archive, tree, published, misread>>

\* Mutant: an error of the deferred removal is dropped.
CleanupSilent(p) ==
  /\ Step(p, "cleanup", "unlock")
  /\ \/ /\ tempDir' = [tempDir EXCEPT ![p] = FALSE]
        /\ archive' = [archive EXCEPT ![p] = "none"]
        /\ tree' = [tree EXCEPT ![p] = Absent]
     \/ UNCHANGED <<tempDir, archive, tree>>
  /\ UNCHANGED <<ok, lock, published, misread>>

\* The deferred removeManagedTreeAt; its error turns success into failure.
Cleanup(p) ==
  /\ Step(p, "cleanup", "unlock")
  /\ \/ /\ tempDir' = [tempDir EXCEPT ![p] = FALSE]
        /\ archive' = [archive EXCEPT ![p] = "none"]
        /\ tree' = [tree EXCEPT ![p] = Absent]
        /\ UNCHANGED ok
     \/ /\ ok' = [ok EXCEPT ![p] = FALSE]
        /\ UNCHANGED <<tempDir, archive, tree>>
  /\ UNCHANGED <<lock, published, misread>>

\* Mutant: the lock file stays open.
UnlockForgotten(p) ==
  /\ Step(p, "unlock", IF ok[p] THEN "returned" ELSE "failed")
  /\ misread' = misread \ {p}
  /\ UNCHANGED <<ok, lock, tempDir, archive, tree, published>>

\* The deferred lock.Close, and the return to Parent.
Unlock(p) ==
  /\ lock' = NoProc
  /\ Step(p, "unlock", IF ok[p] THEN "returned" ELSE "failed")
  /\ misread' = misread \ {p}
  /\ UNCHANGED <<ok, tempDir, archive, tree, published>>

-----------------------------------------------------------------------------
(* The sandbox.                                                            *)

\* IsolateRootFS of the child opens the path that provision returned, some time
\* after the lock was let go; its root stays on the tree that was found there.
OpenRootfs(p) ==
  LET k == KeyOf[p] IN
  /\ \/ /\ published[k] # Absent
        /\ published' = [published EXCEPT ![k].users = @ \cup {p}]
        /\ Step(p, "returned", "using")
     \/ /\ Step(p, "returned", "failed")
        /\ UNCHANGED published
  /\ UNCHANGED <<ok, lock, tempDir, archive, tree, misread>>

-----------------------------------------------------------------------------
(* The environment.                                                        *)

\* The mounts of a sandbox go with its last process.
Without(t, p) == IF t = Absent THEN Absent ELSE [t EXCEPT !.users = @ \ {p}]

\* The process dies, its sandbox with it; the kernel drops its lock and its files
\* stay.
Crash(p) ==
  /\ pc[p] \notin {"failed", "crashed"}
  /\ pc' = [pc EXCEPT ![p] = "crashed"]
  /\ ok' = [ok EXCEPT ![p] = FALSE]
  /\ lock' = IF lock = p THEN NoProc ELSE lock
  /\ tree' = [q \in Procs |-> Without(tree[q], p)]
  /\ published' = [k \in Keys |-> Without(published[k], p)]
  /\ misread' = misread \ {p}
  /\ UNCHANGED <<tempDir, archive>>

\* The sandbox ended, or the user runs it again after an error: the next process
\* gets a temporary directory of a new name, and nobody touches the old one.
Restart(p) ==
  /\ pc[p] \in {"using", "failed", "crashed"}
  /\ pc' = [pc EXCEPT ![p] = "open"]
  /\ ok' = [ok EXCEPT ![p] = FALSE]
  /\ tempDir' = [tempDir EXCEPT ![p] = FALSE]
  /\ archive' = [archive EXCEPT ![p] = "none"]
  /\ tree' = [q \in Procs |-> IF q = p THEN Absent ELSE Without(tree[q], p)]
  /\ published' = [k \in Keys |-> Without(published[k], p)]
  /\ UNCHANGED <<lock, misread>>

Provision(p) ==
  \/ OpenVersionDir(p) \/ Validate(p) \/ MakeTemp(p) \/ Request(p) \/ Body(p)
  \/ MkdirRootfs(p) \/ Extract(p) \/ RemoveArchive(p) \/ WriteManifest(p)
  \/ Publish(p) \/ RemoveOld(p) \/ SyncVersionDir(p) \/ Cleanup(p) \/ Unlock(p)

Next ==
  \E p \in Procs : AcquireLock(p) \/ Provision(p) \/ OpenRootfs(p) \/ Crash(p) \/ Restart(p)

Spec == Init /\ [][Next]_vars

\* A process keeps running until it is killed, a server that answered finishes
\* the body (there is no timeout on it) and flock serves its waiters in turn.
Fairness ==
  \A p \in Procs : WF_vars(Provision(p)) /\ SF_vars(AcquireLock(p) /\ lock' = p)

FairSpec == Spec /\ Fairness

-----------------------------------------------------------------------------
(* Properties.                                                             *)

\* Every variable of provision and of the version directory has its type.
TypeOK ==
  /\ pc \in [Procs -> Labels]
  /\ ok \in [Procs -> BOOLEAN]
  /\ lock \in Procs \cup {NoProc}
  /\ tempDir \in [Procs -> BOOLEAN]
  /\ archive \in [Procs -> Archives]
  /\ tree \in [Procs -> Trees \cup {Absent}]
  /\ published \in [Keys -> Trees \cup {Absent}]
  /\ misread \subseteq Procs

Verified(k) ==
  published[k] # Absent /\ published[k].files = "all" /\ published[k].genuine

\* provision has answered p with the path of its entry.
Answered(p) == pc[p] \in {"returned", "using"}

\* validatePublishedRootfsFD accepts an entry on the word of its manifest: that
\* is enough, for an entry with a manifest is always the complete tree of the
\* archive with the pinned digest, whatever was interrupted on the way.
ManifestMeansVerified ==
  \A k \in Keys : published[k] # Absent /\ published[k].manifest => Verified(k)

\* The tree that p opened is the entry still, complete, verified and within limits.
RunsOnEntry(p) ==
  /\ Verified(KeyOf[p])
  /\ p \in published[KeyOf[p]].users
  /\ Size[KeyOf[p]] <= Limit[p]

\* p puts its tree in place of one that it failed to read.
ExchangesUnread(p) == p \in misread /\ pc[p] = "publish" /\ pc'[p] # "publish"

\* A sandbox starts on a complete and verified tree, however long after the answer
\* it opens it, and that very tree stays so and in its place while the sandbox
\* runs, although other processes go on provisioning the same key.  The code has
\* one exception: a process that could not read the entry, valid as it was,
\* downloads again and exchanges and deletes the tree in use.
ServedVerified ==
  [][\A p \in Procs :
       pc'[p] = "using" /\ (pc[p] = "using" => RunsOnEntry(p)) =>
         RunsOnEntry(p)' \/ \E q \in Procs : KeyOf[q] = KeyOf[p] /\ ExchangesUnread(q)]_vars

\* provision leaves a temporary directory behind only with an error or a crash.
NoTempLeft == \A p \in Procs : Answered(p) => ~tempDir[p]

\* A process that could read the entry is never about to exchange it under a
\* sandbox that uses it: a request whose limits reject it fails in extraction.
InUseNotReplaced ==
  \A p, q \in Procs :
    p \notin misread /\ pc[p] \in {"publish", "removeOld"} /\ Answered(q) => KeyOf[p] # KeyOf[q]

\* A process that could read the entry never begins a download for one that is
\* valid by then: of several processes waiting for the lock one downloads.
NoNeedlessDownload ==
  \A p \in Procs :
    p \notin misread /\ pc[p] \in {"request", "body", "publish"} => ~Valid(KeyOf[p], p)

\* The promise of Resolve and ResolveRemote, which return a path: it is about what
\* is found under a key, not about the tree somebody opened there before.
Promise == INSTANCE VerifiedCache WITH
  verified <- {k \in Keys : Verified(k)},
  served <- {p \in Procs : Answered(p)}

\* provision answers only with complete, verified entries, and such an entry
\* never becomes anything less.
ImplementsCache == Promise!CacheSpec

\* Every process that asks gets an answer unless it is killed: nobody waits for
\* the lock for ever, also when holders are killed and started again.
EveryRequestAnswered ==
  \A p \in Procs : pc[p] = "open" ~> Answered(p) \/ pc[p] \in {"failed", "crashed"}
=============================================================================
