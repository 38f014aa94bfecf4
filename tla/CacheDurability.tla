--------------------------- MODULE CacheDurability ---------------------------
(***************************************************************************)
(* The managed rootfs cache across a loss of power (rootfs/rootfs.go,      *)
(* provision).  RootfsCache has the processes, their lock and their        *)
(* crashes; there the disk keeps what was written.  Here one process       *)
(* provisions, and what it wrote survives a loss of power only when it was *)
(* flushed, or when the kernel happened to write it back before.           *)
(*                                                                         *)
(* A tree has files at its top and files in directories below; a flush of  *)
(* its directory keeps the names at the top, a flush of a file its bytes.  *)
(* disk is what processes see, kept what a loss of power leaves of it.     *)
(***************************************************************************)
EXTENDS Naturals, FiniteSets

CONSTANTS
  Top,         \* files at the top of the archive
  Deep,        \* files in its directories
  MaxAttempts  \* bound: trees extracted

ASSUME FilesAssumption == Top \cap Deep = {} /\ "manifest" \notin Top \cup Deep
ASSUME AttemptsAssumption == MaxAttempts \in Nat

VARIABLES
  stage,      \* the next step of provision
  attempt,    \* trees extracted so far
  disk,       \* what processes see
  kept,       \* what a loss of power leaves of it
  unflushed   \* history: a run failed or died between its rename and its flush
              \* of the version directory, and nothing has made up for that since

powerVars == <<stage, attempt, disk, kept, unflushed>>

Files == Top \cup Deep
Names == Files \cup {"manifest"}
Trees == 1..MaxAttempts

\* Published: nothing, an entry that does not match the release, or a tree.
None == 0
Stale == MaxAttempts + 1
Targets == {None, Stale} \cup Trees

EmptyTree == [names |-> {}, bytes |-> {}]

PowerInit ==
  /\ stage = "validate" /\ attempt = 0
  /\ \E t \in {None, Stale} :
       disk = [target |-> t, trees |-> [i \in Trees |-> EmptyTree]]
  /\ kept = disk
  /\ unflushed = FALSE

-----------------------------------------------------------------------------
(* provision, under the lock.                                              *)

\* validatePublishedRootfsFD looks at the manifest only, not at the files.
Accepts(d) ==
  d.target \in Trees /\ "manifest" \in d.trees[d.target].names \cap d.trees[d.target].bytes

Validate ==
  /\ stage = "validate"
  /\ IF Accepts(disk) THEN stage' = "returned" /\ UNCHANGED attempt
     ELSE attempt < MaxAttempts /\ attempt' = attempt + 1 /\ stage' = "extract"
  /\ UNCHANGED <<disk, kept, unflushed>>

\* extractRegularFile creates, writes and closes; it does not flush.
ExtractFile(f) ==
  /\ stage = "extract" /\ f \notin disk.trees[attempt].names
  /\ disk' = [disk EXCEPT !.trees[attempt] = [names |-> @.names \cup {f}, bytes |-> @.bytes \cup {f}]]
  /\ UNCHANGED <<stage, attempt, kept, unflushed>>

\* extractArchiveWithProgress returns.
Extracted ==
  /\ stage = "extract" /\ disk.trees[attempt].names = Files /\ stage' = "manifest"
  /\ UNCHANGED <<attempt, disk, kept, unflushed>>

\* writeManifest: create and write,
WriteManifest ==
  /\ stage = "manifest" /\ stage' = "syncManifest"
  /\ disk' = [disk EXCEPT !.trees[attempt] =
       [names |-> @.names \cup {"manifest"}, bytes |-> @.bytes \cup {"manifest"}]]
  /\ UNCHANGED <<attempt, kept, unflushed>>

\* Mutant: the manifest is closed without a flush.
SyncManifestNot ==
  /\ stage = "syncManifest" /\ stage' = "syncRootfs"
  /\ UNCHANGED <<attempt, disk, kept, unflushed>>

\* flush the manifest,
SyncManifest ==
  /\ stage = "syncManifest" /\ stage' = "syncRootfs"
  /\ kept' = [kept EXCEPT !.trees[attempt].bytes = @ \cup {"manifest"}]
  /\ UNCHANGED <<attempt, disk, unflushed>>

\* and flush the tree's directory; provision does so once more.
SyncRootfs ==
  /\ stage = "syncRootfs" /\ stage' = "publish"
  /\ kept' = [kept EXCEPT !.trees[attempt].names = @ \cup Top \cup {"manifest"}]
  /\ UNCHANGED <<attempt, disk, unflushed>>

\* publishReplacement renames, or exchanges and removes what was there.
Publish ==
  /\ stage = "publish" /\ stage' = "syncVersion"
  /\ disk' = [disk EXCEPT !.target = attempt]
  /\ UNCHANGED <<attempt, kept, unflushed>>

\* Mutant: success is returned without a flush.
SyncVersionNot ==
  /\ stage = "syncVersion" /\ stage' = "returned"
  /\ UNCHANGED <<attempt, disk, kept, unflushed>>

\* The flush of the version directory, last of all.
SyncVersion ==
  /\ stage = "syncVersion" /\ stage' = "returned"
  /\ kept' = [kept EXCEPT !.target = disk.target]
  /\ unflushed' = FALSE
  /\ UNCHANGED <<attempt, disk>>

\* Any step may fail, and the process may die at any.  The temporary tree is then removed, which matters to no
\* later attempt; a tree that is already published stays.
Fail ==
  /\ stage \notin {"validate", "returned"} /\ stage' = "validate"
  /\ unflushed' = (unflushed \/ (stage = "syncVersion" /\ kept.target # disk.target))
  /\ UNCHANGED <<attempt, disk, kept>>

\* The next run of the sandbox.
Again == stage = "returned" /\ stage' = "validate" /\ UNCHANGED <<attempt, disk, kept, unflushed>>

-----------------------------------------------------------------------------
(* The machine.                                                            *)

\* The kernel writes a name, the bytes of a file or the entry of the version
\* directory back when it likes.
Writeback ==
  /\ \/ /\ \E t \in Trees, n \in Names :
             \/ n \in disk.trees[t].names /\ kept' = [kept EXCEPT !.trees[t].names = @ \cup {n}]
             \/ n \in disk.trees[t].bytes /\ kept' = [kept EXCEPT !.trees[t].bytes = @ \cup {n}]
        /\ UNCHANGED unflushed
     \/ kept' = [kept EXCEPT !.target = disk.target] /\ unflushed' = FALSE
  /\ UNCHANGED <<stage, attempt, disk>>

PowerLoss ==
  /\ disk' = kept /\ stage' = "validate" /\ unflushed' = FALSE
  /\ UNCHANGED <<attempt, kept>>

PowerNext ==
  \/ Validate \/ (\E f \in Files : ExtractFile(f)) \/ Extracted \/ WriteManifest
  \/ SyncManifest \/ SyncRootfs \/ Publish \/ SyncVersion \/ Fail \/ Again
  \/ Writeback \/ PowerLoss

PowerSpec == PowerInit /\ [][PowerNext]_powerVars

-----------------------------------------------------------------------------
(* Properties.                                                             *)

\* The variables have their types; what is kept was written.
PowerTypeOK ==
  /\ stage \in {"validate", "extract", "manifest", "syncManifest", "syncRootfs", "publish",
             "syncVersion", "returned"}
  /\ attempt \in 0..MaxAttempts /\ unflushed \in BOOLEAN
  /\ {disk.target, kept.target} \subseteq Targets
  /\ \A t \in Trees :
       /\ disk.trees[t].names \cup disk.trees[t].bytes \subseteq Names
       /\ kept.trees[t].names \subseteq disk.trees[t].names
       /\ kept.trees[t].bytes \subseteq disk.trees[t].bytes

\* Whenever the power goes, a tree that is left under the published name has its
\* whole manifest and every name at its top: the flushes come before the rename,
\* so no half-published entry is found afterwards.
PublishedIsWhole ==
  kept.target \in Trees =>
    LET t == kept.trees[kept.target] IN
    "manifest" \in t.bytes /\ Top \cup {"manifest"} \subseteq t.names

\* An entry that provision returns survives every later loss of power, on both of
\* its returns: after a download, which ends with the flush of the version
\* directory, and on finding a valid entry, since the run that published it had
\* flushed.  The code has one exception, for the second return flushes nothing:
\* when a run was cut short between rename and flush, the entry that the next one
\* finds valid and returns may be gone after a loss of power (as a whole, see
\* PublishedIsWhole).
ProvisionedSurvives ==
  [][/\ stage' = "returned" /\ ~unflushed' => Accepts(kept')
     /\ Accepts(kept) => Accepts(kept')]_powerVars
=============================================================================
