--------------------------- MODULE ArchiveExtract ---------------------------
(***************************************************************************)
(* The extraction of a rootfs archive into an empty directory              *)
(* (rootfs/extract.go): extractArchiveWithProgress takes the entries as    *)
(* the archive library delivers them, checks each against the limits and   *)
(* against the entries before it, writes it, and at the end of the archive *)
(* gives the directories their modes.                                      *)
(*                                                                         *)
(* A path is the sequence of its components, as strings.Split returns it:  *)
(* "./a/" is <<".", "a", "">> and "/a" is <<"", "a">>.  A mode is the set   *)
(* of the owner's permissions that matter here, to write and to search.    *)
(* The process is one that permissions bind.  One unit of data stands for  *)
(* as many bytes as io.Copy moves at once.                                 *)
(***************************************************************************)
EXTENDS Naturals, Sequences, FiniteSets, FiniteSetsExt, SequencesExt

CONSTANTS
  Entries,          \* the entries an archive may hold
  Devices,          \* the names in standardDevicePlaceholders
  MaxTotalBytes,    \* rootfsLimits
  MaxFileBytes,
  MaxEntries,
  NoEntry           \* no entry is being written

Permissions == {"w", "x"}
Kinds == {"dir", "reg", "symlink", "link", "char", "other"}

ASSUME EntriesAssumption ==
  \A e \in Entries :
    /\ {e.name, e.target} \subseteq Seq(STRING) \ {<<>>}
    /\ e.kind \in Kinds
    /\ e.mode \subseteq Permissions
    /\ e.size \in Nat          \* what the header declares
    /\ e.data \in Nat          \* what the library delivers
    /\ e.standard \in BOOLEAN  \* the numbers of the standard device
ASSUME LimitsAssumption ==
  /\ MaxTotalBytes \in Nat /\ MaxFileBytes \in Nat /\ MaxEntries \in Nat
ASSUME NoEntryAssumption == NoEntry \notin Entries

VARIABLES
  pc,                 \* where the extraction is
  why,                \* the kind of error it ended with, or "none"
  cur,                \* the entry being written
  copied,             \* how much of it is in its file
  tree,               \* tree[p], the file at path p of the destination
  entries,            \* entries[name], the entry accepted under that name
  directoryModes,     \* directoryModes[name], the mode to apply at the end
  pending,            \* the directories that have not got it yet
  extractedBytes, largestFileBytes, entryCount

vars == <<pc, why, cur, copied, tree, entries, directoryModes, pending,
          extractedBytes, largestFileBytes, entryCount>>

Empty == [p \in {} |-> p]
Put(f, p, v) == [q \in DOMAIN f \cup {p} |-> IF q = p THEN v ELSE f[q]]

Init ==
  /\ pc = "next" /\ why = "none" /\ cur = NoEntry /\ copied = 0
  /\ tree = Empty /\ entries = Empty /\ directoryModes = Empty /\ pending = {}
  /\ extractedBytes = 0 /\ largestFileBytes = 0 /\ entryCount = 0

-----------------------------------------------------------------------------
(* Names.                                                                  *)

Parents(name) == {SubSeq(name, 1, i) : i \in 1..(Len(name) - 1)}

RootMarker(raw) == raw \in {<<".">>, <<".", "">>}

\* normalizeArchivePath: every leading "./" and one trailing "/" are taken off.
Clean(raw) ==
  LET start == Min({i \in 1..Len(raw) : raw[i] # "." \/ i = Len(raw)})
      rest == SubSeq(raw, start, Len(raw))
  IN IF Len(rest) > 1 /\ Last(rest) = "" THEN Front(rest) ELSE rest

\* normalizeArchivePath: neither empty nor absolute, and of proper components.
ValidName(raw) ==
  /\ raw[1] # ""
  /\ ToSet(Clean(raw)) \cap {"", ".", ".."} = {}

\* path.Clean: a ".." takes the component before it away.
Lexical(path) ==
  FoldLeft(LAMBDA acc, c :
             IF c \in {"", "."} THEN acc
             ELSE IF c = ".." /\ acc # <<>> /\ Last(acc) # ".." THEN Front(acc)
             ELSE Append(acc, c),
           <<>>, path)

\* validateInternalTarget: an absolute target counts from the new root.
InternalTarget(name, target) ==
  LET absolute == target[1] = ""
      path == Lexical(IF absolute THEN Tail(target) ELSE Front(name) \o target)
  IN /\ target # <<"">>
     /\ ~(absolute /\ Len(target) > 2 /\ target[2] = "")
     /\ path = <<>> \/ path[1] # ".."

-----------------------------------------------------------------------------
(* The checks before anything is written.                                  *)

\* Mutant: an entry is compared with its parents only.
ConflictsAbove(name, kind) ==
  \/ name \in DOMAIN entries
  \/ \E p \in Parents(name) \cap DOMAIN entries : entries[p].kind # "dir"

\* checkEntryConflicts
Conflicts(name, kind) ==
  \/ name \in DOMAIN entries
  \/ \E p \in Parents(name) \cap DOMAIN entries : entries[p].kind # "dir"
  \/ kind # "dir" /\ \E q \in DOMAIN entries : name \in Parents(q)

\* archiveEntryKind
Supported(e) ==
  CASE e.kind = "char" -> Clean(e.name) \in Devices /\ e.standard
    [] e.kind = "other" -> FALSE
    [] OTHER -> TRUE

Refusal(e) ==
  IF entryCount + 1 > MaxEntries THEN "limit"
  ELSE IF RootMarker(e.name) THEN IF e.kind = "dir" THEN "none" ELSE "name"
  ELSE IF ~ValidName(e.name) THEN "name"
  ELSE IF ~Supported(e) THEN "kind"
  ELSE IF Conflicts(Clean(e.name), e.kind) THEN "conflict"
  ELSE "none"

stats == <<extractedBytes, largestFileBytes>>
records == <<entries, directoryModes, pending>>

RefuseEntry(e) ==
  /\ pc = "next"
  /\ Refusal(e) # "none"
  /\ pc' = "failed" /\ why' = Refusal(e)
  /\ entryCount' = entryCount + 1
  /\ UNCHANGED <<cur, copied, tree, records, stats>>

\* A root marker and a device placeholder leave nothing on disk.
TakeEntry(e) ==
  /\ pc = "next"
  /\ Refusal(e) = "none"
  /\ entryCount' = entryCount + 1
  /\ IF RootMarker(e.name) \/ e.kind = "char"
     THEN UNCHANGED <<pc, cur>>
     ELSE pc' = "write" /\ cur' = e
  /\ entries' = IF e.kind = "char" THEN Put(entries, Clean(e.name), e) ELSE entries
  /\ UNCHANGED <<why, copied, tree, directoryModes, pending, stats>>

-----------------------------------------------------------------------------
(* Writing an entry.                                                       *)

Name == Clean(cur.name)
Node(type, mode, of) == [type |-> type, mode |-> mode, size |-> 0, of |-> of]
Dir(mode) == Node("dir", mode, <<>>)

\* What keeps the process from making p: a file there, or the directories above.
Obstacle(p) ==
  IF p \in DOMAIN tree THEN "disk"
  ELSE IF \/ \E q \in Parents(p) : "x" \notin tree[q].mode
          \/ Len(p) > 1 /\ "w" \notin tree[Front(p)].mode THEN "permission"
  ELSE "none"

Missing ==
  {p \in Parents(Name) : p \notin DOMAIN tree \/ tree[p].type # "dir"}
Writing(kind) == pc = "write" /\ Missing = {} /\ cur.kind = kind

\* The entry is on disk and recorded: the callback returns nil.
Accepted ==
  /\ pc' = "next" /\ cur' = NoEntry /\ copied' = 0
  /\ entries' = Put(entries, Name, cur)
  /\ UNCHANGED <<why, pending, entryCount>>

\* The callback returns an error, and with it the extraction.
Abandoned(reason) ==
  /\ pc' = "failed" /\ why' = reason
  /\ cur' = NoEntry /\ copied' = 0
  /\ UNCHANGED <<records, stats, entryCount>>

\* ensureParentDirectories, one component after the other.
MakeParent ==
  /\ pc = "write" /\ Missing # {}
  /\ LET p == CHOOSE p \in Missing : \A q \in Missing : Len(p) <= Len(q) IN
     IF Obstacle(p) # "none" THEN Abandoned(Obstacle(p)) /\ UNCHANGED tree
     ELSE /\ tree' = Put(tree, p, Dir(Permissions))
          /\ UNCHANGED <<pc, why, cur, copied, records, stats, entryCount>>

\* Mutant: a directory that is there already keeps the mode it was made with.
MakeDirectoryOnce ==
  /\ Writing("dir")
  /\ Accepted
  /\ IF Name \in DOMAIN tree THEN UNCHANGED <<tree, directoryModes>>
     ELSE /\ tree' = Put(tree, Name, Dir(cur.mode \cup Permissions))
          /\ directoryModes' = Put(directoryModes, Name, cur.mode)
  /\ UNCHANGED stats

\* extractDirectory: until the end of the archive the owner may do everything.
MakeDirectory ==
  /\ Writing("dir")
  /\ LET there == Name \in DOMAIN tree /\ tree[Name].type = "dir" IN
     IF ~there /\ Obstacle(Name) # "none"
     THEN Abandoned(Obstacle(Name)) /\ UNCHANGED tree
     ELSE /\ Accepted
          /\ tree' = IF there THEN tree
                     ELSE Put(tree, Name, Dir(cur.mode \cup Permissions))
          /\ directoryModes' = Put(directoryModes, Name, cur.mode)
          /\ UNCHANGED stats

\* extractRegularFile, up to its file.
CreateFile ==
  /\ Writing("reg")
  /\ LET refusal == IF cur.size > MaxFileBytes THEN "limit" ELSE Obstacle(Name) IN
     \/ refusal # "none" /\ Abandoned(refusal) /\ UNCHANGED tree
     \/ /\ refusal = "none"
        /\ tree' = Put(tree, Name, Node("reg", cur.mode, Name))
        /\ pc' = "copy"
        /\ UNCHANGED <<why, cur, copied, records, stats, entryCount>>

\* Mutant: what other files took is forgotten.
ReadLimitPerFile == MaxFileBytes

ReadLimit == Min({MaxFileBytes, MaxTotalBytes - extractedBytes})

\* io.Copy from an io.LimitReader of one byte more than is allowed.
Copy ==
  /\ pc = "copy"
  /\ copied < Min({cur.data, ReadLimit + 1})
  /\ copied' = copied + 1
  /\ tree' = [tree EXCEPT ![Name].size = copied + 1]
  /\ UNCHANGED <<pc, why, cur, records, stats, entryCount>>

\* os.Remove of a file begun; its error is ignored, and the file stays then.
RemoveFile == tree' \in {tree, [p \in DOMAIN tree \ {Name} |-> tree[p]]}

\* extractRegularFile: the file stays only if it has just the declared size.
FinishFile ==
  /\ pc = "copy"
  /\ copied = Min({cur.data, ReadLimit + 1})
  /\ \/ copied > ReadLimit /\ Abandoned("limit") /\ RemoveFile
     \/ copied <= ReadLimit /\ copied # cur.size /\ Abandoned("size") /\ RemoveFile
     \/ /\ copied <= ReadLimit /\ copied = cur.size
        /\ Accepted
        /\ extractedBytes' = extractedBytes + copied
        /\ largestFileBytes' = Max({largestFileBytes, cur.size})
        /\ UNCHANGED <<tree, directoryModes>>

\* Nothing but a link of the given form comes into the tree.
PlaceLink(refusal, node) ==
  \/ refusal # "none" /\ Abandoned(refusal) /\ UNCHANGED tree
  \/ /\ refusal = "none"
     /\ Accepted
     /\ tree' = Put(tree, Name, node)
     /\ UNCHANGED <<directoryModes, stats>>

\* validateInternalTarget and extractSymlink
MakeSymlink ==
  /\ Writing("symlink")
  /\ PlaceLink(IF InternalTarget(Name, cur.target) THEN Obstacle(Name) ELSE "target",
               Node("symlink", Permissions, cur.target))

\* What lstat finds at the path p.  Above p the kernel follows symbolic links;
\* where they lead is left open, to nothing or to some regular file.
Lookup(p) ==
  IF \E q \in Parents(p) \cap DOMAIN tree : tree[q].type = "symlink"
  THEN {Node("none", {}, p), Node("reg", {}, p)}
  ELSE {IF p \in DOMAIN tree THEN tree[p] ELSE Node("none", {}, p)}

\* extractHardlink: a link to a regular file that is there by then.
MakeHardlink ==
  /\ Writing("link")
  /\ \E found \in Lookup(Clean(cur.target)) :
       LET good == /\ ValidName(cur.target) /\ ~RootMarker(cur.target)
                   /\ found.type = "reg"
       IN PlaceLink(IF good THEN Obstacle(Name) ELSE "target", found)

\* Any read, write or other system call may fail.
IOError ==
  /\ pc \in {"next", "write", "copy", "chmod"}
  /\ Abandoned("io")
  /\ IF pc = "copy" THEN RemoveFile ELSE UNCHANGED tree

-----------------------------------------------------------------------------
(* The end of the archive.                                                 *)

EndOfArchive ==
  /\ pc = "next"
  /\ pc' = "chmod"
  /\ pending' = DOMAIN directoryModes
  /\ UNCHANGED <<why, cur, copied, tree, entries, directoryModes, stats, entryCount>>

\* The order of sort.Slice; among directories of one depth it does not matter.
ComesFirst(p) == \A q \in pending : Len(p) >= Len(q)

ApplyMode(p) ==
  /\ pc = "chmod" /\ p \in pending /\ ComesFirst(p)
  /\ IF \E q \in Parents(p) : "x" \notin tree[q].mode
     THEN Abandoned("permission") /\ UNCHANGED tree
     ELSE /\ tree' = [tree EXCEPT ![p].mode = directoryModes[p]]
          /\ pending' = pending \ {p}
          /\ UNCHANGED <<pc, why, cur, copied, entries, directoryModes, stats,
                         entryCount>>

\* The statistics are returned.
Return ==
  /\ pc = "chmod" /\ pending = {}
  /\ pc' = "done"
  /\ UNCHANGED <<why, cur, copied, tree, records, stats, entryCount>>

Ended == pc \in {"done", "failed"} /\ UNCHANGED vars

Next ==
  \/ \E e \in Entries : RefuseEntry(e) \/ TakeEntry(e)
  \/ MakeParent \/ MakeDirectory \/ CreateFile \/ Copy \/ FinishFile
  \/ MakeSymlink \/ MakeHardlink \/ IOError
  \/ EndOfArchive \/ (\E p \in pending : ApplyMode(p)) \/ Return
  \/ Ended

Spec == Init /\ [][Next]_vars

-----------------------------------------------------------------------------
(* Properties.                                                             *)

Reasons == {"none", "limit", "name", "kind", "conflict", "disk", "permission",
            "size", "target", "io"}

\* The variables have their types, and an error is named just when there is one.
TypeOK ==
  /\ pc \in {"next", "write", "copy", "chmod", "done", "failed"}
  /\ why \in Reasons /\ (pc = "failed" <=> why # "none")
  /\ cur \in Entries \cup {NoEntry} /\ (cur # NoEntry <=> pc \in {"write", "copy"})
  /\ copied \in Nat
  /\ \A p \in DOMAIN tree :
       /\ tree[p].type \in {"dir", "reg", "symlink"}
       /\ tree[p].mode \subseteq Permissions
       /\ tree[p].size \in Nat
  /\ \A n \in DOMAIN entries : entries[n] \in Entries
  /\ pending \subseteq DOMAIN directoryModes
  /\ DOMAIN directoryModes \subseteq DOMAIN entries
  /\ extractedBytes \in Nat /\ largestFileBytes \in Nat /\ entryCount \in Nat

\* Of the accepted entries none lies below another that is not a directory, in
\* whatever order the archive gave them, device placeholders included although
\* they leave nothing on disk that could be in the way.
EntriesCompatible ==
  \A n \in DOMAIN entries : \A p \in Parents(n) \cap DOMAIN entries :
    entries[p].kind = "dir"

\* An accepted name is the one its raw form denotes, and is a name below the
\* destination: normalizeArchivePath and path.Clean agree on it.
NamesDenoteThemselves ==
  \A n \in DOMAIN entries :
    n = Lexical(entries[n].name) /\ ".." \notin ToSet(n) /\ n # <<>>

\* The map of accepted entries tells all about the disk: the checks there for a
\* file in the way (lstat, O_EXCL, EEXIST) never find one, and a directory's mode
\* never stops the extraction, however restrictive it is.
DiskHoldsNoSurprise == why \notin {"disk", "permission"}

\* Of an archive that was extracted each entry is in the tree with its type and
\* mode, beside it only the parents no entry was there for, with mode 0700; the
\* order of the entries has no influence.
ExtractedAsArchived ==
  pc = "done" =>
    LET onDisk == {n \in DOMAIN entries : entries[n].kind # "char"} IN
    /\ DOMAIN tree = onDisk \cup UNION {Parents(n) : n \in onDisk}
    /\ \A p \in DOMAIN tree :
         IF p \notin onDisk THEN tree[p] = Dir(Permissions)
         ELSE LET e == entries[p] IN
              CASE e.kind = "dir" -> tree[p] = Dir(e.mode)
                [] e.kind = "reg" -> /\ tree[p].type = "reg" /\ tree[p].mode = e.mode
                                     /\ tree[p].size = e.size /\ tree[p].of = p
                [] e.kind = "link" -> tree[p].type = "reg" /\ tree[p].of # p
                [] OTHER -> tree[p].type = "symlink" /\ tree[p].of = e.target

OwnFiles == {p \in DOMAIN tree : tree[p].type = "reg" /\ tree[p].of = p}
BytesOnDisk == MapThenSumSet(LAMBDA p : tree[p].size, OwnFiles)

\* At no moment is more than one byte above either limit on disk, whatever sizes
\* the archive declares, and that only while a file is copied or after a failure
\* that left it there.
DiskBounded ==
  LET over == IF pc \in {"copy", "failed"} THEN 1 ELSE 0 IN
  /\ BytesOnDisk <= MaxTotalBytes + over
  /\ \A p \in OwnFiles : tree[p].size <= MaxFileBytes + over

\* The statistics that go into the manifest are those of the tree, so that
\* validatePublishedRootfsFD accepts what the same limits let through.
StatisticsOfTree ==
  pc = "done" =>
    /\ extractedBytes = BytesOnDisk
    /\ largestFileBytes = Max({0} \cup {tree[p].size : p \in OwnFiles})
    /\ largestFileBytes <= extractedBytes
    /\ extractedBytes <= MaxTotalBytes /\ largestFileBytes <= MaxFileBytes
    /\ Cardinality(DOMAIN entries) <= entryCount /\ entryCount <= MaxEntries

\* What the checks of one entry against those before it guarantee, in every order
\* of the entries: the accepted names are canonical and compatible, and the disk
\* holds nothing the map of entries does not tell.
EntriesSound == TypeOK /\ EntriesCompatible /\ NamesDenoteThemselves /\ DiskHoldsNoSurprise

\* The limits hold on disk at every moment, whatever an archive declares, and the
\* statistics for the manifest are those of the tree.
WithinLimits == DiskBounded /\ StatisticsOfTree
=============================================================================
