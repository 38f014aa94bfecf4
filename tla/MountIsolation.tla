--------------------------- MODULE MountIsolation ---------------------------
(***************************************************************************)
(* How the child builds and enters its root file system (IsolateRootFS,    *)
(* fs/isolation.go), for a configuration that went through the policy on   *)
(* bind mounts (validateBindPolicies, config/config.go).  The root file    *)
(* system and the bind sources are directories of the host: while the      *)
(* child works, processes of the host may replace what their names mean.   *)
(* Every call may fail, and the child may be killed at any moment.         *)
(*                                                                         *)
(* A path is the sequence of its components.  What a name of the root file *)
(* system means is its kind and a generation that changes when the host    *)
(* replaces it; a descriptor holds the generations it was opened at.       *)
(***************************************************************************)
EXTENDS Naturals, Sequences, FiniteSetsExt

CONSTANTS
  Paths,             \* the names of the root file system that matter
  HostPaths,         \* the host paths of bind sources
  Configs,           \* the configurations a run may be asked for
  Trees,             \* what the root file system may hold at the start
  SourceKinds,       \* what a bind source may be at the start
  NestedPath,        \* where a further file system is mounted in it
  MaxReplacements    \* bound on what the host replaces during a run

Kinds == {"none", "dir", "file", "other"}

Dev == <<"dev">>
Proc == <<"proc">>
ResolvConf == <<"etc", "resolv.conf">>

Bind == [target : Paths, source : HostPaths, writable : BOOLEAN]

Parents(p) == {SubSeq(p, 1, n) : n \in 1 .. Len(p) - 1}

ASSUME IsolationAssumption ==
  /\ Paths \subseteq Seq(STRING) \ {<<>>}
  /\ \A p \in Paths : Parents(p) \subseteq Paths
  /\ {Dev, Proc, ResolvConf, NestedPath} \subseteq Paths
  /\ Configs \subseteq [readOnly : BOOLEAN, dns : BOOLEAN, binds : Seq(Bind)]
  /\ Trees \subseteq [Paths -> Kinds]
  /\ SourceKinds \subseteq Kinds
  /\ MaxReplacements \in Nat

VARIABLES
  cfg,           \* the configuration of this run
  pc,            \* the next step
  i,             \* loop variable of the step
  kind,          \* kind[p], what p is in the root file system, overlay included
  gen,           \* gen[p], how often the host has replaced it
  source,        \* source[h], what the host path h is at present
  held,          \* the objects of the bind sources that were opened
  targets,       \* targets[slot], the node on which its mount will go
  needsOverlay,  \* the local variable
  stage,         \* overlayStage: "nil", or what of it is left to undo
  stageDir,      \* the staging directory exists on the host
  reported,      \* an error of the staging's clean-up was reported
  rootAttrs,     \* attributes of the root mount
  nestedAttrs,   \* attributes of the file system mounted inside it
  mounts,        \* what was attached to the root mount, in this order
  oldRoot,       \* the root of the host is still reachable
  changed,       \* what the run has changed on the host
  made,          \* the names that were made in the overlay
  replaced       \* number of replacements so far

hostVars == <<kind, gen, source, made, replaced>>
stageVars == <<stage, stageDir, reported>>
mountVars == <<rootAttrs, nestedAttrs, mounts, oldRoot>>
vars == <<cfg, pc, i, hostVars, held, targets, needsOverlay, stageVars, mountVars, changed>>

-----------------------------------------------------------------------------
(* What is mounted where.                                                  *)

BindSlot(n) == <<"bind", n>>
DevSlot == <<"dev", 0>>
ProcSlot == <<"proc", 0>>
DnsSlot == <<"dns", 0>>

BindSlots == [n \in 1 .. Len(cfg.binds) |-> BindSlot(n)]
DnsSlots == IF cfg.dns THEN <<DnsSlot>> ELSE <<>>

\* The three orders in which IsolateRootFS goes through its targets.
PreflightOrder ==
  IF cfg.readOnly THEN <<DevSlot>> \o BindSlots \o <<ProcSlot>> \o DnsSlots ELSE <<DevSlot>>
OpenOrder == BindSlots \o <<DevSlot, ProcSlot>> \o DnsSlots
AttachOrder == <<DevSlot>> \o BindSlots \o <<ProcSlot>> \o DnsSlots

Slots == {AttachOrder[n] : n \in DOMAIN AttachOrder}

TargetPath(slot) ==
  CASE slot[1] = "bind" -> cfg.binds[slot[2]].target
    [] slot[1] = "dev" -> Dev
    [] slot[1] = "proc" -> Proc
    [] slot[1] = "dns" -> ResolvConf

\* The object a mount shows: a held bind source, or a new private file system.
Object(slot) ==
  IF slot[1] = "bind" THEN held[slot[2]]
  ELSE [path |-> slot[1], gen |-> 0, kind |-> IF slot[1] = "dns" THEN "file" ELSE "dir"]

Attrs(slot) ==
  CASE slot[1] = "bind" ->
         {"nosuid", "nodev"} \cup (IF cfg.binds[slot[2]].writable THEN {} ELSE {"rdonly"})
    [] slot[1] = "dev" -> {"nosuid", "noexec"}
    [] slot[1] = "proc" -> {"nosuid", "nodev", "noexec"}
    [] slot[1] = "dns" -> {"rdonly", "nosuid", "nodev", "noexec"}

Init ==
  /\ cfg \in Configs
  /\ pc = "validate" /\ i = 1
  /\ kind \in Trees
  /\ gen = [p \in Paths |-> 0]
  /\ source \in [HostPaths -> {[gen |-> 0, kind |-> k] : k \in SourceKinds}]
  /\ held = <<>> /\ targets = <<>>
  /\ needsOverlay = FALSE
  /\ stage = "nil" /\ stageDir = FALSE /\ reported = FALSE
  /\ rootAttrs = {} /\ nestedAttrs = {} /\ mounts = <<>>
  /\ oldRoot = TRUE
  /\ changed = {}
  /\ made = {} /\ replaced = 0

GoTo(from, to) == pc = from /\ pc' = to /\ i' = 1

\* A loop that does one thing for each element of order, and then goes on.
ForEach(label, order, next) ==
  /\ pc = label
  /\ i \in DOMAIN order
  /\ IF i = Len(order) THEN pc' = next /\ i' = 1 ELSE pc' = pc /\ i' = i + 1

\* An early return; the deferred clean-up of the staging follows.
Return == pc' = "unwind" /\ i' = 1

-----------------------------------------------------------------------------
(* Names.                                                                  *)

\* A name as openat2 finds it with RESOLVE_NO_SYMLINKS: absent when a directory
\* on the way is, refused when something on the way is not a directory.
Found(p) ==
  LET blocked == {n \in 1 .. Len(p) - 1 : kind[SubSeq(p, 1, n)] # "dir"}
  IN  IF blocked = {} THEN kind[p]
      ELSE IF kind[SubSeq(p, 1, Min(blocked))] = "none" THEN "none" ELSE "other"

\* The node that p names now.
Node(p) == [path |-> p, gens |-> [n \in 1 .. Len(p) |-> gen[SubSeq(p, 1, n)]]]

IsAncestor(p, q) == p \in Parents(q)

\* p lies in the file system mounted inside the source, which a clone shows and
\* an overlay does not.
InNested(p) == ~needsOverlay /\ (p = NestedPath \/ IsAncestor(NestedPath, p))

\* Mounts on a node, the last one on top.
MountsOn(node) == {m \in DOMAIN mounts : mounts[m].node = node}

\* Looking p up in the new root: the first node on the way that carries a mount
\* leads into it, and what is left of p is looked up there.
Covered(p) == {n \in 1 .. Len(p) : MountsOn(Node(SubSeq(p, 1, n))) # {}}
Lookup(p) ==
  IF Covered(p) = {} THEN [mount |-> 0, rest |-> p]
  ELSE LET n == Min(Covered(p))
       IN  [mount |-> Max(MountsOn(Node(SubSeq(p, 1, n)))), rest |-> SubSeq(p, n + 1, Len(p))]

-----------------------------------------------------------------------------
(* Up to the staging of the root.                                          *)

\* Mutant: overlapping targets pass, only equal ones are refused.
BindPoliciesEqualOnly(binds, dns) ==
  /\ \A n \in DOMAIN binds :
       LET t == binds[n].target IN
       /\ t # Dev /\ ~IsAncestor(Dev, t)
       /\ t # Proc /\ ~IsAncestor(Proc, t)
       /\ dns => t # ResolvConf
  /\ \A n, m \in DOMAIN binds : n # m => binds[n].target # binds[m].target

\* validateBindPolicies.
BindPolicies(binds, dns) ==
  /\ \A n \in DOMAIN binds :
       LET t == binds[n].target IN
       /\ t # Dev /\ ~IsAncestor(Dev, t)
       /\ t # Proc /\ ~IsAncestor(Proc, t)
       /\ dns => t # ResolvConf
  /\ \A n, m \in DOMAIN binds : n # m =>
       /\ binds[n].target # binds[m].target
       /\ ~IsAncestor(binds[n].target, binds[m].target)

\* The parent's validation; a configuration it refuses never gets here.
Validate ==
  /\ IF BindPolicies(cfg.binds, cfg.dns) THEN GoTo("validate", "open")
     ELSE GoTo("validate", "failed")
  /\ UNCHANGED <<cfg, hostVars, held, targets, needsOverlay, stageVars, mountVars, changed>>

\* The root directory and the device files are opened.
OpenRoot ==
  /\ \/ GoTo("open", IF cfg.binds = <<>> THEN "preflight" ELSE "hold")
     \/ pc = "open" /\ Return
  /\ UNCHANGED <<cfg, hostVars, held, targets, needsOverlay, stageVars, mountVars, changed>>

\* Mutant: anything that can be opened is taken for a source.
HoldAnySource ==
  /\ \/ /\ ForEach("hold", cfg.binds, "preflight")
        /\ LET h == cfg.binds[i].source IN
           held' = Append(held, [path |-> h, gen |-> source[h].gen, kind |-> source[h].kind])
     \/ pc = "hold" /\ Return /\ UNCHANGED held
  /\ UNCHANGED <<cfg, hostVars, targets, needsOverlay, stageVars, mountVars, changed>>

\* openBindSource: whatever is mounted later is what was opened here.
HoldSource ==
  /\ \/ /\ ForEach("hold", cfg.binds, "preflight")
        /\ LET h == cfg.binds[i].source IN
           /\ source[h].kind \in {"dir", "file"}
           /\ held' = Append(held, [path |-> h, gen |-> source[h].gen, kind |-> source[h].kind])
     \/ pc = "hold" /\ Return /\ UNCHANGED held
  /\ UNCHANGED <<cfg, hostVars, targets, needsOverlay, stageVars, mountVars, changed>>

\* A first look at the targets, in the source tree: one that is missing can only
\* be made in an overlay, one of the wrong kind is an error.
PreflightTarget ==
  /\ \/ /\ ForEach("preflight", PreflightOrder, "private")
        /\ LET slot == PreflightOrder[i] IN
           \/ /\ Found(TargetPath(slot)) = "none"
              /\ needsOverlay' = TRUE
           \/ /\ Found(TargetPath(slot)) = Object(slot).kind
              /\ needsOverlay' = (needsOverlay \/ ~cfg.readOnly)
     \/ pc = "preflight" /\ Return /\ UNCHANGED needsOverlay
  /\ UNCHANGED <<cfg, hostVars, held, targets, stageVars, mountVars, changed>>

\* The mounts of the namespace are made private: nothing reaches the host's.
MakePrivate ==
  /\ \/ GoTo("private", IF needsOverlay THEN "stage" ELSE "root")
     \/ pc = "private" /\ Return
  /\ UNCHANGED <<cfg, hostVars, held, targets, needsOverlay, stageVars, mountVars, changed>>

-----------------------------------------------------------------------------
(* createOverlayRoot and overlayStage.cleanup.  stage is "dir" when the    *)
(* staging directory is to be removed, "attached" when a file system is to *)
(* be unmounted from it first, "clean" when nothing is left to undo.       *)

\* Mutant: a directory that is still mounted on is forgotten.
CleanupForgets(left, failing) ==
  \E unmounts, removes, closes \in BOOLEAN :
    /\ left = IF (stage = "attached" /\ ~unmounts) \/ removes THEN "clean" ELSE "dir"
    /\ stageDir' = ((stage = "attached" /\ ~unmounts) \/ left # "clean")
    /\ failing = (left # "clean" \/ ~closes)

\* overlayStage.cleanup: unmount, close the descriptors, remove the directory
\* unless something is still mounted on it.  What failed is left for another call.
Cleanup(left, failing) ==
  \E unmounts, removes, closes \in BOOLEAN :
    /\ left = IF stage = "attached" /\ ~unmounts THEN "attached"
              ELSE IF removes \/ stage = "clean" THEN "clean" ELSE "dir"
    /\ stageDir' = (left # "clean")
    /\ failing = (left # "clean" \/ ~closes)

StageStates == {"nil", "dir", "attached", "clean"}

\* os.MkdirTemp.
MakeStageDir ==
  /\ \/ GoTo("stage", "stageMount") /\ stage' = "dir" /\ stageDir' = TRUE
     \/ pc = "stage" /\ Return /\ UNCHANGED <<stage, stageDir>>
  /\ UNCHANGED <<cfg, hostVars, held, targets, needsOverlay, reported, mountVars, changed>>

\* cleanupOnError returns no stage: nobody tries again.
CleanupOnError ==
  /\ \E left \in StageStates, failing \in BOOLEAN :
       Cleanup(left, failing) /\ reported' = (reported \/ failing)
  /\ stage' = "nil"
  /\ pc' = "failed" /\ i' = 1

\* A tmpfs on the directory.
MountStage ==
  /\ \/ GoTo("stageMount", "overlay") /\ stage' = "attached" /\ UNCHANGED <<stageDir, reported>>
     \/ pc = "stageMount" /\ CleanupOnError
  /\ UNCHANGED <<cfg, hostVars, held, targets, needsOverlay, mountVars, changed>>

\* Its three directories, the clone of the root file system in one of them, and
\* the overlay over it.
MountOverlay ==
  /\ \/ GoTo("overlay", "root") /\ UNCHANGED stageVars
     \/ pc = "overlay" /\ CleanupOnError
  /\ UNCHANGED <<cfg, hostVars, held, targets, needsOverlay, mountVars, changed>>

HasStage == stage # "nil"

-----------------------------------------------------------------------------
(* Assembly.                                                               *)

\* The overlay, or a recursive clone of the source, is mounted on the source.
AttachRoot ==
  /\ \/ GoTo("root", "targets")
     \/ pc = "root" /\ Return
  /\ UNCHANGED <<cfg, hostVars, held, targets, needsOverlay, stageVars, mountVars, changed>>

\* openOrCreateTarget: what is missing of p is made, all but the last component
\* as directories.
CreateTarget(p, k) ==
  /\ \A q \in Parents(p) : Found(q) \in {"none", "dir"}
  /\ kind' = [q \in Paths |-> IF q = p THEN k
                              ELSE IF q \in Parents(p) THEN "dir" ELSE kind[q]]
  /\ made' = made \cup {q \in Parents(p) \cup {p} : kind[q] = "none"}

\* Each target is opened in the new root, and made first when it is missing and
\* there is an overlay to make it in; it must be of the kind of its mount.
OpenTarget ==
  /\ \/ /\ ForEach("targets", OpenOrder, "seal")
        /\ LET slot == OpenOrder[i]
               p == TargetPath(slot)
               k == Object(slot).kind
           IN  /\ \/ Found(p) = k /\ UNCHANGED <<kind, made>>
                  \/ HasStage /\ Found(p) = "none" /\ CreateTarget(p, k)
               /\ targets' = Append(targets, [slot |-> slot, node |-> Node(p)])
     \/ pc = "targets" /\ Return /\ UNCHANGED <<kind, made, targets>>
  /\ UNCHANGED <<cfg, gen, source, replaced, held, needsOverlay, stageVars, mountVars, changed>>

RootSeal == {"nosuid", "nodev"} \cup (IF cfg.readOnly THEN {"rdonly"} ELSE {})

\* Mutant: the attributes are set on the root mount alone.
SealRootOnly ==
  /\ \/ GoTo("seal", "attach") /\ rootAttrs' = RootSeal /\ UNCHANGED <<nestedAttrs, mounts>>
     \/ pc = "seal" /\ Return /\ UNCHANGED <<rootAttrs, nestedAttrs, mounts>>
  /\ UNCHANGED <<cfg, hostVars, held, targets, needsOverlay, stageVars, oldRoot, changed>>

\* setRecursiveMountAttrs on the root: everything that is mounted below it by
\* then gets the attributes too.
SealRoot ==
  /\ \/ /\ GoTo("seal", "attach")
        /\ rootAttrs' = RootSeal
        /\ nestedAttrs' = RootSeal
        /\ mounts' = [m \in DOMAIN mounts |-> [mounts[m] EXCEPT !.attrs = @ \cup RootSeal]]
     \/ pc = "seal" /\ Return /\ UNCHANGED <<rootAttrs, nestedAttrs, mounts>>
  /\ UNCHANGED <<cfg, hostVars, held, targets, needsOverlay, stageVars, oldRoot, changed>>

TargetNode(slot) == (CHOOSE t \in {targets[n] : n \in DOMAIN targets} : t.slot = slot).node

\* attachPrivateDev, attachBindMount, and the same for proc and DNS: a detached
\* mount gets its attributes and moves onto the target that is held.
AttachMount ==
  /\ pc = "attach"
  /\ LET slot == AttachOrder[i] IN
     \/ /\ mounts' = Append(mounts, [slot |-> slot, node |-> TargetNode(slot),
                                     object |-> Object(slot), attrs |-> Attrs(slot)])
        /\ pc' = "verify"
        /\ UNCHANGED i
     \/ Return /\ UNCHANGED mounts
  /\ UNCHANGED <<cfg, hostVars, held, targets, needsOverlay, stageVars, rootAttrs,
                 nestedAttrs, oldRoot, changed>>

\* The end of attachMount: the name of the target leads to what was mounted.
Visible(slot) ==
  LET found == Lookup(TargetPath(slot)) IN
  /\ found.mount # 0 /\ found.rest = <<>>
  /\ mounts[found.mount].object = Object(slot)

\* For /dev and /proc only the type of the file system is compared, and what the
\* name leads to by then may have that type too.
Verified(slot) ==
  \/ Visible(slot)
  \/ slot \in {DevSlot, ProcSlot} /\ Found(TargetPath(slot)) # "none"

VerifyMount ==
  /\ pc = "verify"
  /\ \/ /\ Verified(AttachOrder[i])
        /\ IF i = Len(AttachOrder) THEN pc' = "cleanStage" /\ i' = 1
           ELSE pc' = (IF AttachOrder[i] = DevSlot THEN "populate" ELSE "attach") /\ i' = i + 1
     \/ Return
  /\ UNCHANGED <<cfg, hostVars, held, targets, needsOverlay, stageVars, mountVars, changed>>

-----------------------------------------------------------------------------
(* Writing in the new root.                                                *)

\* The mount that a write to p goes to refuses it.
WriteRefused(p) ==
  LET m == Lookup(p).mount IN
  "rdonly" \in (IF m \in DOMAIN mounts THEN mounts[m].attrs
                ELSE IF InNested(p) THEN nestedAttrs ELSE rootAttrs)

\* What a write to p changes on the host: nothing in a private file system, in
\* an overlay, or where it is refused.
WriteReaches(p) ==
  LET m == Lookup(p).mount IN
  IF WriteRefused(p) THEN {}
  ELSE IF m \in DOMAIN mounts
       THEN IF mounts[m].slot[1] = "bind" THEN {mounts[m].slot} ELSE {}
  ELSE IF needsOverlay THEN {}
  ELSE IF InNested(p) THEN {<<"nested", 0>>} ELSE {<<"rootfs", 0>>}

\* The rest of attachPrivateDev makes links, directories and mounts in the
\* directory that the name /dev leads to by then.
PopulateDev ==
  /\ pc = "populate"
  /\ \/ /\ ~WriteRefused(Dev)
        /\ changed' = changed \cup WriteReaches(Dev)
        /\ pc' = "attach"
        /\ UNCHANGED i
     \/ Return /\ UNCHANGED changed
  /\ UNCHANGED <<cfg, hostVars, held, targets, needsOverlay, stageVars, mountVars>>

-----------------------------------------------------------------------------
(* Entering the new root, and returning.                                   *)

\* The staging goes before pivot_root, after which its path means nothing; the
\* overlay keeps what was mounted there alive.
CleanStage ==
  /\ pc = "cleanStage"
  /\ \/ ~HasStage /\ pc' = "pivot" /\ UNCHANGED stageVars
     \/ /\ HasStage
        /\ \E left \in StageStates :
             \/ Cleanup(left, FALSE) /\ stage' = "nil" /\ pc' = "pivot" /\ UNCHANGED reported
             \/ Cleanup(left, TRUE) /\ stage' = left /\ pc' = "unwind" /\ reported' = TRUE
  /\ UNCHANGED <<cfg, i, hostVars, held, targets, needsOverlay, mountVars, changed>>

\* Fchdir and pivot_root.
PivotRoot ==
  /\ \/ GoTo("pivot", "detach")
     \/ pc = "pivot" /\ Return
  /\ UNCHANGED <<cfg, hostVars, held, targets, needsOverlay, stageVars, mountVars, changed>>

\* The old root is unmounted, and the working directory is the new one.
DetachOldRoot ==
  /\ \/ GoTo("detach", "done") /\ oldRoot' = FALSE
     \/ pc = "detach" /\ Return /\ oldRoot' \in {oldRoot, FALSE}
  /\ UNCHANGED <<cfg, hostVars, held, targets, needsOverlay, stageVars, rootAttrs,
                 nestedAttrs, mounts, changed>>

\* The deferred function: clean up the staging once more, unless that is done.
Unwind ==
  /\ pc = "unwind"
  /\ pc' = "failed"
  /\ \/ ~HasStage /\ UNCHANGED stageVars
     \/ /\ HasStage
        /\ \E left \in StageStates, failing \in BOOLEAN :
             Cleanup(left, failing) /\ stage' = left /\ reported' = (reported \/ failing)
  /\ UNCHANGED <<cfg, i, hostVars, held, targets, needsOverlay, mountVars, changed>>

-----------------------------------------------------------------------------
(* The environment.                                                        *)

\* The payload writes whatever it can.
PayloadWrites(p) ==
  /\ pc = "done"
  /\ changed' = changed \cup WriteReaches(p)
  /\ UNCHANGED <<cfg, pc, i, hostVars, held, targets, needsOverlay, stageVars, mountVars>>

\* A process of the host puts something else under a name of the root file
\* system; it cannot reach what was made in the overlay.
HostReplaces(p) ==
  /\ replaced < MaxReplacements
  /\ pc \notin {"validate", "done", "failed", "dead"}
  /\ \A q \in Parents(p) : kind[q] = "dir"
  /\ \A q \in made : q # p /\ ~IsAncestor(p, q) /\ ~IsAncestor(q, p)
  /\ \E k \in Kinds :
       kind' = [q \in Paths |-> IF q = p THEN k
                                ELSE IF p \in Parents(q) THEN "none" ELSE kind[q]]
  /\ gen' = [gen EXCEPT ![p] = @ + 1]
  /\ replaced' = replaced + 1
  /\ UNCHANGED <<cfg, pc, i, source, made, held, targets, needsOverlay, stageVars, mountVars, changed>>

HostReplacesSource(h) ==
  /\ replaced < MaxReplacements
  /\ pc \notin {"validate", "done", "failed", "dead"}
  /\ \E k \in Kinds : source' = [source EXCEPT ![h] = [gen |-> @.gen + 1, kind |-> k]]
  /\ replaced' = replaced + 1
  /\ UNCHANGED <<cfg, pc, i, kind, gen, made, held, targets, needsOverlay, stageVars, mountVars, changed>>

\* The child dies, its mounts with its namespace; the staging directory stays.
Killed ==
  /\ pc \notin {"failed", "dead"}
  /\ pc' = "dead"
  /\ UNCHANGED <<cfg, i, hostVars, held, targets, needsOverlay, stageVars, mountVars, changed>>

IsolateRootFS ==
  \/ Validate \/ OpenRoot \/ HoldSource \/ PreflightTarget \/ MakePrivate
  \/ MakeStageDir \/ MountStage \/ MountOverlay \/ AttachRoot \/ OpenTarget \/ SealRoot
  \/ AttachMount \/ VerifyMount \/ PopulateDev \/ CleanStage \/ PivotRoot \/ DetachOldRoot \/ Unwind

Next ==
  \/ IsolateRootFS
  \/ \E p \in Paths : PayloadWrites(p) \/ HostReplaces(p)
  \/ \E h \in HostPaths : HostReplacesSource(h)
  \/ Killed

Spec == Init /\ [][Next]_vars

-----------------------------------------------------------------------------
(* Properties.                                                             *)

Labels ==
  {"validate", "open", "hold", "preflight", "private", "stage", "stageMount", "overlay",
   "root", "targets", "seal", "attach", "verify", "populate", "cleanStage", "pivot", "detach",
   "unwind", "done", "failed", "dead"}

Attributes == {"rdonly", "nosuid", "nodev", "noexec"}

\* Every variable of IsolateRootFS and of the host's trees has its type.
TypeOK ==
  /\ cfg \in Configs
  /\ pc \in Labels /\ i \in Nat \ {0}
  /\ kind \in [Paths -> Kinds] /\ gen \in [Paths -> Nat]
  /\ source \in [HostPaths -> [gen : Nat, kind : Kinds]]
  /\ held \in Seq([path : HostPaths, gen : Nat, kind : {"dir", "file"}])
  /\ needsOverlay \in BOOLEAN
  /\ stage \in StageStates
  /\ stageDir \in BOOLEAN /\ reported \in BOOLEAN
  /\ rootAttrs \subseteq Attributes /\ nestedAttrs \subseteq Attributes
  /\ oldRoot \in BOOLEAN
  /\ made \subseteq Paths /\ replaced \in Nat

\* Mount m cannot be reached through its own target: another mount went on the
\* same node after it, or on a directory above it.
Hidden(m) ==
  \E n \in DOMAIN mounts :
    \/ n > m /\ mounts[n].node = mounts[m].node
    \/ LET len == Len(mounts[n].node.path) IN
       /\ len < Len(mounts[m].node.path)
       /\ mounts[n].node.path = SubSeq(mounts[m].node.path, 1, len)
       /\ mounts[n].node.gens = SubSeq(mounts[m].node.gens, 1, len)

\* A child that enters its root has there each mount that was asked for, made of
\* the object that was opened and checked, with its own attributes and no others
\* (the seal of the root has not reached it), on a target that had its name when
\* it was opened, and none hides another; the seal is on the root and on what is
\* mounted inside its source.  The host may have replaced names meanwhile: what
\* it puts in the place of a target that carries its mount already is not seen.
ViewAsConfigured ==
  pc = "done" =>
    /\ ~oldRoot
    /\ rootAttrs = RootSeal /\ nestedAttrs = RootSeal
    /\ \A slot \in Slots : \E m \in DOMAIN mounts :
         /\ mounts[m].slot = slot /\ mounts[m].object = Object(slot)
         /\ mounts[m].attrs = Attrs(slot)
         /\ mounts[m].node.path = TargetPath(slot)
         /\ ~Hidden(m)

\* Nothing of the host is changed but through bind mounts declared writable:
\* neither by filling /dev nor by the payload, in the source of the root or in a
\* file system mounted inside it.  Targets are no question here: OpenTarget
\* makes them in an overlay only.
HostChangesDeclared ==
  changed \subseteq {BindSlot(n) : n \in {m \in DOMAIN cfg.binds : cfg.binds[m].writable}}

\* IsolateRootFS leaves a staging directory behind only with an error that says
\* so; a child that enters its root has left none.
StagingRemoved ==
  pc \in {"done", "failed"} /\ stageDir => pc = "failed" /\ reported
=============================================================================
