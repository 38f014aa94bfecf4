------------------------ MODULE MountIsolationProofs ------------------------
(* Theorems about MountIsolation, for every set of configurations, names   *)
(* and initial trees and any number of replacements by the host.           *)
EXTENDS MountIsolation, SequenceTheorems, WellFoundedInduction, TLAPS

-----------------------------------------------------------------------------
(* Staging.                                                                *)

\* There is no staging before it is made, what exists of it can be undone, it is
\* gone before the new root is entered, and what is left after an error was
\* reported.
StageInv ==
  /\ pc \in {"validate", "open", "hold", "preflight", "private", "stage"} => stage = "nil"
  /\ pc \notin {"failed", "dead"} /\ stageDir => stage \in {"dir", "attached"}
  /\ pc \in {"pivot", "detach", "done"} => ~stageDir
  /\ pc = "failed" /\ stageDir => reported

\* After a clean-up whatever is left was reported, and can be tried again.
LEMMA CleanupReports ==
  ASSUME NEW left, NEW failing, Cleanup(left, failing)
  PROVE  stageDir' => failing /\ left \in {"dir", "attached"}
  BY DEF Cleanup

\* Steps that leave the staging alone and neither end the run nor enter the root.
LEMMA StageQuiet ==
  ASSUME StageInv, UNCHANGED stageVars,
         pc \notin {"failed", "dead"},
         pc' \notin {"pivot", "detach", "done", "failed"},
         pc' \in {"validate", "open", "hold", "preflight", "private", "stage"}
           => pc \in {"validate", "open", "hold", "preflight", "private", "stage"}
  PROVE  StageInv'
  BY DEF StageInv, stageVars

\* Every step keeps the staging in order.
LEMMA StageStep == StageInv /\ [Next]_vars => StageInv'
<1> SUFFICES ASSUME StageInv, [Next]_vars PROVE StageInv'
  OBVIOUS
<1> USE DEF GoTo, Return
<1>1. CASE Validate
  BY <1>1 DEF Validate, StageInv, stageVars
<1>2. CASE OpenRoot
  BY <1>2, StageQuiet DEF OpenRoot
<1>3. CASE HoldSource
  BY <1>3, StageQuiet DEF HoldSource, ForEach
<1>4. CASE PreflightTarget
  BY <1>4, StageQuiet DEF PreflightTarget, ForEach
<1>5. CASE MakePrivate
  <2>1. CASE needsOverlay
    BY <1>5, <2>1, StageQuiet DEF MakePrivate
  <2>2. CASE ~needsOverlay
    BY <1>5, <2>2, StageQuiet DEF MakePrivate
  <2> QED
    BY <2>1, <2>2
<1>6. CASE MakeStageDir
  BY <1>6 DEF MakeStageDir, StageInv
<1>7. CASE CleanupOnError
  BY <1>7, CleanupReports DEF CleanupOnError, StageInv
<1>8. CASE MountStage
  <2>1. CASE CleanupOnError
    BY <2>1, <1>7
  <2>2. CASE ~CleanupOnError
    BY <1>8, <2>2 DEF MountStage, StageInv
  <2> QED
    BY <2>1, <2>2
<1>9. CASE MountOverlay
  <2>1. CASE CleanupOnError
    BY <2>1, <1>7
  <2>2. CASE ~CleanupOnError
    BY <1>9, <2>2, StageQuiet DEF MountOverlay
  <2> QED
    BY <2>1, <2>2
<1>10. CASE AttachRoot
  BY <1>10, StageQuiet DEF AttachRoot
<1>11. CASE OpenTarget
  BY <1>11, StageQuiet DEF OpenTarget, ForEach
<1>12. CASE SealRoot
  BY <1>12, StageQuiet DEF SealRoot
<1>13. CASE AttachMount
  BY <1>13, StageQuiet DEF AttachMount
<1>14. CASE VerifyMount
  BY <1>14, StageQuiet DEF VerifyMount
<1>15. CASE PopulateDev
  BY <1>15, StageQuiet DEF PopulateDev
<1>16. CASE CleanStage
  <2>1. CASE ~HasStage
    BY <1>16, <2>1 DEF CleanStage, HasStage, StageInv, stageVars
  <2>2. CASE HasStage
    <3>1. PICK left \in StageStates :
            \/ Cleanup(left, FALSE) /\ stage' = "nil" /\ pc' = "pivot" /\ UNCHANGED reported
            \/ Cleanup(left, TRUE) /\ stage' = left /\ pc' = "unwind" /\ reported' = TRUE
      BY <1>16, <2>2 DEF CleanStage
    <3> QED
      BY <3>1, CleanupReports DEF StageInv
  <2> QED
    BY <2>1, <2>2
<1>17. CASE PivotRoot
  BY <1>17 DEF PivotRoot, StageInv, stageVars
<1>18. CASE DetachOldRoot
  BY <1>18 DEF DetachOldRoot, StageInv, stageVars
<1>19. CASE Unwind
  <2>1. CASE ~HasStage
    BY <1>19, <2>1 DEF Unwind, HasStage, StageInv, stageVars
  <2>2. CASE HasStage
    BY <1>19, <2>2, CleanupReports DEF Unwind, StageInv
  <2> QED
    BY <2>1, <2>2
<1>20. CASE \E p \in Paths : PayloadWrites(p) \/ HostReplaces(p)
  BY <1>20 DEF PayloadWrites, HostReplaces, StageInv, stageVars
<1>21. CASE \E h \in HostPaths : HostReplacesSource(h)
  BY <1>21 DEF HostReplacesSource, StageInv, stageVars
<1>22. CASE Killed
  BY <1>22 DEF Killed, StageInv
<1>23. CASE UNCHANGED vars
  BY <1>23 DEF vars, stageVars, StageInv
<1> QED
  BY <1>1, <1>2, <1>3, <1>4, <1>5, <1>6, <1>8, <1>9, <1>10, <1>11, <1>12, <1>13, <1>14,
     <1>15, <1>16, <1>17, <1>18, <1>19, <1>20, <1>21, <1>22, <1>23 DEF Next, IsolateRootFS

\* IsolateRootFS leaves its staging directory behind only with an error that
\* says so (overlayStage.cleanup, its two callers and the deferred function).
THEOREM StagingGone == Spec => []StagingRemoved
<1>1. Init => StageInv
  BY DEF Init, StageInv
<1>2. StageInv => StagingRemoved
  BY DEF StageInv, StagingRemoved
<1> QED
  BY <1>1, <1>2, StageStep, PTL DEF Spec

-----------------------------------------------------------------------------
(* Types.                                                                  *)

\* The slots of a run.
SlotSet == {BindSlot(n) : n \in DOMAIN cfg.binds} \cup {DevSlot, ProcSlot, DnsSlot}

\* The configuration has a type.
LEMMA ConfigType ==
  ASSUME TypeOK
  PROVE  /\ cfg.readOnly \in BOOLEAN
         /\ cfg.binds \in Seq(Bind)
         /\ \A n \in DOMAIN cfg.binds : cfg.binds[n] \in Bind
  BY IsolationAssumption DEF TypeOK

\* The orders in which mounts are attached and targets opened are of slots.
LEMMA OrderTypes ==
  ASSUME TypeOK
  PROVE  /\ AttachOrder \in Seq(SlotSet) /\ Len(AttachOrder) > 0
         /\ OpenOrder \in Seq(SlotSet)
<1>1. /\ cfg.binds \in Seq(Bind) /\ Len(cfg.binds) \in Nat
      /\ DOMAIN cfg.binds = 1 .. Len(cfg.binds)
  BY ConfigType
<1>2. BindSlots \in Seq(SlotSet)
  BY <1>1 DEF BindSlots, SlotSet
<1>3. DnsSlots \in Seq(SlotSet)
  <2>1. DnsSlot \in SlotSet
    BY DEF SlotSet
  <2>2. <<DnsSlot>> \in Seq(SlotSet) /\ <<>> \in Seq(SlotSet)
    BY <2>1
  <2> QED
    BY <2>2 DEF DnsSlots
<1>4. /\ <<DevSlot>> \in Seq(SlotSet) /\ <<ProcSlot>> \in Seq(SlotSet)
      /\ <<DevSlot, ProcSlot>> \in Seq(SlotSet)
      /\ Len(<<DevSlot>>) = 1
  BY DEF SlotSet
<1>5. /\ OpenOrder \in Seq(SlotSet) /\ AttachOrder \in Seq(SlotSet)
  BY <1>2, <1>3, <1>4 DEF OpenOrder, AttachOrder
<1>6. Len(AttachOrder) > 0
  BY <1>2, <1>3, <1>4 DEF AttachOrder
<1> QED
  BY <1>5, <1>6

\* A slot is one of a bind mount exactly if its name says so.
LEMMA SlotCases ==
  ASSUME NEW slot \in SlotSet
  PROVE  \/ slot[1] = "bind" /\ slot[2] \in DOMAIN cfg.binds /\ slot = BindSlot(slot[2])
         \/ slot \in {DevSlot, ProcSlot, DnsSlot} /\ slot[1] \in {"dev", "proc", "dns"}
  BY DEF SlotSet, BindSlot, DevSlot, ProcSlot, DnsSlot

\* The sources are held one after the other, and all of them before anything is
\* looked at or mounted.
HoldInv ==
  /\ pc \in {"validate", "open"} => held = <<>>
  /\ pc = "hold" => i = Len(held) + 1
  /\ pc \notin {"validate", "open", "hold", "unwind", "failed", "dead"}
       => Len(held) = Len(cfg.binds)

TypeInv == TypeOK /\ HoldInv

\* Every slot has a path of the new root.
LEMMA TargetPathType ==
  ASSUME TypeOK, NEW slot \in SlotSet
  PROVE  TargetPath(slot) \in Paths
  BY SlotCases, ConfigType, IsolationAssumption DEF TargetPath, Bind

\* What is mounted is a directory or a file.
LEMMA ObjectKind ==
  ASSUME TypeOK, Len(held) = Len(cfg.binds), NEW slot \in SlotSet
  PROVE  Object(slot).kind \in {"dir", "file"}
<1>1. CASE slot[1] = "bind"
  <2>1. slot[2] \in DOMAIN cfg.binds
    BY <1>1, SlotCases DEF DevSlot, ProcSlot, DnsSlot
  <2>2. slot[2] \in DOMAIN held
    BY <2>1, ConfigType DEF TypeOK
  <2> DEFINE Held == [path : HostPaths, gen : Nat, kind : {"dir", "file"}]
  <2>3. held[slot[2]] \in Held
    <3>1. held \in Seq(Held)
      BY DEF TypeOK
    <3> HIDE DEF Held
    <3> QED
      BY <2>2, <3>1
  <2> QED
    BY <1>1, <2>3 DEF Object
<1>2. CASE slot[1] # "bind"
  BY <1>2 DEF Object
<1> QED
  BY <1>1, <1>2

\* The isolation begins with types in order.
LEMMA TypeInit == Init => TypeInv
<1> SUFFICES ASSUME Init PROVE TypeInv
  OBVIOUS
<1>1. kind \in [Paths -> Kinds] /\ gen \in [Paths -> Nat]
  BY IsolationAssumption DEF Init
<1>2. source \in [HostPaths -> [gen : Nat, kind : Kinds]]
  BY IsolationAssumption DEF Init
<1>3. held = <<>> /\ held \in Seq([path : HostPaths, gen : Nat, kind : {"dir", "file"}])
  BY DEF Init
<1>4. TypeOK
  <2>1. cfg \in Configs /\ pc \in Labels /\ i \in Nat \ {0}
    BY DEF Init, Labels
  <2>2. /\ needsOverlay \in BOOLEAN /\ stage \in StageStates
        /\ stageDir \in BOOLEAN /\ reported \in BOOLEAN /\ oldRoot \in BOOLEAN
    BY DEF Init, StageStates
  <2>3. rootAttrs \subseteq Attributes /\ nestedAttrs \subseteq Attributes
    BY DEF Init
  <2>4. made \subseteq Paths /\ replaced \in Nat
    BY DEF Init
  <2> QED
    BY <1>1, <1>2, <1>3, <2>1, <2>2, <2>3, <2>4 DEF TypeOK
<1>5. HoldInv
  BY <1>3 DEF Init, HoldInv
<1> QED
  BY <1>4, <1>5 DEF TypeInv

\* Held sources, as one type.
HeldType == [path : HostPaths, gen : Nat, kind : {"dir", "file"}]

\* Steps of the control that leave the trees, the sources and the mounts alone.
LEMMA TypeQuiet ==
  ASSUME TypeInv, UNCHANGED <<cfg, hostVars, held>>,
         pc' \in Labels, i' \in Nat \ {0},
         needsOverlay' \in BOOLEAN,
         stage' \in StageStates, stageDir' \in BOOLEAN, reported' \in BOOLEAN,
         rootAttrs' \subseteq Attributes, nestedAttrs' \subseteq Attributes,
         oldRoot' \in BOOLEAN,
         HoldInv'
  PROVE  TypeInv'
  BY DEF TypeInv, TypeOK, hostVars

\* A step that leaves the held descriptors alone.
LEMMA HoldQuiet ==
  ASSUME HoldInv, UNCHANGED <<cfg, held>>,
         pc \notin {"validate", "open", "hold", "unwind", "failed", "dead"},
         pc' \notin {"validate", "open", "hold"}
  PROVE  HoldInv'
  BY DEF HoldInv

\* A clean-up leaves the variables of the staging in their types.
LEMMA CleanupTypes ==
  ASSUME NEW left, NEW failing, Cleanup(left, failing)
  PROVE  left \in StageStates /\ stageDir' \in BOOLEAN /\ failing \in BOOLEAN
  BY DEF Cleanup, StageStates

\* Every step keeps the types.
LEMMA TypeStep == TypeInv /\ [Next]_vars => TypeInv'
<1> SUFFICES ASSUME TypeInv, [Next]_vars PROVE TypeInv'
  OBVIOUS
<1>0. TypeOK /\ HoldInv
  BY DEF TypeInv
<1>a. /\ needsOverlay \in BOOLEAN /\ stage \in StageStates
      /\ stageDir \in BOOLEAN /\ reported \in BOOLEAN
      /\ rootAttrs \subseteq Attributes /\ nestedAttrs \subseteq Attributes
      /\ oldRoot \in BOOLEAN
      /\ pc \in Labels /\ i \in Nat \ {0}
  BY <1>0 DEF TypeOK
<1> USE DEF GoTo, Return
<1>1. CASE Validate
  <2>1. HoldInv'
    BY <1>0, <1>1 DEF Validate, HoldInv
  <2> QED
    BY <1>1, <1>a, <2>1, TypeQuiet DEF Validate, Labels, stageVars, mountVars
<1>2. CASE OpenRoot
  <2>1. HoldInv'
    <3>1. cfg.binds = <<>> => Len(cfg.binds) = 0
      OBVIOUS
    <3> QED
      BY <1>0, <1>2, <3>1 DEF OpenRoot, HoldInv
  <2> QED
    BY <1>2, <1>a, <2>1, TypeQuiet DEF OpenRoot, Labels, stageVars, mountVars
<1>3. CASE HoldSource
  <2>1. CASE UNCHANGED held /\ pc' = "unwind" /\ i' = 1
    <3>1. HoldInv'
      BY <2>1 DEF HoldInv
    <3> QED
      BY <1>3, <1>a, <2>1, <3>1, TypeQuiet DEF HoldSource, Labels, stageVars, mountVars
  <2>2. CASE ~(UNCHANGED held /\ pc' = "unwind" /\ i' = 1)
    <3> DEFINE h == cfg.binds[i].source
               o == [path |-> h, gen |-> source[h].gen, kind |-> source[h].kind]
    <3>1. /\ ForEach("hold", cfg.binds, "preflight")
          /\ source[h].kind \in {"dir", "file"}
          /\ held' = Append(held, o)
      BY <1>3, <2>2 DEF HoldSource
    <3>2. h \in HostPaths
      BY <1>0, <3>1, ConfigType DEF ForEach, Bind
    <3>3. o \in HeldType
      BY <1>0, <3>1, <3>2 DEF HeldType, TypeOK
    <3>4. held \in Seq(HeldType)
      BY <1>0 DEF TypeOK, HeldType
    <3> HIDE DEF o
    <3>5. held' \in Seq(HeldType) /\ Len(held') = Len(held) + 1
      BY <3>1, <3>3, <3>4
    <3>6. HoldInv'
      <4>1. UNCHANGED cfg /\ i = Len(held) + 1
        BY <1>0, <1>3, <3>1 DEF HoldSource, HoldInv, ForEach
      <4> QED
        BY <1>a, <3>1, <3>5, <4>1 DEF HoldInv, ForEach
    <3>7. pc' \in Labels /\ i' \in Nat \ {0}
      BY <1>a, <3>1 DEF ForEach, Labels
    <3> QED
      BY <1>0, <1>3, <3>5, <3>6, <3>7
      DEF HoldSource, TypeInv, TypeOK, HeldType, hostVars, stageVars, mountVars
  <2> QED
    BY <2>1, <2>2
<1>4. CASE PreflightTarget
  <2>1. pc = "preflight" /\ pc' \in {"preflight", "private", "unwind"} /\ i' \in Nat \ {0}
    BY <1>4, <1>a DEF PreflightTarget, ForEach
  <2>2. HoldInv'
    BY <1>0, <1>4, <2>1, HoldQuiet DEF PreflightTarget
  <2>3. needsOverlay' \in BOOLEAN
    BY <1>4, <1>a DEF PreflightTarget
  <2> QED
    BY <1>4, <1>a, <2>1, <2>2, <2>3, TypeQuiet DEF PreflightTarget, Labels, stageVars, mountVars
<1>5. CASE MakePrivate
  <2>1. pc' \in {"stage", "root", "unwind"} /\ pc = "private" /\ i' = 1
    BY <1>5 DEF MakePrivate
  <2>2. HoldInv'
    BY <1>0, <1>5, <2>1, HoldQuiet DEF MakePrivate
  <2> QED
    BY <1>5, <1>a, <2>1, <2>2, TypeQuiet DEF MakePrivate, Labels, stageVars, mountVars
<1>6. CASE MakeStageDir
  <2>1. HoldInv'
    BY <1>0, <1>6, HoldQuiet DEF MakeStageDir
  <2>2. stage' \in StageStates /\ stageDir' \in BOOLEAN /\ reported' \in BOOLEAN
    BY <1>6, <1>a DEF MakeStageDir, StageStates
  <2>3. pc' \in Labels /\ i' \in Nat \ {0}
    BY <1>6 DEF MakeStageDir, Labels
  <2> QED
    BY <1>6, <1>a, <2>1, <2>2, <2>3, TypeQuiet DEF MakeStageDir, mountVars
<1>7. CleanupOnError => /\ stage' \in StageStates /\ stageDir' \in BOOLEAN
                        /\ reported' \in BOOLEAN /\ pc' = "failed" /\ i' = 1
  <2> SUFFICES ASSUME CleanupOnError
               PROVE  /\ stage' \in StageStates /\ stageDir' \in BOOLEAN
                      /\ reported' \in BOOLEAN /\ pc' = "failed" /\ i' = 1
    OBVIOUS
  <2>1. PICK left \in StageStates, failing \in BOOLEAN :
          Cleanup(left, failing) /\ reported' = (reported \/ failing)
    BY DEF CleanupOnError
  <2>2. stageDir' \in BOOLEAN
    BY <2>1, CleanupTypes
  <2>3. reported' \in BOOLEAN
    BY <2>1
  <2>4. stage' = "nil" /\ pc' = "failed" /\ i' = 1
    BY DEF CleanupOnError
  <2> QED
    BY <2>2, <2>3, <2>4 DEF StageStates
<1>8. CASE MountStage
  <2>1. pc' \in {"overlay", "failed"} /\ pc = "stageMount" /\ i' = 1
    BY <1>7, <1>8 DEF MountStage
  <2>2. HoldInv'
    BY <1>0, <1>8, <2>1, HoldQuiet DEF MountStage
  <2>3. stage' \in StageStates /\ stageDir' \in BOOLEAN /\ reported' \in BOOLEAN
    BY <1>7, <1>8, <1>a DEF MountStage, StageStates
  <2> QED
    BY <1>8, <1>a, <2>1, <2>2, <2>3, TypeQuiet DEF MountStage, Labels, mountVars
<1>9. CASE MountOverlay
  <2>1. pc' \in {"root", "failed"} /\ pc = "overlay" /\ i' = 1
    BY <1>7, <1>9 DEF MountOverlay
  <2>2. HoldInv'
    BY <1>0, <1>9, <2>1, HoldQuiet DEF MountOverlay
  <2>3. stage' \in StageStates /\ stageDir' \in BOOLEAN /\ reported' \in BOOLEAN
    BY <1>7, <1>9, <1>a DEF MountOverlay, stageVars
  <2> QED
    BY <1>9, <1>a, <2>1, <2>2, <2>3, TypeQuiet DEF MountOverlay, Labels, mountVars
<1>10. CASE AttachRoot
  <2>1. HoldInv'
    BY <1>0, <1>10, HoldQuiet DEF AttachRoot
  <2> QED
    BY <1>10, <1>a, <2>1, TypeQuiet DEF AttachRoot, Labels, stageVars, mountVars
<1>11. CASE OpenTarget
  <2>1. pc = "targets" /\ pc' \in {"targets", "seal", "unwind"} /\ i' \in Nat \ {0}
    BY <1>11, <1>a DEF OpenTarget, ForEach
  <2>2. HoldInv'
    BY <1>0, <1>11, <2>1, HoldQuiet DEF OpenTarget
  <2>3. kind' \in [Paths -> Kinds] /\ made' \subseteq Paths
    <3>1. CASE UNCHANGED <<kind, made>>
      BY <1>0, <3>1 DEF TypeOK
    <3>2. CASE ~UNCHANGED <<kind, made>>
      <4> DEFINE slot == OpenOrder[i]
                 p == TargetPath(slot)
                 k == Object(slot).kind
      <4>1. ForEach("targets", OpenOrder, "seal") /\ CreateTarget(p, k)
        BY <1>11, <3>2 DEF OpenTarget
      <4>2. slot \in SlotSet
        BY <1>0, <4>1, OrderTypes DEF ForEach
      <4>3. p \in Paths
        BY <1>0, <4>2, TargetPathType
      <4>4. k \in {"dir", "file"}
        BY <1>0, <2>1, <4>2, ObjectKind DEF HoldInv
      <4>5. Parents(p) \subseteq Paths
        BY <4>3, IsolationAssumption
      <4> HIDE DEF slot, p, k
      <4>6. kind \in [Paths -> Kinds] /\ made \subseteq Paths
        BY <1>0 DEF TypeOK
      <4> QED
        BY <4>1, <4>3, <4>4, <4>5, <4>6 DEF CreateTarget, Kinds
    <3> QED
      BY <3>1, <3>2
  <2> QED
    BY <1>0, <1>11, <2>1, <2>2, <2>3
    DEF OpenTarget, TypeInv, TypeOK, Labels, stageVars, mountVars
<1>12. CASE SealRoot
  <2>1. pc = "seal" /\ pc' \in {"attach", "unwind"} /\ i' = 1
    BY <1>12 DEF SealRoot
  <2>2. HoldInv'
    BY <1>0, <1>12, <2>1, HoldQuiet DEF SealRoot
  <2>3. rootAttrs' \subseteq Attributes /\ nestedAttrs' \subseteq Attributes
    <3>1. RootSeal \subseteq Attributes
      BY DEF RootSeal, Attributes
    <3> QED
      BY <1>12, <1>a, <3>1 DEF SealRoot
  <2> QED
    BY <1>12, <1>a, <2>1, <2>2, <2>3, TypeQuiet DEF SealRoot, Labels, stageVars
<1>13. CASE AttachMount
  <2>1. pc = "attach" /\ pc' \in {"verify", "unwind"} /\ i' \in {i, 1}
    BY <1>13 DEF AttachMount
  <2>2. HoldInv'
    BY <1>0, <1>13, <2>1, HoldQuiet DEF AttachMount
  <2> QED
    BY <1>13, <1>a, <2>1, <2>2, TypeQuiet DEF AttachMount, Labels, stageVars
<1>14. CASE VerifyMount
  <2>1. /\ pc = "verify" /\ pc' \in {"cleanStage", "populate", "attach", "unwind"}
        /\ i' \in {i + 1, 1}
    BY <1>14 DEF VerifyMount
  <2>2. HoldInv'
    BY <1>0, <1>14, <2>1, HoldQuiet DEF VerifyMount
  <2> QED
    BY <1>14, <1>a, <2>1, <2>2, TypeQuiet DEF VerifyMount, Labels, stageVars, mountVars
<1>15. CASE PopulateDev
  <2>1. pc = "populate" /\ pc' \in {"attach", "unwind"} /\ i' \in {i, 1}
    BY <1>15 DEF PopulateDev
  <2>2. HoldInv'
    BY <1>0, <1>15, <2>1, HoldQuiet DEF PopulateDev
  <2> QED
    BY <1>15, <1>a, <2>1, <2>2, TypeQuiet DEF PopulateDev, Labels, stageVars, mountVars
<1>16. CASE CleanStage
  <2>1. pc = "cleanStage" /\ pc' \in {"pivot", "unwind"}
    BY <1>16 DEF CleanStage
  <2>2. HoldInv'
    BY <1>0, <1>16, <2>1, HoldQuiet DEF CleanStage
  <2>3. stage' \in StageStates /\ stageDir' \in BOOLEAN /\ reported' \in BOOLEAN
    <3>1. CASE UNCHANGED stageVars
      BY <1>a, <3>1 DEF stageVars
    <3>2. CASE ~UNCHANGED stageVars
      <4>1. PICK left \in StageStates :
              \/ Cleanup(left, FALSE) /\ stage' = "nil" /\ UNCHANGED reported
              \/ Cleanup(left, TRUE) /\ stage' = left /\ reported' = TRUE
        BY <1>16, <3>2 DEF CleanStage
      <4>2. stageDir' \in BOOLEAN
        BY <4>1, CleanupTypes
      <4> QED
        BY <1>a, <4>1, <4>2 DEF StageStates
    <3> QED
      BY <3>1, <3>2
  <2> QED
    BY <1>16, <1>a, <2>1, <2>2, <2>3, TypeQuiet DEF CleanStage, Labels, mountVars
<1>17. CASE PivotRoot
  <2>1. HoldInv'
    BY <1>0, <1>17, HoldQuiet DEF PivotRoot
  <2> QED
    BY <1>17, <1>a, <2>1, TypeQuiet DEF PivotRoot, Labels, stageVars, mountVars
<1>18. CASE DetachOldRoot
  <2>1. pc = "detach" /\ pc' \in {"done", "unwind"} /\ i' = 1 /\ oldRoot' \in {oldRoot, FALSE}
    BY <1>18 DEF DetachOldRoot
  <2>2. HoldInv'
    BY <1>0, <1>18, <2>1, HoldQuiet DEF DetachOldRoot
  <2>3. oldRoot' \in BOOLEAN
    BY <1>a, <2>1
  <2> QED
    BY <1>18, <1>a, <2>1, <2>2, <2>3, TypeQuiet DEF DetachOldRoot, Labels, stageVars
<1>19. CASE Unwind
  <2>1. pc' = "failed"
    BY <1>19 DEF Unwind
  <2>2. HoldInv'
    BY <2>1 DEF HoldInv
  <2>3. stage' \in StageStates /\ stageDir' \in BOOLEAN /\ reported' \in BOOLEAN
    <3>1. CASE UNCHANGED stageVars
      BY <1>a, <3>1 DEF stageVars
    <3>2. CASE ~UNCHANGED stageVars
      <4>1. PICK left \in StageStates, failing \in BOOLEAN :
              Cleanup(left, failing) /\ stage' = left /\ reported' = (reported \/ failing)
        BY <1>19, <3>2 DEF Unwind
      <4>2. stageDir' \in BOOLEAN
        BY <4>1, CleanupTypes
      <4> QED
        BY <1>a, <4>1, <4>2
    <3> QED
      BY <3>1, <3>2
  <2> QED
    BY <1>19, <1>a, <2>1, <2>2, <2>3, TypeQuiet DEF Unwind, Labels, mountVars
<1>20. ASSUME NEW p \in Paths, PayloadWrites(p) PROVE TypeInv'
  <2>1. HoldInv'
    BY <1>0, <1>20 DEF PayloadWrites, HoldInv
  <2> QED
    BY <1>20, <1>a, <2>1, TypeQuiet DEF PayloadWrites, stageVars, mountVars
<1>21. ASSUME NEW p \in Paths, HostReplaces(p) PROVE TypeInv'
  <2>1. HoldInv'
    BY <1>0, <1>21 DEF HostReplaces, HoldInv
  <2>2. kind' \in [Paths -> Kinds]
    BY <1>0, <1>21 DEF HostReplaces, TypeOK, Kinds
  <2>3. gen' \in [Paths -> Nat] /\ replaced' \in Nat
    BY <1>0, <1>21 DEF HostReplaces, TypeOK
  <2> QED
    BY <1>0, <1>21, <2>1, <2>2, <2>3
    DEF HostReplaces, TypeInv, TypeOK, stageVars, mountVars
<1>22. ASSUME NEW h \in HostPaths, HostReplacesSource(h) PROVE TypeInv'
  <2>1. HoldInv'
    BY <1>0, <1>22 DEF HostReplacesSource, HoldInv
  <2>2. source' \in [HostPaths -> [gen : Nat, kind : Kinds]] /\ replaced' \in Nat
    BY <1>0, <1>22 DEF HostReplacesSource, TypeOK
  <2> QED
    BY <1>0, <1>22, <2>1, <2>2 DEF HostReplacesSource, TypeInv, TypeOK, stageVars, mountVars
<1>23. CASE Killed
  <2>1. HoldInv'
    BY <1>23 DEF Killed, HoldInv
  <2> QED
    BY <1>23, <1>a, <2>1, TypeQuiet DEF Killed, Labels, stageVars, mountVars
<1>24. CASE UNCHANGED vars
  BY <1>0, <1>24 DEF vars, hostVars, stageVars, mountVars, TypeInv, TypeOK, HoldInv
<1> QED
  BY <1>1, <1>2, <1>3, <1>4, <1>5, <1>6, <1>8, <1>9, <1>10, <1>11, <1>12, <1>13, <1>14,
     <1>15, <1>16, <1>17, <1>18, <1>19, <1>20, <1>21, <1>22, <1>23, <1>24
  DEF Next, IsolateRootFS

\* Type correctness of IsolateRootFS: in particular whatever openBindSource
\* holds is a directory or a file, and the targets that openOrCreateTarget makes
\* are names of the root with a kind of their mount.
THEOREM TypeCorrect == Spec => []TypeOK
<1>1. TypeInv => TypeOK
  BY DEF TypeInv
<1> QED
  BY <1>1, TypeInit, TypeStep, PTL DEF Spec

-----------------------------------------------------------------------------
(* Changes to the host.                                                    *)

\* What a run may change: the sources of the bind mounts declared writable.
Declared == {BindSlot(n) : n \in {m \in DOMAIN cfg.binds : cfg.binds[m].writable}}

Looking == {"validate", "open", "hold", "preflight"}
Staging == {"private", "stage", "stageMount", "overlay", "root", "targets", "seal"}
Assembling == {"attach", "verify", "populate"}
Entering == {"cleanStage", "pivot", "detach", "done"}

\* A bind mount that is not read-only was declared writable.
MountsDeclared ==
  \A m \in DOMAIN mounts :
    mounts[m].slot[1] = "bind" /\ "rdonly" \notin mounts[m].attrs => mounts[m].slot \in Declared

\* Once the targets were looked at, the root is an overlay or read-only; once
\* there are mounts, the seal of the root covers it with all that was mounted
\* inside it.
HostInv ==
  /\ changed \subseteq Declared
  /\ pc \in Staging \cup Assembling \cup Entering => needsOverlay \/ cfg.readOnly
  /\ pc \in Assembling \cup Entering => rootAttrs = RootSeal /\ nestedAttrs = RootSeal
  /\ pc \in Assembling => i <= Len(AttachOrder)
  /\ pc \in Looking \cup Staging => mounts = <<>>
  /\ \E S : mounts \in Seq(S)
  /\ MountsDeclared

\* Wherever a write goes in the sealed root, what it changes was declared.
LEMMA WriteDeclared ==
  ASSUME TypeOK, HostInv, pc \in Assembling \cup Entering, NEW p
  PROVE  WriteReaches(p) \subseteq Declared
<1> DEFINE m == Lookup(p).mount
<1>1. CASE WriteRefused(p)
  BY <1>1 DEF WriteReaches
<1>2. CASE ~WriteRefused(p) /\ m \in DOMAIN mounts
  BY <1>2 DEF WriteReaches, WriteRefused, HostInv, MountsDeclared
<1>3. CASE ~WriteRefused(p) /\ m \notin DOMAIN mounts
  <2>1. rootAttrs = RootSeal /\ nestedAttrs = RootSeal
    BY DEF HostInv
  <2>2. "rdonly" \notin RootSeal
    BY <1>3, <2>1 DEF WriteRefused
  <2>3. needsOverlay
    BY <2>2 DEF RootSeal, HostInv
  <2> QED
    BY <1>3, <2>3 DEF WriteReaches
<1> QED
  BY <1>1, <1>2, <1>3

\* Steps that neither mount nor write.
LEMMA HostQuiet ==
  ASSUME HostInv, UNCHANGED <<cfg, mounts, rootAttrs, nestedAttrs, changed>>,
         pc' \in Staging \cup Assembling \cup Entering => needsOverlay' \/ cfg.readOnly,
         pc' \in Assembling \cup Entering => pc \in Assembling \cup Entering,
         pc' \in Assembling => i' <= Len(AttachOrder),
         pc' \in Looking \cup Staging => pc \in Looking \cup Staging
  PROVE  HostInv'
<1>1. /\ Declared' = Declared /\ RootSeal' = RootSeal
      /\ AttachOrder' = AttachOrder
  BY DEF Declared, RootSeal, AttachOrder, BindSlots, DnsSlots
<1>2. MountsDeclared'
  BY <1>1 DEF HostInv, MountsDeclared
<1>3. \E S : mounts' \in Seq(S)
  BY DEF HostInv
<1> QED
  BY <1>1, <1>2, <1>3 DEF HostInv

\* Every step keeps the changes on the host to what was declared.
LEMMA HostStep == TypeInv /\ HostInv /\ [Next]_vars => HostInv'
<1> SUFFICES ASSUME TypeInv, HostInv, [Next]_vars PROVE HostInv'
  OBVIOUS
<1>0. TypeOK /\ i \in Nat \ {0}
  BY DEF TypeInv, TypeOK
<1> USE DEF GoTo, Return, Looking, Staging, Assembling, Entering, mountVars
<1>1. CASE Validate
  BY <1>1, HostQuiet DEF Validate
<1>2. CASE OpenRoot
  BY <1>2, HostQuiet DEF OpenRoot
<1>3. CASE HoldSource
  BY <1>3, HostQuiet DEF HoldSource, ForEach
<1>4. CASE PreflightTarget
  <2>1. CASE pc' = "unwind"
    BY <1>4, <2>1, HostQuiet DEF PreflightTarget
  <2>2. CASE pc' # "unwind"
    <3>1. pc = "preflight" /\ pc' \in {"preflight", "private"}
      BY <1>4, <2>2 DEF PreflightTarget, ForEach
    <3>2. needsOverlay' \/ cfg.readOnly
      BY <1>4, <2>2 DEF PreflightTarget
    <3> QED
      BY <1>4, <3>1, <3>2, HostQuiet DEF PreflightTarget
  <2> QED
    BY <2>1, <2>2
<1>5. CASE MakePrivate
  <2>1. pc = "private" /\ pc' \in {"stage", "root", "unwind"}
    BY <1>5 DEF MakePrivate
  <2> QED
    BY <1>5, <2>1, HostQuiet DEF MakePrivate, HostInv
<1>6. CASE MakeStageDir
  BY <1>6, HostQuiet DEF MakeStageDir, HostInv
<1>7. CASE MountStage
  BY <1>7, HostQuiet DEF MountStage, CleanupOnError, HostInv
<1>8. CASE MountOverlay
  BY <1>8, HostQuiet DEF MountOverlay, CleanupOnError, HostInv
<1>9. CASE AttachRoot
  BY <1>9, HostQuiet DEF AttachRoot, HostInv
<1>10. CASE OpenTarget
  <2>1. pc = "targets" /\ pc' \in {"targets", "seal", "unwind"}
    BY <1>10 DEF OpenTarget, ForEach
  <2> QED
    BY <1>10, <2>1, HostQuiet DEF OpenTarget, HostInv
<1>11. CASE SealRoot
  <2>1. CASE pc' = "unwind"
    BY <1>11, <2>1, HostQuiet DEF SealRoot
  <2>2. CASE pc' # "unwind"
    <3>1. pc = "seal" /\ pc' = "attach" /\ i' = 1 /\ UNCHANGED <<cfg, needsOverlay, changed>>
      BY <1>11, <2>2 DEF SealRoot
    <3>2. /\ Declared' = Declared /\ RootSeal' = RootSeal /\ AttachOrder' = AttachOrder
      BY <3>1 DEF Declared, RootSeal, AttachOrder, BindSlots, DnsSlots
    <3>3. rootAttrs' = RootSeal /\ nestedAttrs' = RootSeal
      BY <1>11, <2>2 DEF SealRoot
    <3>4. mounts' = <<>>
      <4>1. mounts = <<>> /\ DOMAIN mounts = {}
        BY <3>1 DEF HostInv
      <4> QED
        BY <1>11, <2>2, <4>1 DEF SealRoot
    <3>5. MountsDeclared' /\ \E S : mounts' \in Seq(S)
      BY <3>4 DEF MountsDeclared
    <3>6. 1 <= Len(AttachOrder)
      BY <1>0, OrderTypes
    <3> QED
      BY <3>1, <3>2, <3>3, <3>5, <3>6 DEF HostInv
  <2> QED
    BY <2>1, <2>2
<1>12. CASE AttachMount
  <2>1. CASE pc' = "unwind"
    BY <1>12, <2>1, HostQuiet DEF AttachMount
  <2>2. CASE pc' # "unwind"
    <3> DEFINE slot == AttachOrder[i]
               m == [slot |-> slot, node |-> TargetNode(slot),
                     object |-> Object(slot), attrs |-> Attrs(slot)]
    <3>1. /\ pc = "attach" /\ pc' = "verify" /\ i' = i /\ mounts' = Append(mounts, m)
          /\ UNCHANGED <<cfg, needsOverlay, changed, rootAttrs, nestedAttrs>>
      BY <1>12, <2>2 DEF AttachMount
    <3>2. /\ Declared' = Declared /\ RootSeal' = RootSeal /\ AttachOrder' = AttachOrder
      BY <3>1 DEF Declared, RootSeal, AttachOrder, BindSlots, DnsSlots
    <3>3. slot \in SlotSet
      BY <1>0, <3>1, OrderTypes DEF HostInv
    <3>4. m.slot[1] = "bind" /\ "rdonly" \notin m.attrs => m.slot \in Declared
      <4>1. SUFFICES ASSUME slot[1] = "bind", "rdonly" \notin Attrs(slot)
                     PROVE  slot \in Declared
        OBVIOUS
      <4>2. slot[2] \in DOMAIN cfg.binds /\ slot = BindSlot(slot[2])
        BY <3>3, <4>1, SlotCases
      <4>3. cfg.binds[slot[2]].writable
        BY <4>1 DEF Attrs
      <4> QED
        BY <4>2, <4>3 DEF Declared
    <3> HIDE DEF m
    <3>5. PICK S : mounts \in Seq(S)
      BY DEF HostInv
    <3>6. mounts \in Seq(S \cup {m}) /\ m \in S \cup {m}
      BY <3>5
    <3>7. mounts' \in Seq(S \cup {m})
      BY <3>1, <3>6
    <3>8. MountsDeclared'
      <4> SUFFICES ASSUME NEW n \in DOMAIN mounts',
                          mounts'[n].slot[1] = "bind", "rdonly" \notin mounts'[n].attrs
                   PROVE  mounts'[n].slot \in Declared
        BY <3>2 DEF MountsDeclared
      <4>1. CASE n \in DOMAIN mounts
        <5>1. mounts'[n] = mounts[n]
          BY <3>1, <3>6, <4>1
        <5> QED
          BY <4>1, <5>1 DEF HostInv, MountsDeclared
      <4>2. CASE n \notin DOMAIN mounts
        <5>1. mounts'[n] = m
          BY <3>1, <3>6, <4>2
        <5> QED
          BY <3>4, <5>1
      <4> QED
        BY <4>1, <4>2
    <3> QED
      BY <3>1, <3>2, <3>7, <3>8 DEF HostInv
  <2> QED
    BY <2>1, <2>2
<1>13. CASE VerifyMount
  <2>1. pc = "verify" /\ pc' \in {"cleanStage", "populate", "attach", "unwind"}
    BY <1>13 DEF VerifyMount
  <2>2. pc' \in Assembling => i' <= Len(AttachOrder)
    <3>1. Len(AttachOrder) \in Nat /\ i <= Len(AttachOrder)
      BY <1>0, <2>1, OrderTypes DEF HostInv
    <3> QED
      BY <1>0, <1>13, <3>1 DEF VerifyMount
  <2> QED
    BY <1>13, <2>1, <2>2, HostQuiet DEF VerifyMount, HostInv
<1>14. CASE PopulateDev
  <2>1. CASE pc' = "unwind"
    BY <1>14, <2>1, HostQuiet DEF PopulateDev
  <2>2. CASE pc' # "unwind"
    <3>1. /\ pc = "populate" /\ pc' = "attach" /\ i' = i
          /\ changed' = changed \cup WriteReaches(Dev)
          /\ UNCHANGED <<cfg, needsOverlay, mounts, rootAttrs, nestedAttrs>>
      BY <1>14, <2>2 DEF PopulateDev
    <3>2. /\ Declared' = Declared /\ RootSeal' = RootSeal /\ AttachOrder' = AttachOrder
      BY <3>1 DEF Declared, RootSeal, AttachOrder, BindSlots, DnsSlots
    <3>3. WriteReaches(Dev) \subseteq Declared
      BY <1>0, <3>1, WriteDeclared
    <3> QED
      BY <3>1, <3>2, <3>3 DEF HostInv, MountsDeclared
  <2> QED
    BY <2>1, <2>2
<1>15. CASE CleanStage
  <2>1. pc = "cleanStage" /\ pc' \in {"pivot", "unwind"}
    BY <1>15 DEF CleanStage
  <2> QED
    BY <1>15, <2>1, HostQuiet DEF CleanStage, HostInv
<1>16. CASE PivotRoot
  BY <1>16, HostQuiet DEF PivotRoot, HostInv
<1>17. CASE DetachOldRoot
  BY <1>17, HostQuiet DEF DetachOldRoot, HostInv
<1>18. CASE Unwind
  BY <1>18, HostQuiet DEF Unwind
<1>19. ASSUME NEW p \in Paths, PayloadWrites(p) PROVE HostInv'
  <2>1. /\ pc = "done" /\ pc' = pc /\ i' = i
        /\ changed' = changed \cup WriteReaches(p)
        /\ UNCHANGED <<cfg, needsOverlay, mounts, rootAttrs, nestedAttrs>>
    BY <1>19 DEF PayloadWrites
  <2>2. /\ Declared' = Declared /\ RootSeal' = RootSeal /\ AttachOrder' = AttachOrder
    BY <2>1 DEF Declared, RootSeal, AttachOrder, BindSlots, DnsSlots
  <2>3. WriteReaches(p) \subseteq Declared
    BY <1>0, <2>1, WriteDeclared
  <2> QED
    BY <2>1, <2>2, <2>3 DEF HostInv, MountsDeclared
<1>20. ASSUME NEW p \in Paths, HostReplaces(p) PROVE HostInv'
  BY <1>20, HostQuiet DEF HostReplaces, HostInv
<1>21. ASSUME NEW h \in HostPaths, HostReplacesSource(h) PROVE HostInv'
  BY <1>21, HostQuiet DEF HostReplacesSource, HostInv
<1>22. CASE Killed
  BY <1>22, HostQuiet DEF Killed
<1>23. CASE UNCHANGED vars
  BY <1>23, HostQuiet DEF vars, HostInv
<1> QED
  BY <1>1, <1>2, <1>3, <1>4, <1>5, <1>6, <1>7, <1>8, <1>9, <1>10, <1>11, <1>12, <1>13, <1>14,
     <1>15, <1>16, <1>17, <1>18, <1>19, <1>20, <1>21, <1>22, <1>23
  DEF Next, IsolateRootFS

\* Whatever the host replaces meanwhile, neither IsolateRootFS nor the payload
\* changes anything of the host but the sources of bind mounts that were declared
\* writable: the overlay or the recursive seal of the root (attachPrivateDev,
\* setRecursiveMountAttrs) stands between.
THEOREM HostProtected == Spec => []HostChangesDeclared
<1>1. Init => HostInv
  <2> SUFFICES ASSUME Init PROVE HostInv
    OBVIOUS
  <2>1. mounts = <<>> /\ changed = {} /\ pc = "validate"
    BY DEF Init
  <2>2. MountsDeclared /\ \E S : mounts \in Seq(S)
    BY <2>1 DEF MountsDeclared
  <2> QED
    BY <2>1, <2>2 DEF HostInv, Looking, Staging, Assembling, Entering
<1>2. HostInv => HostChangesDeclared
  BY DEF HostInv, HostChangesDeclared, Declared
<1> QED
  BY <1>1, <1>2, TypeInit, TypeStep, HostStep, PTL DEF Spec
-----------------------------------------------------------------------------
(* Paths and orders.                                                       *)

\* The first n components of a path.
Prefix(p, n) == SubSeq(p, 1, n)

\* The prefixes of a path are paths.
LEMMA Prefixes ==
  ASSUME NEW p \in Paths
  PROVE  /\ p \in Seq(STRING) /\ Len(p) \in Nat \ {0}
         /\ Prefix(p, Len(p)) = p
         /\ \A n \in 1 .. Len(p) :
              /\ Prefix(p, n) \in Paths /\ Len(Prefix(p, n)) = n
              /\ \A j \in 1 .. n : Prefix(Prefix(p, n), j) = Prefix(p, j)
<1>1. p \in Seq(STRING) /\ p # <<>>
  BY IsolationAssumption
<1>2. Len(p) \in Nat \ {0}
  BY <1>1, EmptySeq
<1>3. Prefix(p, Len(p)) = p
  BY <1>1, SubSeqFull DEF Prefix
<1>4. ASSUME NEW n \in 1 .. Len(p)
      PROVE  /\ Prefix(p, n) \in Paths /\ Len(Prefix(p, n)) = n
             /\ \A j \in 1 .. n : Prefix(Prefix(p, n), j) = Prefix(p, j)
  <2>1. Prefix(p, n) \in Seq(STRING) /\ Len(Prefix(p, n)) = n
        /\ \A j \in 1 .. n : Prefix(p, n)[j] = p[j]
    BY <1>1, <1>2 DEF Prefix
  <2>2. Prefix(p, n) \in Paths
    <3>1. CASE n = Len(p)
      BY <1>3, <3>1
    <3>2. CASE n # Len(p)
      <4>1. n \in 1 .. Len(p) - 1
        BY <1>2, <3>2
      <4>2. Prefix(p, n) \in Parents(p)
        BY <4>1 DEF Parents, Prefix
      <4> QED
        BY <4>2, IsolationAssumption
    <3> QED
      BY <3>1, <3>2
  <2>3. ASSUME NEW j \in 1 .. n PROVE Prefix(Prefix(p, n), j) = Prefix(p, j)
    <3>1. /\ Prefix(p, j) \in Seq(STRING) /\ Len(Prefix(p, j)) = j
          /\ \A k \in 1 .. j : Prefix(p, j)[k] = p[k]
      BY <1>1, <1>2 DEF Prefix
    <3> DEFINE q == Prefix(p, n)
    <3>2. q \in Seq(STRING) /\ Len(q) = n /\ \A k \in 1 .. n : q[k] = p[k]
      BY <2>1
    <3> HIDE DEF q
    <3>3. /\ Prefix(q, j) \in Seq(STRING) /\ Len(Prefix(q, j)) = j
          /\ \A k \in 1 .. j : Prefix(q, j)[k] = q[k]
      BY <3>2 DEF Prefix
    <3>4. \A k \in 1 .. j : Prefix(q, j)[k] = Prefix(p, j)[k]
      BY <3>1, <3>2, <3>3
    <3>5. Prefix(q, j) = Prefix(p, j)
      BY ONLY <3>1, <3>3, <3>4, SeqEqual
    <3> QED
      BY <3>5 DEF q
  <2> QED
    BY <2>1, <2>2, <2>3
<1> QED
  BY <1>1, <1>2, <1>3, <1>4

\* Which slot is where in the orders in which targets are opened and mounted.
LEMMA OrderElements ==
  ASSUME TypeOK
  PROVE  LET N == Len(cfg.binds) IN
         /\ N \in Nat /\ DOMAIN cfg.binds = 1 .. N
         /\ Len(AttachOrder) = (IF cfg.dns THEN N + 3 ELSE N + 2) /\ Len(OpenOrder) = Len(AttachOrder)
         /\ DOMAIN AttachOrder = 1 .. Len(AttachOrder) /\ DOMAIN OpenOrder = 1 .. Len(AttachOrder)
         /\ AttachOrder[1] = DevSlot /\ \A n \in 1 .. N : AttachOrder[n + 1] = BindSlot(n)
         /\ AttachOrder[N + 2] = ProcSlot /\ (cfg.dns => AttachOrder[N + 3] = DnsSlot)
         /\ \A n \in 1 .. N : OpenOrder[n] = BindSlot(n)
         /\ OpenOrder[N + 1] = DevSlot /\ OpenOrder[N + 2] = ProcSlot
         /\ cfg.dns => OpenOrder[N + 3] = DnsSlot
<1> DEFINE N == Len(cfg.binds)
           Any == {BindSlot(n) : n \in DOMAIN cfg.binds} \cup {DevSlot, ProcSlot, DnsSlot}
<1>1. N \in Nat /\ DOMAIN cfg.binds = 1 .. N
  BY ConfigType
<1>2. BindSlots \in Seq(Any) /\ Len(BindSlots) = N /\ \A n \in 1 .. N : BindSlots[n] = BindSlot(n)
  BY <1>1 DEF BindSlots
<1>3. DnsSlots \in Seq(Any) /\ Len(DnsSlots) = IF cfg.dns THEN 1 ELSE 0
  <2>1. CASE cfg.dns
    <3>1. DnsSlots = <<DnsSlot>>
      BY <2>1 DEF DnsSlots
    <3>2. DnsSlot \in Any
      OBVIOUS
    <3> HIDE DEF Any
    <3> QED
      BY <2>1, <3>1, <3>2
  <2>2. CASE ~cfg.dns
    <3>1. DnsSlots = <<>>
      BY <2>2 DEF DnsSlots
    <3> HIDE DEF Any
    <3> QED
      BY <2>2, <3>1
  <2> QED
    BY <2>1, <2>2
<1>4. cfg.dns => DnsSlots[1] = DnsSlot
  BY DEF DnsSlots
<1>5. /\ <<DevSlot>> \in Seq(Any) /\ <<ProcSlot>> \in Seq(Any) /\ <<DevSlot, ProcSlot>> \in Seq(Any)
      /\ Len(<<DevSlot>>) = 1 /\ Len(<<ProcSlot>>) = 1 /\ Len(<<DevSlot, ProcSlot>>) = 2
      /\ <<DevSlot>>[1] = DevSlot /\ <<ProcSlot>>[1] = ProcSlot
      /\ <<DevSlot, ProcSlot>>[1] = DevSlot /\ <<DevSlot, ProcSlot>>[2] = ProcSlot
  OBVIOUS
<1> HIDE DEF N, Any
<1>6. \A A, B \in Seq(Any) : /\ A \o B \in Seq(Any) /\ Len(A \o B) = Len(A) + Len(B)
                             /\ \A k \in 1 .. Len(A) : (A \o B)[k] = A[k]
                             /\ \A k \in 1 .. Len(B) : (A \o B)[Len(A) + k] = B[k]
  OBVIOUS
<1> DEFINE X == <<DevSlot>> \o BindSlots
           Y == X \o <<ProcSlot>>
           Z == BindSlots \o <<DevSlot, ProcSlot>>
<1>7. /\ X \in Seq(Any) /\ Len(X) = N + 1 /\ X[1] = DevSlot
      /\ \A n \in 1 .. N : X[1 + n] = BindSlot(n)
  BY <1>1, <1>2, <1>5, <1>6
<1> HIDE DEF X
<1>8. /\ Y \in Seq(Any) /\ Len(Y) = N + 2 /\ Y[1] = DevSlot
      /\ \A n \in 1 .. N : Y[1 + n] = BindSlot(n)
      /\ Y[N + 2] = ProcSlot
  <2>1. \A k \in 1 .. N + 1 : Y[k] = X[k]
    BY <1>1, <1>5, <1>6, <1>7
  <2>2. Y[N + 1 + 1] = ProcSlot
    BY <1>1, <1>5, <1>6, <1>7
  <2>3. Y \in Seq(Any) /\ Len(Y) = N + 2
    BY <1>1, <1>5, <1>6, <1>7
  <2> HIDE DEF Y
  <2> QED
    BY <1>1, <1>7, <2>1, <2>2, <2>3
<1>9. /\ Z \in Seq(Any) /\ Len(Z) = N + 2
      /\ \A n \in 1 .. N : Z[n] = BindSlot(n)
      /\ Z[N + 1] = DevSlot /\ Z[N + 2] = ProcSlot
  BY <1>1, <1>2, <1>5, <1>6
<1> HIDE DEF Y, Z
<1> DEFINE Last(s, t) == /\ Len(s) = (IF cfg.dns THEN N + 3 ELSE N + 2) /\ s \in Seq(Any)
                         /\ \A k \in 1 .. N + 2 : s[k] = t[k]
                         /\ cfg.dns => s[N + 3] = DnsSlot
<1>10. ASSUME NEW t \in Seq(Any), Len(t) = N + 2 PROVE Last(t \o DnsSlots, t)
  <2>1. /\ Len(t \o DnsSlots) = N + 2 + Len(DnsSlots) /\ t \o DnsSlots \in Seq(Any)
        /\ \A k \in 1 .. N + 2 : (t \o DnsSlots)[k] = t[k]
        /\ \A k \in 1 .. Len(DnsSlots) : (t \o DnsSlots)[N + 2 + k] = DnsSlots[k]
    BY <1>1, <1>3, <1>6, <1>10
  <2>2. cfg.dns => (t \o DnsSlots)[N + 2 + 1] = DnsSlot
    BY <1>3, <1>4, <2>1
  <2>3. N + 2 + 1 = N + 3
    BY <1>1
  <2> QED
    BY <1>1, <1>3, <2>1, <2>2, <2>3
<1>11. Last(AttachOrder, Y) /\ Last(OpenOrder, Z)
  <2>1. AttachOrder = Y \o DnsSlots /\ OpenOrder = Z \o DnsSlots
    BY DEF AttachOrder, OpenOrder, X, Y, Z
  <2> HIDE DEF Last
  <2> QED
    BY <1>8, <1>9, <1>10, <2>1
<1>12. /\ AttachOrder[1] = DevSlot /\ \A n \in 1 .. N : AttachOrder[n + 1] = BindSlot(n)
       /\ AttachOrder[N + 2] = ProcSlot
  <2>1. \A n \in 1 .. N : n + 1 = 1 + n /\ n + 1 \in 1 .. N + 2
    BY <1>1
  <2>2. \A k \in 1 .. N + 2 : AttachOrder[k] = Y[k]
    BY <1>11
  <2>3. 1 \in 1 .. N + 2 /\ N + 2 \in 1 .. N + 2
    BY <1>1
  <2> QED
    BY ONLY <1>8, <2>1, <2>2, <2>3
<1>13. /\ \A n \in 1 .. N : OpenOrder[n] = BindSlot(n)
       /\ OpenOrder[N + 1] = DevSlot /\ OpenOrder[N + 2] = ProcSlot
  <2>1. \A n \in 1 .. N : n \in 1 .. N + 2
    BY <1>1
  <2>2. \A k \in 1 .. N + 2 : OpenOrder[k] = Z[k]
    BY <1>11
  <2>3. N + 1 \in 1 .. N + 2 /\ N + 2 \in 1 .. N + 2
    BY <1>1
  <2> QED
    BY ONLY <1>9, <2>1, <2>2, <2>3
<1>14. /\ Len(AttachOrder) = (IF cfg.dns THEN N + 3 ELSE N + 2) /\ Len(OpenOrder) = Len(AttachOrder)
       /\ AttachOrder \in Seq(Any) /\ OpenOrder \in Seq(Any)
       /\ cfg.dns => AttachOrder[N + 3] = DnsSlot
       /\ cfg.dns => OpenOrder[N + 3] = DnsSlot
  BY <1>11
<1>15. DOMAIN AttachOrder = 1 .. Len(AttachOrder) /\ DOMAIN OpenOrder = 1 .. Len(AttachOrder)
  BY <1>14
<1> QED
  BY <1>1, <1>12, <1>13, <1>14, <1>15 DEF N
\* The path of each slot's target.
LEMMA SlotPaths ==
  /\ TargetPath(DevSlot) = Dev /\ TargetPath(ProcSlot) = Proc /\ TargetPath(DnsSlot) = ResolvConf
  /\ \A n : TargetPath(BindSlot(n)) = cfg.binds[n].target
  BY DEF TargetPath, DevSlot, ProcSlot, DnsSlot, BindSlot

\* There is a place in the orders for every bind and the mounts beside them.
LEMMA OrderDomains ==
  ASSUME TypeOK
  PROVE  /\ Len(cfg.binds) \in Nat /\ Len(AttachOrder) \in Nat
         /\ DOMAIN cfg.binds = 1 .. Len(cfg.binds) /\ DOMAIN cfg.binds \subseteq Nat
         /\ DOMAIN AttachOrder = 1 .. Len(AttachOrder) /\ DOMAIN AttachOrder \subseteq Nat
         /\ DOMAIN OpenOrder = 1 .. Len(AttachOrder) /\ Len(OpenOrder) = Len(AttachOrder)
<1>1. /\ Len(cfg.binds) \in Nat /\ DOMAIN cfg.binds = 1 .. Len(cfg.binds)
      /\ Len(AttachOrder) = IF cfg.dns THEN Len(cfg.binds) + 3 ELSE Len(cfg.binds) + 2
      /\ DOMAIN AttachOrder = 1 .. Len(AttachOrder) /\ DOMAIN OpenOrder = 1 .. Len(AttachOrder)
      /\ Len(OpenOrder) = Len(AttachOrder)
  BY OrderElements
<1>2. Len(AttachOrder) \in Nat
  <2>1. CASE cfg.dns
    BY <1>1, <2>1
  <2>2. CASE ~cfg.dns
    BY <1>1, <2>2
  <2> QED
    BY <2>1, <2>2
<1>3. DOMAIN AttachOrder \subseteq Nat /\ DOMAIN cfg.binds \subseteq Nat
  BY <1>1, <1>2
<1> QED
  BY <1>1, <1>2, <1>3

\* What a place in the order of mounting stands for.
LEMMA Places ==
  ASSUME TypeOK, NEW m \in DOMAIN AttachOrder
  PROVE  \/ m = 1 /\ AttachOrder[m] = DevSlot
         \/ \E n \in DOMAIN cfg.binds : m = n + 1 /\ AttachOrder[m] = BindSlot(n)
         \/ m = Len(cfg.binds) + 2 /\ AttachOrder[m] = ProcSlot
         \/ cfg.dns /\ m = Len(cfg.binds) + 3 /\ AttachOrder[m] = DnsSlot
<1> DEFINE N == Len(cfg.binds)
<1>1. /\ N \in Nat /\ DOMAIN cfg.binds = 1 .. N
      /\ Len(AttachOrder) = IF cfg.dns THEN N + 3 ELSE N + 2
      /\ m \in 1 .. Len(AttachOrder)
      /\ AttachOrder[1] = DevSlot /\ \A n \in 1 .. N : AttachOrder[n + 1] = BindSlot(n)
      /\ AttachOrder[N + 2] = ProcSlot /\ (cfg.dns => AttachOrder[N + 3] = DnsSlot)
  BY OrderElements
<1> HIDE DEF N
<1>2. m = 1 \/ m - 1 \in 1 .. N \/ m = N + 2 \/ (cfg.dns /\ m = N + 3)
  <2>1. CASE cfg.dns
    <3>1. m \in 1 .. N + 3
      BY <1>1, <2>1
    <3> QED
      BY <1>1, <2>1, <3>1
  <2>2. CASE ~cfg.dns
    <3>1. m \in 1 .. N + 2
      BY <1>1, <2>2
    <3> QED
      BY <1>1, <3>1
  <2> QED
    BY <2>1, <2>2
<1>3. CASE m - 1 \in 1 .. N
  <2>1. m = (m - 1) + 1
    BY <1>1
  <2> QED
    BY <1>1, <1>3, <2>1
<1> QED
  BY <1>1, <1>2, <1>3 DEF N

\* No two mounts of a configuration that the policy accepts have one target...
LEMMA TargetsDiffer ==
  ASSUME TypeOK, BindPolicies(cfg.binds, cfg.dns),
         NEW m \in DOMAIN AttachOrder, NEW k \in DOMAIN AttachOrder,
         TargetPath(AttachOrder[m]) = TargetPath(AttachOrder[k])
  PROVE  m = k
<1>1. Dev # Proc /\ Dev # ResolvConf /\ Proc # ResolvConf
  BY DEF Dev, Proc, ResolvConf
<1>2. \A n \in DOMAIN cfg.binds :
        LET t == cfg.binds[n].target IN t # Dev /\ t # Proc /\ (cfg.dns => t # ResolvConf)
  BY DEF BindPolicies
<1>3. \A n, l \in DOMAIN cfg.binds : n # l => cfg.binds[n].target # cfg.binds[l].target
  BY DEF BindPolicies
<1>4. /\ DOMAIN AttachOrder \subseteq Nat
      /\ DOMAIN cfg.binds \subseteq Nat
  BY OrderDomains
<1> QED
  BY <1>1, <1>2, <1>3, <1>4, Places, SlotPaths

\* ...and what is mounted later goes above what is there only where the private
\* resolv.conf would be a directory.
LEMMA OnlyDnsAbove ==
  ASSUME TypeOK, BindPolicies(cfg.binds, cfg.dns),
         NEW m \in DOMAIN AttachOrder, NEW k \in DOMAIN AttachOrder, m < k,
         IsAncestor(TargetPath(AttachOrder[k]), TargetPath(AttachOrder[m]))
  PROVE  AttachOrder[k] = DnsSlot
<1>1. Len(Dev) = 1 /\ Len(Proc) = 1
  BY DEF Dev, Proc
<1>2. \A p : Len(p) = 1 => Parents(p) = {}
  BY DEF Parents
<1>3. \A p : ~IsAncestor(p, Dev) /\ ~IsAncestor(p, Proc)
  BY <1>1, <1>2 DEF IsAncestor
<1>4. \A n \in DOMAIN cfg.binds : ~IsAncestor(Proc, cfg.binds[n].target)
  BY DEF BindPolicies
<1>5. \A n, l \in DOMAIN cfg.binds :
        n # l => ~IsAncestor(cfg.binds[n].target, cfg.binds[l].target)
  BY DEF BindPolicies
<1>6. /\ DOMAIN AttachOrder \subseteq Nat
      /\ DOMAIN cfg.binds = 1 .. Len(cfg.binds) /\ Len(cfg.binds) \in Nat
      /\ DOMAIN AttachOrder = 1 .. Len(AttachOrder)
  BY OrderDomains
<1>7. CASE k = 1
  BY <1>6, <1>7
<1>8. ASSUME NEW n \in DOMAIN cfg.binds, k = n + 1, AttachOrder[k] = BindSlot(n)
      PROVE  FALSE
  <2>1. TargetPath(AttachOrder[k]) = cfg.binds[n].target
    BY <1>8, SlotPaths
  <2>2. ASSUME NEW l \in DOMAIN cfg.binds, m = l + 1, AttachOrder[m] = BindSlot(l)
        PROVE  FALSE
    <3>1. n # l
      BY <1>6, <1>8, <2>2
    <3>2. TargetPath(AttachOrder[m]) = cfg.binds[l].target
      BY <2>2, SlotPaths
    <3> QED
      BY <1>5, <2>1, <3>1, <3>2
  <2>3. m # Len(cfg.binds) + 2 /\ m # Len(cfg.binds) + 3
    BY <1>6, <1>8
  <2> QED
    BY <1>3, <2>2, <2>3, Places, SlotPaths
<1>9. CASE AttachOrder[k] = ProcSlot /\ k = Len(cfg.binds) + 2
  <2>1. m # Len(cfg.binds) + 2 /\ m # Len(cfg.binds) + 3
    BY <1>6, <1>9
  <2> QED
    BY <1>3, <1>4, <1>9, <2>1, Places, SlotPaths
<1> QED
  BY <1>7, <1>8, <1>9, Places

\* Whatever is mounted was opened.
LEMMA AllOpened ==
  ASSUME TypeOK, NEW m \in DOMAIN AttachOrder
  PROVE  \E n \in DOMAIN OpenOrder : OpenOrder[n] = AttachOrder[m]
<1> DEFINE N == Len(cfg.binds)
<1>1. /\ N \in Nat /\ DOMAIN cfg.binds = 1 .. N
      /\ DOMAIN OpenOrder = 1 .. Len(AttachOrder)
      /\ Len(AttachOrder) = IF cfg.dns THEN N + 3 ELSE N + 2
      /\ \A n \in 1 .. N : OpenOrder[n] = BindSlot(n)
      /\ OpenOrder[N + 1] = DevSlot /\ OpenOrder[N + 2] = ProcSlot
      /\ cfg.dns => OpenOrder[N + 3] = DnsSlot
  BY OrderElements
<1>2. /\ 1 .. N \subseteq DOMAIN OpenOrder
      /\ N + 1 \in DOMAIN OpenOrder /\ N + 2 \in DOMAIN OpenOrder
      /\ cfg.dns => N + 3 \in DOMAIN OpenOrder
  <2>1. CASE cfg.dns
    <3>1. DOMAIN OpenOrder = 1 .. N + 3
      BY <1>1, <2>1
    <3> QED
      BY <1>1, <2>1, <3>1
  <2>2. CASE ~cfg.dns
    <3>1. DOMAIN OpenOrder = 1 .. N + 2
      BY <1>1, <2>2
    <3> QED
      BY <1>1, <2>2, <3>1
  <2> QED
    BY <2>1, <2>2
<1> HIDE DEF N
<1> QED
  BY <1>1, <1>2, Places

\* The private resolv.conf is the last target that is opened.
LEMMA DnsIsLast ==
  ASSUME TypeOK, NEW n \in DOMAIN OpenOrder, OpenOrder[n] = DnsSlot
  PROVE  n = Len(OpenOrder)
<1> DEFINE N == Len(cfg.binds)
<1>1. /\ N \in Nat
      /\ DOMAIN OpenOrder = 1 .. Len(AttachOrder) /\ Len(OpenOrder) = Len(AttachOrder)
      /\ Len(AttachOrder) = IF cfg.dns THEN N + 3 ELSE N + 2
      /\ \A l \in 1 .. N : OpenOrder[l] = BindSlot(l)
      /\ OpenOrder[N + 1] = DevSlot /\ OpenOrder[N + 2] = ProcSlot
  BY OrderElements
<1>2. DevSlot # DnsSlot /\ ProcSlot # DnsSlot /\ \A l : BindSlot(l) # DnsSlot
  BY DEF DevSlot, ProcSlot, DnsSlot, BindSlot
<1> HIDE DEF N
<1>3. n \notin 1 .. N /\ n # N + 1 /\ n # N + 2
  BY <1>1, <1>2
<1> QED
  BY <1>1, <1>3
-----------------------------------------------------------------------------
(* Targets and the names that lead to them.                                *)

\* A nonempty set of naturals has a least member, which is what Min chooses.
LEMMA LeastMember ==
  ASSUME NEW S \in SUBSET Nat, S # {}
  PROVE  Min(S) \in S /\ \A x \in S : Min(S) <= x
<1>1. \E x \in S : \A y \in S : ~(<<y, x>> \in OpToRel(<, Nat))
  BY NatLessThanWellFounded, WFMin
<1>2. PICK x \in S : \A y \in S : ~(<<y, x>> \in OpToRel(<, Nat))
  BY <1>1
<1>3. \A y \in S : ~(y < x)
  <2> SUFFICES ASSUME NEW y \in S, y < x PROVE FALSE
    OBVIOUS
  <2>1. y \in Nat /\ x \in Nat
    OBVIOUS
  <2>2. <<y, x>> \in OpToRel(<, Nat)
    BY Zenon, <2>1 DEF OpToRel
  <2> QED
    BY <1>2, <2>2
<1>4. \A y \in S : x <= y
  BY <1>3
<1> QED
  BY <1>4 DEF Min

\* A name is found if every directory on the way is one.
LEMMA OnTheWay ==
  ASSUME NEW p \in Paths
  PROVE  /\ (\A n \in 1 .. Len(p) - 1 : kind[Prefix(p, n)] = "dir") => Found(p) = kind[p]
         /\ Found(p) \in {"dir", "file"}
              => \A n \in 1 .. Len(p) - 1 : kind[Prefix(p, n)] = "dir"
<1> DEFINE blocked == {n \in 1 .. Len(p) - 1 : kind[SubSeq(p, 1, n)] # "dir"}
<1>1. blocked = {} => Found(p) = kind[p]
  BY DEF Found
<1>2. blocked # {} => Found(p) \in {"none", "other"}
  BY DEF Found
<1>3. blocked = {} <=> \A n \in 1 .. Len(p) - 1 : kind[Prefix(p, n)] = "dir"
  BY DEF Prefix
<1> HIDE DEF blocked
<1> QED
  BY <1>1, <1>2, <1>3

\* The first n names on the way to a node mean what they did when it was opened.
Unreplaced(node, n) == \A j \in 1 .. n : node.gens[j] = gen[Prefix(node.path, j)]

\* Node a lies on the way to node b.
Above(a, b) ==
  /\ Len(a.path) < Len(b.path)
  /\ a.path = Prefix(b.path, Len(a.path))
  /\ a.gens = Prefix(b.gens, Len(a.path))

NodeType == [path : Paths, gens : Seq(Nat)]
TargetType == [slot : SlotSet, node : NodeType]

\* A target is the one of its slot; names that were not replaced since it was
\* opened are still the directories that led to it.
TargetSound(t) ==
  /\ t.node.path = TargetPath(t.slot)
  /\ Len(t.node.gens) = Len(t.node.path)
  /\ \A j \in 1 .. Len(t.node.path) : t.node.gens[j] <= gen[Prefix(t.node.path, j)]
  /\ \A n \in 1 .. Len(t.node.path) - 1 :
       Unreplaced(t.node, n) => kind[Prefix(t.node.path, n)] = "dir"

\* Making a target replaces no directory...
LEMMA SoundWhenMade ==
  ASSUME TypeOK, NEW t \in TargetType, TargetSound(t),
         NEW p \in Paths, NEW k, Found(p) = "none", CreateTarget(p, k), UNCHANGED <<cfg, gen>>
  PROVE  TargetSound(t)'
<1> DEFINE P == t.node.path
<1>1. P \in Paths
  BY DEF TargetType, NodeType
<1>2. TargetPath(t.slot)' = TargetPath(t.slot)
  BY DEF TargetPath
<1>3. \A n : Unreplaced(t.node, n)' <=> Unreplaced(t.node, n)
  BY DEF Unreplaced
<1>4. ASSUME NEW n \in 1 .. Len(P) - 1, Unreplaced(t.node, n)
      PROVE  kind'[Prefix(P, n)] = "dir"
  <2> DEFINE q == Prefix(P, n)
  <2>1. Len(P) \in Nat /\ n \in 1 .. Len(P)
    BY <1>1, Prefixes
  <2>2. /\ q \in Paths /\ Len(q) = n
        /\ \A j \in 1 .. n : Prefix(q, j) = Prefix(P, j)
    BY <1>1, <2>1, Prefixes
  <2>3. \A j \in 1 .. n : kind[Prefix(P, j)] = "dir"
    <3> TAKE j \in 1 .. n
    <3>1. j \in 1 .. Len(P) - 1
      BY <2>1
    <3>2. Unreplaced(t.node, j)
      BY <1>4 DEF Unreplaced
    <3> QED
      BY <3>1, <3>2 DEF TargetSound
  <2>4. kind[q] = "dir"
    BY <2>3
  <2>5. Found(q) = kind[q]
    <3>1. \A j \in 1 .. Len(q) - 1 : kind[Prefix(q, j)] = "dir"
      BY <2>2, <2>3
    <3> QED
      BY <2>2, <3>1, OnTheWay
  <2>6. q # p
    BY <2>4, <2>5
  <2> HIDE DEF q
  <2>7. kind'[q] = IF q \in Parents(p) THEN "dir" ELSE kind[q]
    BY <2>2, <2>6 DEF CreateTarget
  <2> QED
    BY <2>4, <2>7 DEF q
<1> QED
  BY <1>2, <1>3, <1>4 DEF TargetSound

\* ...and the host can replace one only by giving its name a new generation.
LEMMA SoundWhenReplaced ==
  ASSUME TypeOK, NEW t \in TargetType, TargetSound(t),
         NEW p \in Paths, HostReplaces(p)
  PROVE  TargetSound(t)'
<1> DEFINE P == t.node.path
<1>1. P \in Paths /\ t.node.gens \in Seq(Nat) /\ Len(t.node.gens) = Len(P)
  BY DEF TargetType, NodeType, TargetSound
<1>2. Len(P) \in Nat /\ \A j \in 1 .. Len(P) : Prefix(P, j) \in Paths /\ t.node.gens[j] \in Nat
  BY <1>1, Prefixes
<1>3. TargetPath(t.slot)' = TargetPath(t.slot)
  BY DEF TargetPath, HostReplaces
<1>4. \A q \in Paths : gen[q] \in Nat /\ gen'[q] = IF q = p THEN gen[q] + 1 ELSE gen[q]
  BY DEF HostReplaces, TypeOK
<1>5. PICK k \in Kinds :
        kind' = [q \in Paths |-> IF q = p THEN k
                                 ELSE IF p \in Parents(q) THEN "none" ELSE kind[q]]
  BY DEF HostReplaces
<1>6. \A j \in 1 .. Len(P) : t.node.gens[j] <= gen[Prefix(P, j)]
  BY DEF TargetSound
<1>7. \A j \in 1 .. Len(P) :
        /\ t.node.gens[j] <= gen'[Prefix(P, j)]
        /\ t.node.gens[j] = gen'[Prefix(P, j)]
             => Prefix(P, j) # p /\ t.node.gens[j] = gen[Prefix(P, j)]
  <2> TAKE j \in 1 .. Len(P)
  <2> DEFINE g == t.node.gens[j]
             q == Prefix(P, j)
  <2>1. g \in Nat /\ gen[q] \in Nat /\ g <= gen[q] /\ gen'[q] = IF q = p THEN gen[q] + 1 ELSE gen[q]
    BY <1>2, <1>4, <1>6
  <2> HIDE DEF g, q
  <2>2. g <= gen'[q] /\ (g = gen'[q] => q # p /\ g = gen[q])
    BY <2>1
  <2> QED
    BY <2>2 DEF g, q
<1>8. ASSUME NEW n \in 1 .. Len(P) - 1, Unreplaced(t.node, n)'
      PROVE  kind'[Prefix(P, n)] = "dir"
  <2> DEFINE q == Prefix(P, n)
  <2>1. n \in 1 .. Len(P) /\ \A j \in 1 .. n : j \in 1 .. Len(P)
    BY <1>2
  <2>2. \A j \in 1 .. n : t.node.gens[j] = gen'[Prefix(P, j)]
    BY <1>8 DEF Unreplaced
  <2>3. Unreplaced(t.node, n)
    BY <1>7, <2>1, <2>2 DEF Unreplaced
  <2>4. kind[q] = "dir"
    BY <2>3 DEF TargetSound
  <2>5. q # p
    BY <1>7, <2>1, <2>2
  <2>6. p \notin Parents(q)
    <3> SUFFICES ASSUME p \in Parents(q) PROVE FALSE
      OBVIOUS
    <3>1. Len(q) = n /\ \A j \in 1 .. n : Prefix(q, j) = Prefix(P, j)
      BY <1>1, <2>1, Prefixes
    <3>2. PICK j \in 1 .. Len(q) - 1 : p = Prefix(q, j)
      BY DEF Parents, Prefix
    <3>3. j \in 1 .. n
      BY <2>1, <3>1
    <3> QED
      BY <1>7, <2>1, <2>2, <3>1, <3>2, <3>3
  <2>7. q \in Paths
    BY <1>2, <2>1
  <2> HIDE DEF q
  <2>8. kind'[q] = kind[q]
    BY <1>5, <2>5, <2>6, <2>7
  <2> QED
    BY <2>4, <2>8 DEF q
<1> QED
  BY <1>3, <1>7, <1>8 DEF TargetSound

\* A node is a path with the generation of every file on the way.
LEMMA NodeProperties ==
  ASSUME TypeOK, NEW p \in Paths
  PROVE  /\ Node(p) \in NodeType /\ Node(p).path = p
         /\ Node(p).gens \in Seq(Nat) /\ Len(Node(p).gens) = Len(p)
         /\ \A j \in 1 .. Len(p) : Node(p).gens[j] = gen[Prefix(p, j)]
<1>1. Len(p) \in Nat /\ \A j \in 1 .. Len(p) : Prefix(p, j) \in Paths
  BY Prefixes
<1> DEFINE g == [n \in 1 .. Len(p) |-> gen[SubSeq(p, 1, n)]]
<1>2. \A j \in 1 .. Len(p) : gen[SubSeq(p, 1, j)] \in Nat
  BY <1>1 DEF TypeOK, Prefix
<1>3. g \in Seq(Nat) /\ Len(g) = Len(p) /\ \A j \in 1 .. Len(p) : g[j] = gen[Prefix(p, j)]
  BY <1>1, <1>2 DEF Prefix
<1>4. Node(p) = [path |-> p, gens |-> g]
  BY DEF Node
<1> HIDE DEF g
<1> QED
  BY <1>3, <1>4 DEF NodeType

\* A target that was just opened is sound.
LEMMA SoundWhenOpened ==
  ASSUME TypeOK, NEW slot \in SlotSet, NEW p, p = TargetPath(slot), NEW k, k \in {"dir", "file"},
         UNCHANGED <<cfg, gen>>,
         \/ Found(p) = k /\ UNCHANGED kind
         \/ CreateTarget(p, k)
  PROVE  \A t : t = [slot |-> slot, node |-> Node(p)] => TargetSound(t)'
<1> TAKE t
<1> HAVE t = [slot |-> slot, node |-> Node(p)]
<1>1. p \in Paths
  BY TargetPathType
<1>2. /\ t.slot = slot /\ t.node.path = p /\ Len(t.node.gens) = Len(p)
      /\ Len(p) \in Nat
      /\ \A j \in 1 .. Len(p) : /\ t.node.gens[j] = gen[Prefix(p, j)]
                                /\ gen[Prefix(p, j)] \in Nat
  BY <1>1, NodeProperties, Prefixes DEF TypeOK
<1>3. TargetPath(t.slot)' = p
  BY <1>2 DEF TargetPath
<1>4. \A n \in 1 .. Len(p) - 1 : kind'[Prefix(p, n)] = "dir"
  <2>1. CASE Found(p) = k /\ UNCHANGED kind
    BY <1>1, <2>1, OnTheWay
  <2>2. CASE CreateTarget(p, k)
    <3> TAKE n \in 1 .. Len(p) - 1
    <3>1. Prefix(p, n) \in Paths /\ Len(Prefix(p, n)) = n /\ n # Len(p)
      BY <1>1, <1>2, Prefixes
    <3>2. Prefix(p, n) \in Parents(p) /\ Prefix(p, n) # p
      BY <3>1 DEF Parents, Prefix
    <3> QED
      BY <2>2, <3>1, <3>2 DEF CreateTarget
  <2> QED
    BY <2>1, <2>2
<1>5. \A j \in 1 .. Len(p) : t.node.gens[j] <= gen'[Prefix(p, j)]
  BY <1>2
<1> QED
  BY <1>2, <1>3, <1>4, <1>5 DEF TargetSound

\* Where a directory is what leads to an opened target, no file is found.
LEMMA NotAboveSound ==
  ASSUME TypeOK, NEW t \in TargetType, TargetSound(t),
         NEW p \in Paths, Above(Node(p), t.node)
  PROVE  Found(p) = "dir"
<1> DEFINE P == t.node.path
<1>1. P \in Paths /\ t.node.gens \in Seq(Nat) /\ Len(t.node.gens) = Len(P)
  BY DEF TargetType, NodeType, TargetSound
<1>2. Len(P) \in Nat /\ Len(p) \in Nat \ {0}
  BY <1>1, Prefixes
<1>3. /\ Len(p) < Len(P) /\ p = Prefix(P, Len(p))
      /\ Node(p).gens = Prefix(t.node.gens, Len(p))
  BY NodeProperties DEF Above
<1>4. Len(p) \in 1 .. Len(P) - 1
  BY <1>2, <1>3
<1>5. \A j \in 1 .. Len(p) : Prefix(p, j) = Prefix(P, j)
  <2>1. ASSUME NEW l \in 1 .. Len(P), p = Prefix(P, l)
        PROVE  \A j \in 1 .. l : Prefix(p, j) = Prefix(P, j)
    BY <1>1, <2>1, Prefixes
  <2>2. Len(p) \in 1 .. Len(P)
    BY <1>2, <1>4
  <2> QED
    BY <1>3, <2>1, <2>2
<1>6. Unreplaced(t.node, Len(p))
  <2>1. \A j \in 1 .. Len(p) : Prefix(t.node.gens, Len(p))[j] = t.node.gens[j]
    BY <1>1, <1>2, <1>4 DEF Prefix
  <2>2. \A j \in 1 .. Len(p) : Node(p).gens[j] = gen[Prefix(p, j)]
    BY NodeProperties
  <2> QED
    BY <1>3, <1>5, <2>1, <2>2 DEF Unreplaced
<1>7. \A j \in 1 .. Len(p) : kind[Prefix(p, j)] = "dir"
  <2> TAKE j \in 1 .. Len(p)
  <2>1. j \in 1 .. Len(P) - 1
    BY <1>2, <1>4
  <2>2. Unreplaced(t.node, j)
    BY <1>2, <1>6 DEF Unreplaced
  <2> QED
    BY <1>5, <2>1, <2>2 DEF TargetSound
<1>8. Len(p) \in 1 .. Len(p) /\ \A n \in 1 .. Len(p) - 1 : n \in 1 .. Len(p)
  BY <1>2
<1>9. kind[p] = "dir"
  BY <1>7, <1>8, Prefixes
<1> QED
  BY <1>7, <1>8, <1>9, OnTheWay

-----------------------------------------------------------------------------
(* The view of the new root.                                               *)

AllSound ==
  /\ \A n \in DOMAIN targets : targets[n].slot = OpenOrder[n]
  /\ \A t \in {targets[n] : n \in DOMAIN targets} : TargetSound(t)

DnsApart ==
  \A n, m \in DOMAIN targets :
    targets[m].slot = DnsSlot => ~Above(targets[m].node, targets[n].node)

\* The targets are those of the configuration, in the order in which they are
\* opened, each sound, and the private resolv.conf is not above another one.
TargetsInv ==
  /\ targets \in Seq(TargetType)
  /\ pc \in Looking \cup (Staging \ {"targets", "seal"}) => targets = <<>>
  /\ pc = "targets" => Len(targets) = i - 1
  /\ pc \in {"seal"} \cup Assembling \cup Entering => Len(targets) = Len(OpenOrder)
  /\ Len(targets) <= Len(OpenOrder)
  /\ AllSound /\ DnsApart

\* Steps that open no target and replace no name.
LEMMA TargetsQuiet ==
  ASSUME TargetsInv, UNCHANGED <<cfg, kind, gen, targets>>,
         pc' \in Looking \cup (Staging \ {"targets", "seal"})
           => pc \in Looking \cup (Staging \ {"targets", "seal"}),
         pc' = "targets" => (pc = "root" /\ i' = 1) \/ (pc = "targets" /\ i' = i),
         pc' \in {"seal"} \cup Assembling \cup Entering
           => pc \in {"seal"} \cup Assembling \cup Entering
  PROVE  TargetsInv'
<1>1. UNCHANGED <<SlotSet, OpenOrder>>
  BY DEF SlotSet, OpenOrder, BindSlots, DnsSlots
<1>2. TargetType' = TargetType
  BY <1>1 DEF TargetType
<1>3. AllSound'
  <2>1. \A slot : TargetPath(slot)' = TargetPath(slot)
    BY DEF TargetPath
  <2>2. \A t : TargetSound(t) => TargetSound(t)'
    BY <2>1 DEF TargetSound, Unreplaced
  <2>3. AllSound
    BY DEF TargetsInv
  <2> QED
    BY <1>1, <2>2, <2>3 DEF AllSound
<1>4. targets' \in Seq(TargetType') /\ Len(targets') <= Len(OpenOrder') /\ DnsApart'
  BY <1>1, <1>2 DEF TargetsInv, DnsApart
<1>5. pc' = "targets" => Len(targets') = i' - 1
  <2> SUFFICES ASSUME pc' = "targets" PROVE Len(targets') = i' - 1
    OBVIOUS
  <2>1. CASE pc = "root" /\ i' = 1
    <3>1. targets = <<>>
      BY <2>1 DEF TargetsInv, Looking, Staging
    <3> QED
      BY <2>1, <3>1
  <2>2. CASE pc = "targets" /\ i' = i
    BY <2>2 DEF TargetsInv
  <2> QED
    BY <2>1, <2>2
<1>6. /\ pc' \in Looking \cup (Staging \ {"targets", "seal"}) => targets' = <<>>
      /\ pc' \in {"seal"} \cup Assembling \cup Entering => Len(targets') = Len(OpenOrder')
  BY <1>1 DEF TargetsInv
<1> QED
  BY <1>3, <1>4, <1>5, <1>6 DEF TargetsInv

\* Every step keeps the opened targets those of the configuration, and sound.
LEMMA TargetsStep == TypeInv /\ TargetsInv /\ [Next]_vars => TargetsInv'
<1> SUFFICES ASSUME TypeInv, TargetsInv, [Next]_vars PROVE TargetsInv'
  OBVIOUS
<1>0. TypeOK /\ HoldInv /\ i \in Nat \ {0} /\ pc \in Labels
  BY DEF TypeInv, TypeOK
<1> USE DEF GoTo, Return, Looking, Staging, Assembling, Entering, hostVars
<1>1. CASE Validate
  BY <1>1, TargetsQuiet DEF Validate
<1>2. CASE OpenRoot
  BY <1>2, TargetsQuiet DEF OpenRoot
<1>3. CASE HoldSource
  BY <1>3, TargetsQuiet DEF HoldSource, ForEach
<1>4. CASE PreflightTarget
  BY <1>4, TargetsQuiet DEF PreflightTarget, ForEach
<1>5. CASE MakePrivate
  <2>1. pc = "private" /\ pc' \in {"stage", "root", "unwind"}
    BY <1>5 DEF MakePrivate
  <2> QED
    BY <1>5, <2>1, TargetsQuiet DEF MakePrivate
<1>6. CASE MakeStageDir
  BY <1>6, TargetsQuiet DEF MakeStageDir
<1>7. CASE MountStage
  BY <1>7, TargetsQuiet DEF MountStage, CleanupOnError
<1>8. CASE MountOverlay
  BY <1>8, TargetsQuiet DEF MountOverlay, CleanupOnError
<1>9. CASE AttachRoot
  BY <1>9, TargetsQuiet DEF AttachRoot
<1>10. CASE OpenTarget
  <2>1. CASE pc' = "unwind"
    <3>1. UNCHANGED <<kind, targets>>
      BY <1>10, <2>1 DEF OpenTarget, ForEach
    <3> QED
      BY <1>10, <2>1, <3>1, TargetsQuiet DEF OpenTarget
  <2>2. CASE pc' # "unwind"
    <3>1. PICK slot, p, k, t :
            /\ slot = OpenOrder[i] /\ p = TargetPath(slot) /\ k = Object(slot).kind
            /\ t = [slot |-> slot, node |-> Node(p)]
            /\ ForEach("targets", OpenOrder, "seal")
            /\ \/ Found(p) = k /\ UNCHANGED <<kind, made>>
               \/ HasStage /\ Found(p) = "none" /\ CreateTarget(p, k)
            /\ targets' = Append(targets, t)
            /\ UNCHANGED <<cfg, gen>>
      BY <1>10, <2>2 DEF OpenTarget
    <3>2. /\ pc = "targets" /\ i \in DOMAIN OpenOrder
          /\ DOMAIN OpenOrder = 1 .. Len(OpenOrder) /\ Len(OpenOrder) \in Nat
      BY <1>0, <3>1, OrderDomains DEF ForEach
    <3>3. slot \in SlotSet
      BY <1>0, <3>1, <3>2, OrderTypes
    <3>4. p \in Paths /\ k \in {"dir", "file"}
      BY <1>0, <3>1, <3>2, <3>3, TargetPathType, ObjectKind DEF HoldInv
    <3>5. t \in TargetType
      BY <1>0, <3>1, <3>3, <3>4, NodeProperties DEF TargetType
    <3>6. /\ targets \in Seq(TargetType) /\ Len(targets) \in Nat /\ Len(targets) = i - 1
          /\ DOMAIN targets = 1 .. Len(targets)
          /\ AllSound /\ DnsApart
      BY <3>2 DEF TargetsInv
    <3>7. /\ targets' \in Seq(TargetType) /\ Len(targets') = i
          /\ DOMAIN targets' = 1 .. i /\ targets'[i] = t
          /\ \A n \in 1 .. i - 1 : n \in DOMAIN targets /\ targets'[n] = targets[n]
      BY <1>0, <3>1, <3>5, <3>6
    <3>8. UNCHANGED <<SlotSet, OpenOrder, TargetType>>
      BY <3>1 DEF SlotSet, OpenOrder, BindSlots, DnsSlots, TargetType
    <3>9. \A n \in DOMAIN targets' : n \in 1 .. i - 1 \/ n = i
      BY <1>0, <3>7
    <3>10. AllSound'
      <4>1. \A n \in DOMAIN targets' : targets'[n].slot = OpenOrder[n]
        <5>1. \A n \in 1 .. i - 1 : targets'[n].slot = OpenOrder[n]
          BY <3>6, <3>7 DEF AllSound
        <5>2. targets'[i].slot = OpenOrder[i]
          BY <3>1, <3>7
        <5> QED
          BY <3>9, <5>1, <5>2
      <4>2. \A s \in TargetType : TargetSound(s) => TargetSound(s)'
        <5>1. CASE Found(p) = "none" /\ CreateTarget(p, k)
          BY <1>0, <3>1, <3>4, <5>1, SoundWhenMade
        <5>2. CASE UNCHANGED kind
          <6>1. \A s : TargetPath(s)' = TargetPath(s)
            BY <3>1 DEF TargetPath
          <6> QED
            BY <3>1, <5>2, <6>1 DEF TargetSound, Unreplaced
        <5> QED
          BY <3>1, <5>1, <5>2
      <4>3. TargetSound(t)'
        BY <1>0, <3>1, <3>3, <3>4, SoundWhenOpened
      <4>4. \A s \in {targets[n] : n \in DOMAIN targets} : s \in TargetType /\ TargetSound(s)
        BY <3>6 DEF AllSound
      <4>5. \A s \in {targets'[n] : n \in DOMAIN targets'} :
              s = t \/ s \in {targets[n] : n \in DOMAIN targets}
        BY <3>7, <3>9
      <4>6. \A s \in {targets'[n] : n \in DOMAIN targets'} : TargetSound(s)'
        BY <4>2, <4>3, <4>4, <4>5
      <4> QED
        BY <3>8, <4>1, <4>6 DEF AllSound
    <3>11. DnsApart'
      <4> SUFFICES ASSUME NEW n \in DOMAIN targets', NEW m \in DOMAIN targets',
                          targets'[m].slot = DnsSlot,
                          Above(targets'[m].node, targets'[n].node)
                   PROVE  FALSE
        BY DEF DnsApart
      <4>1. CASE m \in 1 .. i - 1
        <5>1. m \in DOMAIN targets /\ OpenOrder[m] = DnsSlot
          BY <3>6, <3>7, <4>1 DEF AllSound
        <5>2. m \in DOMAIN OpenOrder /\ m < i /\ i <= Len(OpenOrder)
          BY <1>0, <3>2, <4>1
        <5> QED
          BY <1>0, <5>1, <5>2, DnsIsLast
      <4>2. CASE m = i /\ n = i
        <5>1. Len(t.node.path) \in Nat
          BY <3>5, Prefixes DEF TargetType, NodeType
        <5> QED
          BY <3>7, <4>2, <5>1 DEF Above
      <4>3. CASE m = i /\ n \in 1 .. i - 1
        <5>1. slot = DnsSlot /\ Above(Node(p), targets[n].node)
          BY <3>1, <3>7, <4>3
        <5>2. targets[n] \in TargetType /\ TargetSound(targets[n])
          BY <3>6, <3>7, <4>3 DEF AllSound
        <5>3. Found(p) = "dir"
          <6>1. ASSUME NEW s \in TargetType, s = targets[n] PROVE Found(p) = "dir"
            BY <1>0, <3>4, <5>1, <5>2, <6>1, NotAboveSound
          <6> QED
            BY <5>2, <6>1
        <5>4. k = "file"
          BY <3>1, <5>1 DEF Object, DnsSlot
        <5> QED
          BY <3>1, <5>3, <5>4
      <4> QED
        BY <3>9, <4>1, <4>2, <4>3
    <3>12. /\ pc' \in {"targets", "seal"}
           /\ pc' = "targets" => i' = i + 1
           /\ pc' = "seal" => i = Len(OpenOrder)
           /\ i <= Len(OpenOrder)
      BY <3>1, <3>2 DEF ForEach
    <3>13. Len(targets') \in Nat /\ (pc' = "targets" => Len(targets') = i' - 1)
      BY <1>0, <3>7, <3>12
    <3> QED
      BY <3>7, <3>8, <3>10, <3>11, <3>12, <3>13 DEF TargetsInv
  <2> QED
    BY <2>1, <2>2
<1>11. CASE SealRoot
  BY <1>11, TargetsQuiet DEF SealRoot
<1>12. CASE AttachMount
  BY <1>12, TargetsQuiet DEF AttachMount
<1>13. CASE VerifyMount
  BY <1>13, TargetsQuiet DEF VerifyMount
<1>14. CASE PopulateDev
  BY <1>14, TargetsQuiet DEF PopulateDev
<1>15. CASE CleanStage
  BY <1>15, TargetsQuiet DEF CleanStage
<1>16. CASE PivotRoot
  BY <1>16, TargetsQuiet DEF PivotRoot
<1>17. CASE DetachOldRoot
  BY <1>17, TargetsQuiet DEF DetachOldRoot
<1>18. CASE Unwind
  BY <1>18, TargetsQuiet DEF Unwind
<1>19. ASSUME NEW p \in Paths, PayloadWrites(p) PROVE TargetsInv'
  BY <1>19, TargetsQuiet DEF PayloadWrites
<1>20. ASSUME NEW p \in Paths, HostReplaces(p) PROVE TargetsInv'
  <2>1. /\ UNCHANGED <<cfg, pc, i, targets>>
    BY <1>20 DEF HostReplaces
  <2>2. UNCHANGED <<SlotSet, OpenOrder, TargetType>>
    BY <2>1 DEF SlotSet, OpenOrder, BindSlots, DnsSlots, TargetType
  <2>3. \A t \in TargetType : TargetSound(t) => TargetSound(t)'
    BY <1>0, <1>20, SoundWhenReplaced
  <2>4. AllSound'
    <3>1. AllSound /\ targets \in Seq(TargetType)
      BY DEF TargetsInv
    <3>2. \A t \in {targets[n] : n \in DOMAIN targets} : t \in TargetType
      BY <3>1
    <3> QED
      BY <2>1, <2>2, <2>3, <3>1, <3>2 DEF AllSound
  <2>5. DnsApart'
    BY <2>1 DEF TargetsInv, DnsApart
  <2> QED
    BY <2>1, <2>2, <2>4, <2>5 DEF TargetsInv
<1>21. ASSUME NEW h \in HostPaths, HostReplacesSource(h) PROVE TargetsInv'
  BY <1>21, TargetsQuiet DEF HostReplacesSource
<1>22. CASE Killed
  BY <1>22, TargetsQuiet DEF Killed
<1>23. CASE UNCHANGED vars
  BY <1>23, TargetsQuiet DEF vars
<1> QED
  BY <1>1, <1>2, <1>3, <1>4, <1>5, <1>6, <1>7, <1>8, <1>9, <1>10, <1>11, <1>12, <1>13, <1>14,
     <1>15, <1>16, <1>17, <1>18, <1>19, <1>20, <1>21, <1>22, <1>23
  DEF Next, IsolateRootFS

\* The node of each mount's target.
LEMMA NodeOfSlot ==
  ASSUME TypeOK, TargetsInv, Len(targets) = Len(OpenOrder), NEW m \in DOMAIN AttachOrder
  PROVE  \E t \in {targets[n] : n \in DOMAIN targets} :
           /\ t.slot = AttachOrder[m] /\ t.node = TargetNode(AttachOrder[m])
           /\ t.node.path = TargetPath(AttachOrder[m]) /\ t.node \in NodeType
<1> DEFINE All == {targets[n] : n \in DOMAIN targets}
<1>1. PICK n \in DOMAIN OpenOrder : OpenOrder[n] = AttachOrder[m]
  BY AllOpened
<1>2. n \in DOMAIN targets
  BY OrderDomains DEF TargetsInv
<1>3. targets[n] \in All /\ targets[n].slot = AttachOrder[m]
  BY <1>1, <1>2 DEF TargetsInv, AllSound
<1> DEFINE t == CHOOSE t \in All : t.slot = AttachOrder[m]
<1>4. t \in All /\ t.slot = AttachOrder[m]
  BY <1>3
<1>5. TargetNode(AttachOrder[m]) = t.node
  BY DEF TargetNode
<1>6. \A s \in All : s \in TargetType /\ s.node.path = TargetPath(s.slot)
  <2>1. \A s \in All : TargetSound(s)
    BY DEF TargetsInv, AllSound
  <2>2. \A s \in All : s \in TargetType
    BY DEF TargetsInv
  <2> QED
    BY <2>1, <2>2 DEF TargetSound
<1> HIDE DEF t, All
<1>7. t.node \in NodeType /\ t.node.path = TargetPath(AttachOrder[m])
  BY <1>4, <1>6 DEF TargetType
<1> QED
  BY <1>4, <1>5, <1>7 DEF All

\* What is mounted later goes neither on the node of an earlier mount...
LEMMA NodesDiffer ==
  ASSUME TypeOK, TargetsInv, Len(targets) = Len(OpenOrder), BindPolicies(cfg.binds, cfg.dns),
         NEW m \in DOMAIN AttachOrder, NEW k \in DOMAIN AttachOrder,
         TargetNode(AttachOrder[m]).path = TargetNode(AttachOrder[k]).path
  PROVE  m = k
  BY NodeOfSlot, TargetsDiffer

\* ...nor on one that leads to it.
LEMMA NoneAboveEarlier ==
  ASSUME TypeOK, TargetsInv, Len(targets) = Len(OpenOrder), BindPolicies(cfg.binds, cfg.dns),
         NEW m \in DOMAIN AttachOrder, NEW k \in DOMAIN AttachOrder, m < k
  PROVE  ~Above(TargetNode(AttachOrder[k]), TargetNode(AttachOrder[m]))
<1> SUFFICES ASSUME Above(TargetNode(AttachOrder[k]), TargetNode(AttachOrder[m])) PROVE FALSE
  OBVIOUS
<1>1. PICK s \in {targets[n] : n \in DOMAIN targets} :
        /\ s.slot = AttachOrder[m] /\ s.node = TargetNode(AttachOrder[m])
        /\ s.node.path = TargetPath(AttachOrder[m]) /\ s.node \in NodeType
  BY NodeOfSlot
<1>2. PICK t \in {targets[n] : n \in DOMAIN targets} :
        /\ t.slot = AttachOrder[k] /\ t.node = TargetNode(AttachOrder[k])
        /\ t.node.path = TargetPath(AttachOrder[k]) /\ t.node \in NodeType
  BY NodeOfSlot
<1>3. Above(t.node, s.node)
  BY <1>1, <1>2
<1>4. IsAncestor(t.node.path, s.node.path)
  <2>1. s.node.path \in Paths /\ t.node.path \in Paths
    BY <1>1, <1>2 DEF NodeType
  <2>2. Len(t.node.path) \in 1 .. Len(s.node.path) - 1
    BY <1>3, <2>1, Prefixes DEF Above
  <2> QED
    BY <1>3, <2>2 DEF Above, IsAncestor, Parents, Prefix
<1>5. t.slot = DnsSlot
  BY <1>1, <1>2, <1>4, OnlyDnsAbove
<1>6. DnsApart
  BY DEF TargetsInv
<1> QED
  BY <1>3, <1>5, <1>6 DEF DnsApart

\* Where the name of a target leads to a mount that goes no further, a mount is on
\* its node and none on the way to it.
LEMMA LookupEnds ==
  ASSUME NEW p \in Paths, Lookup(p).mount # 0, Lookup(p).rest = <<>>
  PROVE  /\ MountsOn(Node(p)) # {}
         /\ \A n \in 1 .. Len(p) - 1 : MountsOn(Node(Prefix(p, n))) = {}
<1> DEFINE n == Min(Covered(p))
<1>1. p \in Seq(STRING) /\ Len(p) \in Nat \ {0} /\ Prefix(p, Len(p)) = p
  BY Prefixes
<1>2. Covered(p) # {}
  <2>1. Covered(p) = {} => Lookup(p).mount = 0
    BY DEF Lookup
  <2> QED
    BY <2>1
<1>3. Lookup(p).rest = SubSeq(p, n + 1, Len(p))
  BY <1>2 DEF Lookup
<1>4. Covered(p) \subseteq 1 .. Len(p)
  BY DEF Covered
<1>5. n \in Covered(p) /\ \A x \in Covered(p) : n <= x
  <2>1. Covered(p) \in SUBSET Nat
    BY <1>1, <1>4
  <2> QED
    BY <1>2, <2>1, LeastMember
<1> HIDE DEF n
<1>6. n = Len(p)
  <2>1. n \in 1 .. Len(p)
    BY <1>4, <1>5
  <2>2. n < Len(p) => Len(SubSeq(p, n + 1, Len(p))) = Len(p) - n
    BY <1>1, <2>1
  <2>3. Len(SubSeq(p, n + 1, Len(p))) = 0
    <3>1. SubSeq(p, n + 1, Len(p)) = <<>>
      BY <1>3
    <3>2. Len(<<>>) = 0
      OBVIOUS
    <3> QED
      BY <3>1, <3>2
  <2> QED
    BY <1>1, <2>1, <2>2, <2>3
<1>7. MountsOn(Node(p)) # {}
  BY <1>1, <1>5, <1>6 DEF Covered, Prefix
<1>8. ASSUME NEW l \in 1 .. Len(p) - 1 PROVE MountsOn(Node(Prefix(p, l))) = {}
  <2>1. l \in 1 .. Len(p) /\ ~(Len(p) <= l)
    BY <1>1
  <2>2. l \notin Covered(p)
    BY <1>5, <1>6, <2>1
  <2> QED
    BY <2>1, <2>2 DEF Covered, Prefix
<1> QED
  BY <1>7, <1>8

\* A mount is hidden by a later one on its node, or by one above.
LEMMA HiddenCases ==
  ASSUME NEW m, Hidden(m)
  PROVE  \E n \in DOMAIN mounts :
           \/ n > m /\ mounts[n].node = mounts[m].node
           \/ Above(mounts[n].node, mounts[m].node)
  BY DEF Hidden, Above, Prefix

\* Every mount is the one of its place: its object, on the target that was opened
\* for it.
AsAttached ==
  /\ \A m \in DOMAIN mounts : mounts[m].slot = AttachOrder[m]
  /\ \A x \in {mounts[m] : m \in DOMAIN mounts} :
       x.object = Object(x.slot) /\ x.node = TargetNode(x.slot) /\ x.attrs = Attrs(x.slot)

\* The mounts are those of the configuration, in the order in which they are
\* made, and each that was verified can be reached.
ViewInv ==
  /\ pc \notin {"validate", "failed", "dead"} => BindPolicies(cfg.binds, cfg.dns)
  /\ pc \in {"attach", "populate"} => Len(mounts) = i - 1
  /\ pc = "verify" => Len(mounts) = i
  /\ pc \in Entering => Len(mounts) = Len(AttachOrder)
  /\ Len(mounts) <= Len(AttachOrder)
  /\ AsAttached
  /\ pc \in Assembling \cup Entering =>
       \A m \in DOMAIN mounts : (pc = "verify" => m < i) => ~Hidden(m)
  /\ pc = "done" => ~oldRoot

\* Steps that mount nothing.
LEMMA ViewQuiet ==
  ASSUME ViewInv, UNCHANGED <<cfg, mounts>>, mounts = <<>> \/ UNCHANGED <<held, targets>>,
         pc' \notin {"validate", "failed", "dead"} => BindPolicies(cfg.binds, cfg.dns),
         pc' \in {"attach", "populate"} => Len(mounts) = i' - 1,
         pc' = "verify" => Len(mounts) = i',
         pc' \in Entering => Len(mounts) = Len(AttachOrder),
         pc' \in Assembling \cup Entering =>
           \A m \in DOMAIN mounts : (pc' = "verify" => m < i') => ~Hidden(m),
         pc' = "done" => ~oldRoot'
  PROVE  ViewInv'
<1>1. AttachOrder' = AttachOrder
  BY DEF AttachOrder, BindSlots, DnsSlots
<1>2. AsAttached'
  <2>1. AsAttached
    BY DEF ViewInv
  <2>2. CASE mounts = <<>>
    <3>1. DOMAIN mounts' = {}
      BY <2>2
    <3> QED
      BY <3>1 DEF AsAttached
  <2>3. CASE UNCHANGED <<held, targets>>
    <3>1. \A slot : /\ Object(slot)' = Object(slot) /\ TargetNode(slot)' = TargetNode(slot)
                     /\ Attrs(slot)' = Attrs(slot)
      BY <2>3 DEF Object, TargetNode, Attrs
    <3> QED
      BY <1>1, <2>1, <3>1 DEF AsAttached
  <2> QED
    BY <2>2, <2>3
<1>3. \A m : Hidden(m)' <=> Hidden(m)
  BY DEF Hidden
<1>4. Len(mounts') <= Len(AttachOrder')
  BY <1>1 DEF ViewInv
<1>5. pc' \notin {"validate", "failed", "dead"} => BindPolicies(cfg.binds, cfg.dns)'
  BY DEF BindPolicies
<1> QED
  BY <1>1, <1>2, <1>3, <1>4, <1>5 DEF ViewInv

\* What VerifyMount has seen through its name is hidden by nothing.
LEMMA VerifiedReachable ==
  ASSUME TypeOK, TargetsInv, Len(targets) = Len(OpenOrder), BindPolicies(cfg.binds, cfg.dns),
         AsAttached, DOMAIN mounts = 1 .. i, i \in DOMAIN AttachOrder, i \in Nat \ {0},
         Visible(AttachOrder[i])
  PROVE  ~Hidden(i)
<1> DEFINE p == TargetPath(AttachOrder[i])
<1>1. /\ AttachOrder[i] \in SlotSet
      /\ \A m \in 1 .. i : m \in DOMAIN AttachOrder
  BY OrderDomains, OrderTypes
<1>2. p \in Paths
  BY <1>1, TargetPathType
<1>3. Lookup(p).mount # 0 /\ Lookup(p).rest = <<>>
  BY DEF Visible
<1>4. /\ MountsOn(Node(p)) # {}
      /\ \A n \in 1 .. Len(p) - 1 : MountsOn(Node(Prefix(p, n))) = {}
  BY <1>2, <1>3, LookupEnds
<1>5. \A m \in 1 .. i : /\ mounts[m].node = TargetNode(AttachOrder[m])
                        /\ mounts[m].node.path = TargetPath(AttachOrder[m])
                        /\ mounts[m].node \in NodeType
  <2> TAKE m \in 1 .. i
  <2>1. mounts[m].node = TargetNode(AttachOrder[m])
    BY DEF AsAttached
  <2>2. \E t \in {targets[n] : n \in DOMAIN targets} :
           /\ t.slot = AttachOrder[m] /\ t.node = TargetNode(AttachOrder[m])
           /\ t.node.path = TargetPath(AttachOrder[m]) /\ t.node \in NodeType
    BY <1>1, NodeOfSlot
  <2> QED
    BY <2>1, <2>2
<1> HIDE DEF p
<1>6. mounts[i].node = Node(p)
  <2>1. PICK m \in 1 .. i : mounts[m].node = Node(p)
    BY <1>4 DEF MountsOn
  <2>2. mounts[m].node.path = p
    BY <1>2, <2>1, NodeProperties
  <2>3. TargetPath(AttachOrder[m]) = TargetPath(AttachOrder[i])
    BY <1>5, <2>2 DEF p
  <2>4. m = i
    BY <1>1, <2>3, TargetsDiffer
  <2> QED
    BY <2>1, <2>4
<1> SUFFICES ASSUME Hidden(i) PROVE FALSE
  OBVIOUS
<1>7. PICK n \in 1 .. i : \/ n > i
                          \/ Above(mounts[n].node, Node(p))
  BY <1>6, HiddenCases
<1>8. n \in DOMAIN mounts /\ ~(n > i) /\ mounts[n].node \in NodeType
  BY <1>5
<1> DEFINE a == mounts[n].node
           q == Prefix(p, Len(a.path))
<1>9. a.path \in Paths /\ a.gens \in Seq(Nat) /\ a = [path |-> a.path, gens |-> a.gens]
  BY <1>8 DEF NodeType
<1>10. /\ Len(a.path) < Len(p) /\ a.path = q
       /\ a.gens = Prefix(Node(p).gens, Len(a.path))
  BY <1>2, <1>7, <1>8, NodeProperties DEF Above
<1> HIDE DEF a
<1>11. Len(p) \in Nat /\ Len(a.path) \in 1 .. Len(p) - 1 /\ Len(a.path) \in 1 .. Len(p)
  <2>1. Len(p) \in Nat /\ Len(a.path) \in Nat \ {0}
    BY <1>2, <1>9, Prefixes
  <2> QED
    BY <1>10, <2>1
<1>12. \A l \in 1 .. Len(p) : /\ Prefix(p, l) \in Paths /\ Len(Prefix(p, l)) = l
                              /\ \A j \in 1 .. l : Prefix(Prefix(p, l), j) = Prefix(p, j)
  BY <1>2, Prefixes
<1>13. /\ q \in Paths /\ Len(q) = Len(a.path)
       /\ \A j \in 1 .. Len(q) : Prefix(q, j) = Prefix(p, j)
  BY <1>11, <1>12
<1>14. a.gens = Node(q).gens
  <2>1. /\ Node(p).gens \in Seq(Nat) /\ Len(Node(p).gens) = Len(p)
        /\ \A j \in 1 .. Len(p) : Node(p).gens[j] = gen[Prefix(p, j)]
    BY <1>2, NodeProperties
  <2>2. /\ Len(a.gens) = Len(a.path)
        /\ \A j \in 1 .. Len(a.path) : a.gens[j] = Node(p).gens[j]
    BY <1>10, <1>11, <2>1 DEF Prefix
  <2>3. /\ Node(q).gens \in Seq(Nat) /\ Len(Node(q).gens) = Len(q)
        /\ \A j \in 1 .. Len(q) : Node(q).gens[j] = gen[Prefix(q, j)]
    BY <1>13, NodeProperties
  <2>4. \A j \in 1 .. Len(q) : j \in 1 .. Len(p)
    BY <1>11, <1>13
  <2>5. Len(a.gens) = Len(Node(q).gens) /\ \A j \in 1 .. Len(a.gens) : a.gens[j] = Node(q).gens[j]
    BY <1>13, <2>1, <2>2, <2>3, <2>4
  <2> QED
    BY ONLY <1>9, <2>3, <2>5, SeqEqual
<1>15. a = Node(q)
  BY <1>9, <1>10, <1>14 DEF Node
<1> QED
  BY <1>4, <1>8, <1>11, <1>15 DEF MountsOn, a

\* Whatever the verification has seen: /dev and /proc lie right below the root, so
\* no mount can be above them.
LEMMA VerifiedUnhidden ==
  ASSUME TypeOK, TargetsInv, Len(targets) = Len(OpenOrder), BindPolicies(cfg.binds, cfg.dns),
         AsAttached, DOMAIN mounts = 1 .. i, i \in DOMAIN AttachOrder, i \in Nat \ {0},
         Verified(AttachOrder[i])
  PROVE  ~Hidden(i)
<1>1. CASE Visible(AttachOrder[i])
  BY <1>1, VerifiedReachable
<1>2. CASE AttachOrder[i] \in {DevSlot, ProcSlot}
  <2>1. Len(TargetPath(AttachOrder[i])) = 1
    BY <1>2 DEF TargetPath, DevSlot, ProcSlot, Dev, Proc
  <2>2. \A m \in 1 .. i : /\ mounts[m].node = TargetNode(AttachOrder[m])
                          /\ mounts[m].node.path = TargetPath(AttachOrder[m])
                          /\ mounts[m].node \in NodeType
    <3> TAKE m \in 1 .. i
    <3>1. mounts[m].node = TargetNode(AttachOrder[m]) /\ m \in DOMAIN AttachOrder
      BY OrderDomains DEF AsAttached
    <3>2. \E t \in {targets[n] : n \in DOMAIN targets} :
             /\ t.slot = AttachOrder[m] /\ t.node = TargetNode(AttachOrder[m])
             /\ t.node.path = TargetPath(AttachOrder[m]) /\ t.node \in NodeType
      BY <3>1, NodeOfSlot
    <3> QED
      BY <3>1, <3>2
  <2> SUFFICES ASSUME Hidden(i) PROVE FALSE
    OBVIOUS
  <2>3. PICK n \in 1 .. i : n > i \/ Above(mounts[n].node, mounts[i].node)
    BY HiddenCases
  <2>4. Above(mounts[n].node, mounts[i].node)
    BY <2>3
  <2>5. mounts[n].node.path \in Paths
    BY <2>2 DEF NodeType
  <2>6. Len(mounts[n].node.path) \in Nat \ {0}
    BY <2>5, Prefixes
  <2>7. Len(mounts[n].node.path) < Len(mounts[i].node.path)
    BY <2>4 DEF Above
  <2>8. Len(mounts[i].node.path) = 1
    BY <2>1, <2>2
  <2> QED
    BY <2>6, <2>7, <2>8
<1> QED
  BY <1>1, <1>2 DEF Verified

\* Every step keeps the mounts those of their places, and the view as the mounts give it.
LEMMA ViewStep ==
  TypeInv /\ HostInv /\ TargetsInv /\ ViewInv /\ [Next]_vars => ViewInv'
<1> SUFFICES ASSUME TypeInv, HostInv, TargetsInv, ViewInv, [Next]_vars PROVE ViewInv'
  OBVIOUS
<1>0. TypeOK /\ i \in Nat \ {0}
  BY DEF TypeInv, TypeOK
<1>a. /\ Len(mounts) \in Nat /\ DOMAIN mounts = 1 .. Len(mounts)
      /\ Len(AttachOrder) \in Nat /\ DOMAIN AttachOrder = 1 .. Len(AttachOrder)
  <2>1. PICK S : mounts \in Seq(S)
    BY DEF HostInv
  <2> QED
    BY <1>0, <2>1, OrderDomains
<1>b. pc \in Looking \cup Staging => mounts = <<>>
  BY DEF HostInv
<1> USE DEF GoTo, Return, Looking, Staging, Assembling, Entering, mountVars
<1>1. CASE Validate
  <2>1. CASE BindPolicies(cfg.binds, cfg.dns)
    BY <1>1, <1>b, <2>1, ViewQuiet DEF Validate
  <2>2. CASE ~BindPolicies(cfg.binds, cfg.dns)
    BY <1>1, <1>b, <2>2, ViewQuiet DEF Validate
  <2> QED
    BY <2>1, <2>2
<1>2. CASE OpenRoot
  BY <1>2, ViewQuiet DEF OpenRoot, ViewInv
<1>3. CASE HoldSource
  BY <1>3, <1>b, ViewQuiet DEF HoldSource, ForEach, ViewInv
<1>4. CASE PreflightTarget
  BY <1>4, ViewQuiet DEF PreflightTarget, ForEach, ViewInv
<1>5. CASE MakePrivate
  <2>1. pc = "private" /\ pc' \in {"stage", "root", "unwind"}
    BY <1>5 DEF MakePrivate
  <2> QED
    BY <1>5, <2>1, ViewQuiet DEF MakePrivate, ViewInv
<1>6. CASE MakeStageDir
  BY <1>6, ViewQuiet DEF MakeStageDir, ViewInv
<1>7. CASE MountStage
  BY <1>7, ViewQuiet DEF MountStage, CleanupOnError, ViewInv
<1>8. CASE MountOverlay
  BY <1>8, ViewQuiet DEF MountOverlay, CleanupOnError, ViewInv
<1>9. CASE AttachRoot
  BY <1>9, ViewQuiet DEF AttachRoot, ViewInv
<1>10. CASE OpenTarget
  <2>1. pc = "targets" /\ pc' \in {"targets", "seal", "unwind"}
    BY <1>10 DEF OpenTarget, ForEach
  <2> QED
    BY <1>10, <1>b, <2>1, ViewQuiet DEF OpenTarget, ViewInv
<1>11. CASE SealRoot
  <2>1. CASE pc' = "unwind"
    BY <1>11, <2>1, ViewQuiet DEF SealRoot, ViewInv
  <2>2. CASE pc' # "unwind"
    <3>1. /\ pc = "seal" /\ pc' = "attach" /\ i' = 1
          /\ UNCHANGED <<cfg, held, targets>>
          /\ mounts = <<>> /\ DOMAIN mounts = {}
      BY <1>11, <1>b, <2>2 DEF SealRoot
    <3>2. mounts' = <<>>
      BY <1>11, <2>2, <3>1 DEF SealRoot
    <3>3. UNCHANGED mounts /\ Len(mounts) = i' - 1
      BY <3>1, <3>2
    <3>4. BindPolicies(cfg.binds, cfg.dns)
      BY <3>1 DEF ViewInv
    <3> QED
      BY <3>1, <3>3, <3>4, ViewQuiet
  <2> QED
    BY <2>1, <2>2
<1>12. CASE AttachMount
  <2>1. CASE pc' = "unwind"
    BY <1>12, <2>1, ViewQuiet DEF AttachMount, ViewInv
  <2>2. CASE pc' # "unwind"
    <3>1. PICK slot, x :
            /\ slot = AttachOrder[i]
            /\ x = [slot |-> slot, node |-> TargetNode(slot),
                    object |-> Object(slot), attrs |-> Attrs(slot)]
            /\ mounts' = Append(mounts, x)
      BY <1>12, <2>2 DEF AttachMount
    <3>2. pc = "attach" /\ pc' = "verify" /\ i' = i /\ UNCHANGED <<cfg, held, targets, oldRoot>>
      BY <1>12, <2>2 DEF AttachMount
    <3>3. /\ i <= Len(AttachOrder) /\ Len(mounts) = i - 1
          /\ Len(targets) = Len(OpenOrder) /\ BindPolicies(cfg.binds, cfg.dns)
          /\ AsAttached /\ \A m \in DOMAIN mounts : ~Hidden(m)
      BY <3>2 DEF HostInv, TargetsInv, ViewInv
    <3>4. /\ DOMAIN mounts = 1 .. i - 1 /\ i \in DOMAIN AttachOrder
          /\ \A m \in 1 .. i - 1 : m \in DOMAIN AttachOrder
      BY <1>0, <1>a, <3>3
    <3>5. /\ Len(mounts') = i /\ DOMAIN mounts' = 1 .. i /\ mounts'[i] = x
          /\ \A m \in 1 .. i - 1 : mounts'[m] = mounts[m]
      <4>1. PICK S : mounts \in Seq(S)
        BY DEF HostInv
      <4>2. mounts \in Seq(S \cup {x})
        BY <4>1
      <4> QED
        BY <1>0, <3>1, <3>3, <4>2
    <3>6. AttachOrder' = AttachOrder
      BY <3>2 DEF AttachOrder, BindSlots, DnsSlots
    <3>7. \A m \in 1 .. i : m \in 1 .. i - 1 \/ m = i
      BY <1>0
    <3>8. AsAttached'
      <4>1. \A s : /\ Object(s)' = Object(s) /\ TargetNode(s)' = TargetNode(s)
                    /\ Attrs(s)' = Attrs(s)
        BY <3>2 DEF Object, TargetNode, Attrs
      <4>2. \A m \in DOMAIN mounts' : mounts'[m].slot = AttachOrder[m]
        <5>1. \A m \in 1 .. i - 1 : mounts'[m].slot = AttachOrder[m]
          BY <3>3, <3>4, <3>5 DEF AsAttached
        <5> QED
          BY <3>1, <3>5, <3>7, <5>1
      <4>3. \A y \in {mounts'[m] : m \in DOMAIN mounts'} :
              y = x \/ y \in {mounts[m] : m \in DOMAIN mounts}
        BY <3>4, <3>5, <3>7
      <4>4. \A y \in {mounts'[m] : m \in DOMAIN mounts'} :
              y.object = Object(y.slot) /\ y.node = TargetNode(y.slot) /\ y.attrs = Attrs(y.slot)
        <5>1. /\ x.slot = slot /\ x.object = Object(slot)
              /\ x.node = TargetNode(slot) /\ x.attrs = Attrs(slot)
          BY <3>1
        <5>2. \A y \in {mounts[m] : m \in DOMAIN mounts} :
                y.object = Object(y.slot) /\ y.node = TargetNode(y.slot) /\ y.attrs = Attrs(y.slot)
          BY <3>3 DEF AsAttached
        <5> QED
          BY <4>3, <5>1, <5>2
      <4> QED
        BY <3>6, <4>1, <4>2, <4>4 DEF AsAttached
    <3>9. \A m \in 1 .. i : mounts'[m].node = TargetNode(AttachOrder[m])
      <4>1. \A m \in 1 .. i - 1 : mounts[m].node = TargetNode(AttachOrder[m])
        BY <3>3, <3>4 DEF AsAttached
      <4> QED
        BY <3>1, <3>5, <3>7, <4>1
    <3>10. ASSUME NEW m \in 1 .. i - 1, Hidden(m)'
           PROVE  FALSE
      <4>1. PICK n \in 1 .. i : \/ n > m /\ mounts'[n].node = mounts'[m].node
                                \/ Above(mounts'[n].node, mounts'[m].node)
        BY <3>5, <3>10 DEF Hidden, Above, Prefix
      <4>2. m \in 1 .. i /\ m < i /\ m \in DOMAIN mounts
        BY <1>0, <3>4
      <4>3. CASE n = i
        <5>1. mounts'[n].node # mounts'[m].node
          BY <1>0, <3>3, <3>4, <3>9, <4>2, <4>3, NodesDiffer
        <5>2. ~Above(mounts'[n].node, mounts'[m].node)
          BY <1>0, <3>3, <3>4, <3>9, <4>2, <4>3, NoneAboveEarlier
        <5> QED
          BY <4>1, <5>1, <5>2
      <4>4. CASE n \in 1 .. i - 1
        <5>1. n \in DOMAIN mounts /\ \/ n > m /\ mounts[n].node = mounts[m].node
                                     \/ Above(mounts[n].node, mounts[m].node)
          BY <3>4, <3>5, <4>1, <4>4
        <5>2. Hidden(m)
          BY <5>1 DEF Hidden, Above, Prefix
        <5> QED
          BY <3>3, <4>2, <5>2
      <4> QED
        BY <3>7, <4>3, <4>4
    <3>11. \A m \in DOMAIN mounts' : m < i' => ~Hidden(m)'
      <4> SUFFICES ASSUME NEW m \in 1 .. i, m < i PROVE ~Hidden(m)'
        BY <3>2, <3>5
      <4>1. m \in 1 .. i - 1
        BY <3>7
      <4> QED
        BY <3>10, <4>1
    <3>12. BindPolicies(cfg.binds, cfg.dns)'
      BY <3>2, <3>3 DEF BindPolicies
    <3> QED
      BY <3>2, <3>3, <3>5, <3>6, <3>8, <3>11, <3>12 DEF ViewInv
  <2> QED
    BY <2>1, <2>2
<1>13. CASE VerifyMount
  <2>1. CASE pc' = "unwind"
    BY <1>13, <2>1, ViewQuiet DEF VerifyMount, ViewInv
  <2>2. CASE pc' # "unwind"
    <3>1. /\ pc = "verify" /\ Verified(AttachOrder[i])
          /\ \/ i = Len(AttachOrder) /\ pc' = "cleanStage" /\ i' = 1
             \/ i # Len(AttachOrder) /\ pc' \in {"populate", "attach"} /\ i' = i + 1
          /\ UNCHANGED <<cfg, mounts, held, targets, oldRoot>>
      BY <1>13, <2>2 DEF VerifyMount
    <3>2. /\ i <= Len(AttachOrder) /\ Len(mounts) = i
          /\ Len(targets) = Len(OpenOrder) /\ BindPolicies(cfg.binds, cfg.dns)
          /\ AsAttached /\ \A m \in DOMAIN mounts : m < i => ~Hidden(m)
      BY <3>1 DEF HostInv, TargetsInv, ViewInv
    <3>3. DOMAIN mounts = 1 .. i /\ i \in DOMAIN AttachOrder
      BY <1>0, <1>a, <3>2
    <3>4. ~Hidden(i)
      BY <1>0, <3>1, <3>2, <3>3, VerifiedUnhidden
    <3>5. \A m \in DOMAIN mounts : ~Hidden(m)
      <4>1. \A m \in 1 .. i : m < i \/ m = i
        BY <1>0
      <4> QED
        BY <3>2, <3>3, <3>4, <4>1
    <3>6. pc' \in {"attach", "populate"} => Len(mounts) = i' - 1
      BY <1>0, <3>1, <3>2
    <3>7. pc' \in Entering => Len(mounts) = Len(AttachOrder)
      BY <3>1, <3>2
    <3> QED
      BY <3>1, <3>2, <3>5, <3>6, <3>7, ViewQuiet
  <2> QED
    BY <2>1, <2>2
<1>14. CASE PopulateDev
  <2>1. CASE pc' = "unwind"
    BY <1>14, <2>1, ViewQuiet DEF PopulateDev, ViewInv
  <2>2. CASE pc' # "unwind"
    BY <1>14, <2>2, ViewQuiet DEF PopulateDev, ViewInv
  <2> QED
    BY <2>1, <2>2
<1>15. CASE CleanStage
  <2>1. pc = "cleanStage" /\ pc' \in {"pivot", "unwind"}
    BY <1>15 DEF CleanStage
  <2> QED
    BY <1>15, <2>1, ViewQuiet DEF CleanStage, ViewInv
<1>16. CASE PivotRoot
  BY <1>16, ViewQuiet DEF PivotRoot, ViewInv
<1>17. CASE DetachOldRoot
  BY <1>17, ViewQuiet DEF DetachOldRoot, ViewInv
<1>18. CASE Unwind
  BY <1>18, ViewQuiet DEF Unwind, ViewInv
<1>19. ASSUME NEW p \in Paths, PayloadWrites(p) PROVE ViewInv'
  BY <1>19, ViewQuiet DEF PayloadWrites, ViewInv
<1>20. ASSUME NEW p \in Paths, HostReplaces(p) PROVE ViewInv'
  BY <1>20, ViewQuiet DEF HostReplaces, ViewInv
<1>21. ASSUME NEW h \in HostPaths, HostReplacesSource(h) PROVE ViewInv'
  BY <1>21, ViewQuiet DEF HostReplacesSource, ViewInv
<1>22. CASE Killed
  BY <1>22, ViewQuiet DEF Killed, ViewInv
<1>23. CASE UNCHANGED vars
  BY <1>23, ViewQuiet DEF vars, ViewInv
<1> QED
  BY <1>1, <1>2, <1>3, <1>4, <1>5, <1>6, <1>7, <1>8, <1>9, <1>10, <1>11, <1>12, <1>13, <1>14,
     <1>15, <1>16, <1>17, <1>18, <1>19, <1>20, <1>21, <1>22, <1>23
  DEF Next, IsolateRootFS

\* A child that enters its new root has there every mount of its configuration,
\* made of what was opened and checked, with its attributes, on the target that
\* was opened by its name, and hidden by no other; the root is sealed and the old
\* one out of reach (attachMount and its verification, openOrCreateTarget,
\* setRecursiveMountAttrs, validateBindPolicies).  It does not say that the name
\* still leads to the target when the host replaces it after the verification.
THEOREM ViewComplete == Spec => []ViewAsConfigured
<1>1. Init => HostInv /\ TargetsInv /\ ViewInv
  <2> SUFFICES ASSUME Init PROVE HostInv /\ TargetsInv /\ ViewInv
    OBVIOUS
  <2>1. /\ mounts = <<>> /\ targets = <<>> /\ changed = {} /\ pc = "validate" /\ i = 1
        /\ DOMAIN mounts = {} /\ DOMAIN targets = {} /\ Len(mounts) = 0 /\ Len(targets) = 0
    BY DEF Init
  <2>2. TypeOK
    BY TypeInit DEF TypeInv
  <2>3. Len(AttachOrder) \in Nat /\ Len(OpenOrder) = Len(AttachOrder)
    BY <2>2, OrderDomains
  <2>4. MountsDeclared /\ (\E S : mounts \in Seq(S))
    BY <2>1 DEF MountsDeclared
  <2>5. HostInv
    BY <2>1, <2>4 DEF HostInv, Looking, Staging, Assembling, Entering
  <2>6. AllSound /\ DnsApart /\ AsAttached /\ targets \in Seq(TargetType)
    BY <2>1 DEF AllSound, DnsApart, AsAttached
  <2>7. TargetsInv
    BY <2>1, <2>3, <2>6 DEF TargetsInv, Looking, Staging, Assembling, Entering
  <2>8. ViewInv
    BY <2>1, <2>3, <2>6 DEF ViewInv, Looking, Staging, Assembling, Entering
  <2> QED
    BY <2>5, <2>7, <2>8
<1>2. TypeInv /\ HostInv /\ TargetsInv /\ ViewInv => ViewAsConfigured
  <2> SUFFICES ASSUME TypeInv, HostInv, TargetsInv, ViewInv, pc = "done"
               PROVE  /\ ~oldRoot
                      /\ \A slot \in Slots : \E m \in DOMAIN mounts :
                           /\ mounts[m].slot = slot /\ mounts[m].object = Object(slot)
                           /\ mounts[m].attrs = Attrs(slot)
                           /\ mounts[m].node.path = TargetPath(slot)
                           /\ ~Hidden(m)
    BY DEF ViewAsConfigured, HostInv, Entering
  <2>1. TypeOK
    BY DEF TypeInv
  <2>2. /\ ~oldRoot /\ Len(mounts) = Len(AttachOrder) /\ Len(targets) = Len(OpenOrder)
        /\ AsAttached /\ \A m \in DOMAIN mounts : ~Hidden(m)
    BY DEF ViewInv, TargetsInv, Entering
  <2>3. DOMAIN mounts = DOMAIN AttachOrder
    <3>1. PICK S : mounts \in Seq(S)
      BY DEF HostInv
    <3> QED
      BY <2>1, <2>2, <3>1, OrderDomains
  <2>4. ASSUME NEW slot \in Slots
        PROVE  \E m \in DOMAIN mounts :
                 /\ mounts[m].slot = slot /\ mounts[m].object = Object(slot)
                 /\ mounts[m].attrs = Attrs(slot)
                 /\ mounts[m].node.path = TargetPath(slot)
                 /\ ~Hidden(m)
    <3>1. PICK m \in DOMAIN AttachOrder : slot = AttachOrder[m]
      BY DEF Slots
    <3>2. /\ mounts[m].slot = slot /\ mounts[m].object = Object(slot)
          /\ mounts[m].node = TargetNode(slot) /\ mounts[m].attrs = Attrs(slot)
      BY <2>2, <2>3, <3>1 DEF AsAttached
    <3>3. TargetNode(slot).path = TargetPath(slot)
      BY <2>1, <2>2, <3>1, NodeOfSlot
    <3> QED
      BY <2>2, <2>3, <3>2, <3>3
  <2> QED
    BY <2>2, <2>4
<1> QED
  BY <1>1, <1>2, TypeInit, TypeStep, HostStep, TargetsStep, ViewStep, PTL DEF Spec
=============================================================================
