---------------------------- MODULE DeployProofs ----------------------------
(***************************************************************************)
(* Proofs about Deploy for any platforms, paths and bounds: the types, that  *)
(* the user's content stands, that a deploy takes nothing from another       *)
(* platform, and that deploys leave nothing behind without an owner, and     *)
(* nothing stale while no platform drifts.                                  *)
(***************************************************************************)
EXTENDS Deploy, TLAPS

LEMMA PipelineIs ==
  /\ Len(Pipeline) = 12 /\ DOMAIN Pipeline = 1..12
  /\ Pipeline[1] = "purge" /\ Pipeline[2] = "heal"
  /\ \A k \in 3..10 : Pipeline[k] \in Kinds
  /\ Pipeline[11] = "save" /\ Pipeline[12] = "mark"
BY DEF Pipeline, Kinds

(* The deploy that runs is within its platform: it handles its own paths, may *)
(* remove only what no other platform owns, and purges no merged section.    *)
RunIsScoped ==
  /\ run.platform \in Platforms
  /\ run.at \in 1..12
  /\ run.prior \subseteq Writes[run.platform] \ OwnedByOthers(run.platform)
  /\ run.owned \subseteq Writes[run.platform]
  /\ run.at = 1 => run.todo \subseteq run.prior \ Protected(run.platform)
  /\ run.at \in 3..10 => run.todo \subseteq Of(run.platform, run.at)
  /\ run.copying # NoPath =>
       /\ run.copying \in run.todo /\ run.at \in 3..10
       /\ source[run.copying] > 0 /\ Kind[run.copying] \in Trees

OwnersWrite == \A q \in Platforms : manifest[q] \subseteq Writes[q]

(* No manifest lists a file the user wrote, unless it is one that is merged. *)
UserApart == \A p \in authored \cap Claimed : Kind[p] \in Merged

Inv == TypeOK /\ (~Idle => RunIsScoped) /\ OwnersWrite /\ UserApart

USE DeployAssumption

LEMMA NoRunIs ==
  /\ NoRun.platform = NoPlatform /\ NoRun.withheld = {} /\ NoRun.at = 0
  /\ NoRun.prior = {} /\ NoRun.owned = {} /\ NoRun.todo = {} /\ NoRun.done = {}
  /\ NoRun.copying = NoPath
BY DEF NoRun

(***************************************************************************)
(* Types.                                                                  *)
(***************************************************************************)

DiskType == [version : Nat, mine : BOOLEAN]

RunsType ==
  [platform : Platforms \cup {NoPlatform}, withheld : SUBSET Paths,
   at : 0..Len(Pipeline), prior : SUBSET Paths, owned : SUBSET Paths,
   todo : SUBSET Paths, done : SUBSET Paths, copying : Paths \cup {NoPath}]

(* As TypeOK, with the fields of run.                                      *)
FullType == TypeOK /\ run \in RunsType

LEMMA InitType == Init => FullType
<1> SUFFICES ASSUME Init PROVE FullType
  OBVIOUS
<1>1. run \in RunsType
  BY PipelineIs DEF Init, NoRun, RunsType
<1>2. RunType
  BY <1>1 DEF RunsType, RunType
<1> QED
  BY <1>1, <1>2 DEF Init, FullType, TypeOK, Nothing, NoBaseline

(* Whatever is handled is a path.                                          *)
LEMMA StepType ==
  ASSUME FullType, Inv, [Next]_vars
  PROVE  FullType'
<1> USE DEF FullType
<1>a. run' \in RunsType => RunType'
  BY DEF RunsType, RunType
<1>1. CASE Environment
  <2> PICK p \in Paths : \/ EditSource(p)
                         \/ RemoveSource(p)
                         \/ UserWrites(p)
                         \/ UserRemoves(p)
    BY <1>1 DEF Environment
  <2>r. run' = run
    BY DEF EditSource, RemoveSource, UserWrites, UserRemoves
  <2>1. CASE EditSource(p)
    BY <2>1, <1>a DEF EditSource, TypeOK
  <2>2. CASE RemoveSource(p)
    BY <2>2, <1>a DEF RemoveSource, TypeOK
  <2>3. CASE UserWrites(p)
    <3>1. disk' \in [Paths -> [version : Nat, mine : BOOLEAN]]
      <4> disk[p] \in [version : Nat, mine : BOOLEAN]
        BY DEF TypeOK
      <4> [disk[p] EXCEPT !.mine = TRUE] \in [version : Nat, mine : BOOLEAN]
        OBVIOUS
      <4> QED
        BY <2>3 DEF UserWrites, TypeOK
    <3> QED
      BY <3>1, <2>3, <1>a DEF UserWrites, TypeOK
  <2>4. CASE UserRemoves(p)
    BY <2>4, <1>a DEF UserRemoves, TypeOK, Nothing
  <2> QED
    BY <2>1, <2>2, <2>3, <2>4
<1>2. ASSUME NEW q \in Platforms, NEW rebuild \in BOOLEAN, NEW include \in BOOLEAN,
             Begin(q, rebuild, include)
      PROVE  FullType'
  <2>1. Prior(q) \subseteq Paths
    BY DEF Prior, TypeOK
  <2>2. StartOf(q, rebuild, include, Prior(q)) \in RunsType
    BY <2>1, PipelineIs DEF StartOf, RunsType
  <2> QED
    BY <1>2, <2>2, <1>a DEF Begin, TypeOK
<1>f. ASSUME NEW p \in Paths PROVE Finished(p) \in RunsType
  BY DEF Finished, RunsType
<1>3. ASSUME NEW p \in Paths, Land(p) PROVE FullType'
  <2>1. Written(p) \in [version : Nat, mine : BOOLEAN]
    BY DEF Written, TypeOK
  <2>2. Record(p) \in RunsType
    <3>1. Finished(p) \in RunsType
      BY <1>f
    <3> HIDE DEF FullType
    <3> QED
      BY <3>1 DEF Record, RunsType
  <2>3. disk' \in [Paths -> [version : Nat, mine : BOOLEAN]]
    BY <1>3, <2>1 DEF Land, TypeOK
  <2> QED
    BY <1>3, <2>2, <2>3, <1>a DEF Land, TypeOK
<1>4. CASE DeployPath
  <2> PICK p \in Paths : \/ Purge(p)
                         \/ PurgeFails(p)
                         \/ WriteFile(p)
                         \/ Preserve(p)
                         \/ RemoveTree(p)
                         \/ CopyTree(p)
                         \/ Withhold(p)
                         \/ Prune(p)
                         \/ OverlookSkill(p)
    BY <1>4 DEF DeployPath
  <2>0. Nothing \in [version : Nat, mine : BOOLEAN]
    BY DEF Nothing
  <2>1. CASE Purge(p)
    BY <2>1, <2>0, <1>f, <1>a DEF Purge, TypeOK
  <2>2. CASE PurgeFails(p)
    BY <2>2, <1>f, <1>a DEF PurgeFails, TypeOK
  <2>3. CASE WriteFile(p)
    BY <2>3, <1>3 DEF WriteFile
  <2>4. CASE RemoveTree(p)
    <3>1. run' \in RunsType
      BY <2>4 DEF RemoveTree, RunsType
    <3> QED
      BY <2>4, <2>0, <3>1, <1>a DEF RemoveTree, TypeOK
  <2>5. CASE CopyTree(p)
    BY <2>5, <1>3 DEF CopyTree
  <2>6. CASE Withhold(p)
    <3>1. run' \in RunsType
      BY <2>6 DEF Withhold, RunsType
    <3> QED
      BY <2>6, <3>1, <1>a DEF Withhold, TypeOK
  <2>7. CASE Prune(p)
    <3>1. run' \in RunsType
      BY <2>7, <1>f DEF Prune, RunsType
    <3> QED
      BY <2>7, <2>0, <3>1, <1>a DEF Prune, TypeOK
  <2>8. CASE Preserve(p) \/ OverlookSkill(p)
    <3>1. run' \in RunsType
      BY <2>8 DEF Preserve, OverlookSkill, RunsType
    <3> QED
      BY <2>8, <3>1, <1>a DEF Preserve, OverlookSkill, TypeOK
  <2> QED
    BY <2>1, <2>2, <2>3, <2>4, <2>5, <2>6, <2>7, <2>8
<1>g. ASSUME ~Idle, GoOn PROVE run' \in RunsType
  <2> PICK k \in DOMAIN Pipeline :
        Upcoming(k) /\ run' = [run EXCEPT !.at = k, !.todo = Of(run.platform, k)]
    BY <1>g DEF GoOn
  <2>1. Of(run.platform, k) \subseteq Paths
    BY <1>g DEF Of, Inv, RunIsScoped
  <2>2. k \in 0..Len(Pipeline)
    BY PipelineIs
  <2> QED
    BY <2>1, <2>2 DEF RunsType
<1>5. CASE Purged
  <2>1. run.at + 1 \in 0..Len(Pipeline)
    <3>1. ~Idle /\ run.at \in 1..12 /\ Pipeline[run.at] = "purge"
      BY <1>5 DEF Purged, Stage, Inv, RunIsScoped
    <3>2. run.at # 12
      BY <3>1, PipelineIs
    <3> QED
      BY <3>1, <3>2, PipelineIs
  <2>2. run' \in RunsType
    BY <1>5, <2>1 DEF Purged, RunsType
  <2> QED
    BY <1>5, <2>2, <1>a DEF Purged, TypeOK
<1>6. CASE SelfHeal
  <2>1. run' \in RunsType
    BY <1>6, <1>g DEF SelfHeal, Stage
  <2> QED
    BY <1>6, <2>1, <1>a DEF SelfHeal, TypeOK
<1>7. CASE HooksFail
  <2>1. run' \in RunsType
    BY <1>7 DEF HooksFail, RunsType
  <2>2. run.todo \subseteq Paths
    BY DEF RunsType
  <2> QED
    BY <1>7, <2>1, <2>2, <1>a DEF HooksFail, TypeOK
<1>8. CASE DegradationFails
  <2> DEFINE stale == {p \in Of(run.platform, run.at) : p \in run.prior}
  <2>1. stale \subseteq Paths /\ run.todo \subseteq Paths
    BY DEF RunsType
  <2>2. /\ disk' = [p \in Paths |-> IF p \in stale THEN Nothing ELSE disk[p]]
        /\ authored' = authored \ stale
        /\ loose' = loose \cup run.todo
        /\ run' = [run EXCEPT !.todo = {}, !.done = @ \cup stale]
        /\ upsets < MaxUpsets /\ upsets' = upsets + 1
        /\ UNCHANGED <<source, manifest, baseline, broken>>
    BY <1>8 DEF DegradationFails
  <2>3. run' \in RunsType
    BY <2>1, <2>2 DEF RunsType
  <2>4. disk' \in [Paths -> [version : Nat, mine : BOOLEAN]]
    BY <2>2 DEF TypeOK, Nothing
  <2> QED
    BY <2>1, <2>2, <2>3, <2>4, <1>a DEF TypeOK
<1>14. CASE SkipStep
  <2>1. run' \in RunsType
    BY <1>14 DEF SkipStep, RunsType
  <2>2. {p \in run.todo : Removable(p)} \subseteq Paths
    BY DEF RunsType
  <2> QED
    BY <1>14, <2>1, <2>2, <1>a DEF SkipStep, TypeOK
<1>9. CASE NextStep
  <2>1. run' \in RunsType
    <3>1. ~Idle
      BY <1>9 DEF NextStep, Stage, Kinds
    <3> QED
      BY <1>9, <3>1, <1>g DEF NextStep
  <2> QED
    BY <1>9, <2>1, <1>a DEF NextStep, TypeOK
<1>10. CASE SaveManifest
  <2>1. run.at + 1 \in 0..Len(Pipeline) /\ run.platform \in Platforms
    <3>1. ~Idle /\ run.at \in 1..12 /\ Pipeline[run.at] = "save"
      BY <1>10 DEF SaveManifest, Stage, Inv, RunIsScoped
    <3>2. run.at # 12
      BY <3>1, PipelineIs
    <3> QED
      BY <3>1, <3>2, PipelineIs DEF Inv, RunIsScoped
  <2>2. run' \in RunsType
    BY <1>10, <2>1 DEF SaveManifest, RunsType
  <2>3. run.owned \in SUBSET Paths
    BY DEF RunsType
  <2> QED
    BY <1>10, <2>1, <2>2, <2>3, <1>a DEF SaveManifest, TypeOK
<1>n. NoRun \in RunsType
  BY PipelineIs DEF NoRun, RunsType
<1>11. CASE WriteState
  BY <1>11, <1>n, <1>a DEF WriteState, TypeOK
<1>12. CASE Crash
  <2>1. run.done \subseteq Paths
    BY DEF RunsType
  <2> QED
    BY <1>12, <1>n, <2>1, <1>a DEF Crash, TypeOK
<1>13. CASE UNCHANGED vars
  BY <1>13, <1>a DEF vars, TypeOK
<1> QED
  BY <1>1, <1>2, <1>4, <1>5, <1>6, <1>7, <1>8, <1>9, <1>10, <1>11, <1>12, <1>13,
     <1>14
  DEF Next

(***************************************************************************)
(* The invariant.                                                          *)
(***************************************************************************)

LEMMA StageIs ==
  ASSUME ~Idle => RunIsScoped
  PROVE  /\ Stage = "purge" => ~Idle /\ run.at = 1
         /\ Stage = "heal" => ~Idle /\ run.at = 2
         /\ Stage \in Kinds => ~Idle /\ run.at \in 3..10 /\ Stage = Pipeline[run.at]
         /\ Stage = "save" => ~Idle /\ run.at = 11
         /\ Stage = "mark" => ~Idle /\ run.at = 12
<1>1. CASE Idle
  BY <1>1 DEF Stage, Kinds
<1>2. CASE ~Idle
  <2>1. run.at \in 1..12 /\ Stage = Pipeline[run.at]
    BY <1>2 DEF RunIsScoped, Stage
  <2>2. run.at = 1 \/ run.at = 2 \/ run.at \in 3..10 \/ run.at = 11 \/ run.at = 12
    BY <2>1
  <2> QED
    BY <1>2, <2>1, <2>2, PipelineIs DEF Kinds
<1> QED
  BY <1>1, <1>2

(* What a step handles is the platform's and of the step's kind.           *)
LEMMA HandledIs ==
  ASSUME RunIsScoped, run.at \in 3..10, NEW p \in run.todo
  PROVE  p \in Writes[run.platform] /\ Kind[p] = Pipeline[run.at]
BY DEF RunIsScoped, Of

LEMMA InitInv == Init => FullType /\ Inv
<1> SUFFICES ASSUME Init PROVE FullType /\ Inv
  OBVIOUS
<1>1. FullType
  BY InitType
<1>2. Idle /\ OwnersWrite /\ UserApart
  BY DEF Init, Idle, OwnersWrite, UserApart
<1> QED
  BY <1>1, <1>2 DEF Inv, FullType

(* A deploy stays within its platform.                                     *)
LEMMA StepScoped ==
  ASSUME FullType, Inv, [Next]_vars
  PROVE  ~Idle' => RunIsScoped'
<1> SUFFICES ASSUME ~Idle' PROVE RunIsScoped'
  OBVIOUS
<1> USE DEF Inv
<1>0. /\ run.todo \subseteq Paths /\ NoPath \notin run.todo
      /\ run \in RunsType
  BY DEF FullType, RunsType
<1>1. CASE Environment
  <2>1. run' = run /\ manifest' = manifest /\ ~Idle
    BY <1>1 DEF Environment, EditSource, RemoveSource, UserWrites, UserRemoves, Idle
  <2>2. source' = source
    BY <1>1, <2>1 DEF Environment, EditSource, RemoveSource, UserWrites, UserRemoves
  <2> QED
    BY <2>1, <2>2 DEF RunIsScoped, OwnedByOthers, Of, Protected
<1>2. ASSUME NEW q \in Platforms, NEW rebuild \in BOOLEAN, NEW include \in BOOLEAN,
             Begin(q, rebuild, include)
      PROVE  RunIsScoped'
  <2>1. run' = StartOf(q, rebuild, include, Prior(q)) /\ manifest' = manifest
    BY <1>2 DEF Begin
  <2> QED
    BY <2>1 DEF StartOf, Prior, RunIsScoped, OwnedByOthers, Protected, OwnersWrite
<1>g. ASSUME ~Idle, GoOn, run.copying = NoPath, manifest' = manifest
      PROVE  RunIsScoped'
  <2> PICK k \in DOMAIN Pipeline :
        Upcoming(k) /\ run' = [run EXCEPT !.at = k, !.todo = Of(run.platform, k)]
    BY <1>g DEF GoOn
  <2>1. k \in 2..12
    BY <1>g, PipelineIs DEF Upcoming, RunIsScoped
  <2>2. /\ run'.at = k /\ run'.todo = Of(run.platform, k)
        /\ run'.platform = run.platform /\ run'.prior = run.prior
        /\ run'.owned = run.owned /\ run'.copying = NoPath
    BY <1>0, <1>g DEF RunsType
  <2> QED
    BY <1>g, <2>1, <2>2 DEF RunIsScoped, OwnedByOthers, Of, Protected
\* Steps that only take paths off the list
<1>t. ASSUME ~Idle, source' = source, manifest' = manifest,
             run'.platform = run.platform, run'.at = run.at,
             run'.prior = run.prior, run'.owned = run.owned,
             run'.todo \subseteq run.todo,
             run'.copying = NoPath
      PROVE  RunIsScoped'
  BY <1>t DEF RunIsScoped, OwnedByOthers, Of, Protected
<1>c. ASSUME ~Idle, run.at # 1, run.at \notin 3..10 PROVE run.copying = NoPath
  BY <1>c DEF RunIsScoped
<1>3. ASSUME NEW p \in Paths, Land(p), ~Idle, run.at \in 3..10,
             p \in run.todo
      PROVE  RunIsScoped'
  <2>1. /\ run'.platform = run.platform /\ run'.at = run.at
        /\ run'.prior = run.prior /\ run'.owned = run.owned \cup {p}
        /\ run'.todo = run.todo \ {p} /\ run'.copying = NoPath
        /\ manifest' = manifest
    BY <1>0, <1>3 DEF Land, Record, Finished, RunsType
  <2>2. p \in Writes[run.platform]
    BY <1>3, HandledIs
  <2> QED
    BY <1>3, <2>1, <2>2 DEF RunIsScoped, OwnedByOthers, Of, Protected
<1>4. CASE DeployPath
  <2> PICK p \in Paths : \/ Purge(p)
                         \/ PurgeFails(p)
                         \/ WriteFile(p)
                         \/ Preserve(p)
                         \/ RemoveTree(p)
                         \/ CopyTree(p)
                         \/ Withhold(p)
                         \/ Prune(p)
                         \/ OverlookSkill(p)
    BY <1>4 DEF DeployPath
  <2>f. /\ Finished(p).platform = run.platform /\ Finished(p).at = run.at
        /\ Finished(p).prior = run.prior /\ Finished(p).owned = run.owned
        /\ Finished(p).todo = run.todo \ {p}
        /\ Finished(p).copying = run.copying
    BY <1>0 DEF Finished, RunsType
  <2>1. CASE Purge(p) \/ PurgeFails(p)
    <3>1. ~Idle /\ run.at = 1 /\ source' = source /\ manifest' = manifest
          /\ run' = Finished(p)
      BY <2>1, StageIs DEF Purge, PurgeFails
    <3>2. run.copying = NoPath
      BY <3>1 DEF RunIsScoped
    <3> QED
      BY <3>1, <3>2, <2>f, <1>t
  <2>3. CASE WriteFile(p)
    BY <2>3, <1>3, StageIs DEF WriteFile, Due
  <2>4. CASE RemoveTree(p)
    <3>1. ~Idle /\ run.at \in 3..10 /\ p \in run.todo /\ source[p] > 0
          /\ source' = source /\ manifest' = manifest /\ Kind[p] \in Trees
      BY <2>4, StageIs DEF RemoveTree, Due
    <3>2. /\ run'.platform = run.platform /\ run'.at = run.at
          /\ run'.prior = run.prior /\ run'.owned = run.owned
          /\ run'.todo = run.todo /\ run'.copying = p
      BY <1>0, <2>4 DEF RemoveTree, RunsType
    <3> QED
      BY <3>1, <3>2 DEF RunIsScoped, OwnedByOthers, Of, Protected
  <2>5. CASE CopyTree(p)
    <3>1. ~Idle /\ run.at \in 3..10
      BY <2>5, StageIs DEF CopyTree, Trees, Kinds
    <3>2. p \in run.todo
      BY <2>5, <3>1 DEF CopyTree, RunIsScoped
    <3> QED
      BY <2>5, <3>1, <3>2, <1>3 DEF CopyTree
  <2>6. CASE Withhold(p)
    <3>1. ~Idle /\ source' = source /\ manifest' = manifest
      BY <2>6, StageIs DEF Withhold, Due
    <3>2. /\ run'.platform = run.platform /\ run'.at = run.at
          /\ run'.prior = run.prior /\ run'.owned = run.owned
          /\ run'.todo \subseteq run.todo /\ run'.copying = NoPath
      BY <1>0, <2>6 DEF Withhold, Due, RunsType
    <3> QED
      BY <3>1, <3>2, <1>t
  <2>7. CASE Prune(p)
    <3>1. ~Idle /\ source' = source /\ manifest' = manifest
      BY <2>7, StageIs DEF Prune, Due
    <3>2. /\ run'.platform = run.platform /\ run'.at = run.at
          /\ run'.prior = run.prior /\ run'.owned = run.owned
          /\ run'.todo \subseteq run.todo /\ run'.copying = NoPath
      BY <1>0, <2>7, <2>f DEF Prune, Due, RunsType
    <3> QED
      BY <3>1, <3>2, <1>t
  <2>8. CASE Preserve(p) \/ OverlookSkill(p)
    <3>1. ~Idle /\ source' = source /\ manifest' = manifest
      BY <2>8, StageIs DEF Preserve, OverlookSkill, Due
    <3>2. /\ run'.platform = run.platform /\ run'.at = run.at
          /\ run'.prior = run.prior /\ run'.owned = run.owned
          /\ run'.todo \subseteq run.todo /\ run'.copying = NoPath
      BY <1>0, <2>8 DEF Preserve, OverlookSkill, Due, RunsType
    <3> QED
      BY <3>1, <3>2, <1>t
  <2> QED
    BY <2>1, <2>3, <2>4, <2>5, <2>6, <2>7, <2>8
<1>5. CASE Purged
  <2>1. ~Idle /\ run.at = 1 /\ manifest' = manifest /\ run.copying = NoPath
    BY <1>5, StageIs DEF Purged, RunIsScoped
  <2>2. /\ run'.platform = run.platform /\ run'.at = 2
        /\ run'.prior = {} /\ run'.owned = run.owned
        /\ run'.copying = NoPath
    BY <1>0, <1>5, <2>1 DEF Purged, RunsType
  <2> QED
    BY <2>1, <2>2 DEF RunIsScoped, OwnedByOthers
<1>6. CASE SelfHeal
  <2>1. ~Idle /\ run.at = 2 /\ GoOn /\ manifest' = manifest
    BY <1>6, StageIs DEF SelfHeal
  <2> QED
    BY <2>1, <1>c, <1>g
\* Only a directory is being copied.
<1>k. ASSUME Stage \in Kinds \ Trees PROVE run.copying = NoPath
  BY <1>k, StageIs, HandledIs DEF RunIsScoped
<1>7. CASE HooksFail
  <2>1. ~Idle /\ source' = source /\ manifest' = manifest /\ run.copying = NoPath
    BY <1>7, <1>k, StageIs DEF HooksFail, Kinds, Trees
  <2>2. /\ run'.platform = run.platform /\ run'.at = run.at
        /\ run'.prior = run.prior /\ run'.owned = run.owned
        /\ run'.todo = {} /\ run'.copying = run.copying
    BY <1>0, <1>7 DEF HooksFail, RunsType
  <2> QED
    BY <2>1, <2>2, <1>t
<1>8. CASE DegradationFails
  <2>1. ~Idle /\ source' = source /\ manifest' = manifest /\ run.copying = NoPath
    BY <1>8, <1>k, StageIs DEF DegradationFails, Kinds, Trees
  <2>2. /\ run'.platform = run.platform /\ run'.at = run.at
        /\ run'.prior = run.prior /\ run'.owned = run.owned
        /\ run'.todo = {} /\ run'.copying = run.copying
    BY <1>0, <1>8 DEF DegradationFails, RunsType
  <2> QED
    BY <2>1, <2>2, <1>t
<1>14. CASE SkipStep
  <2>1. ~Idle /\ run.at \in 3..10 /\ source' = source /\ manifest' = manifest
    BY <1>14, StageIs DEF SkipStep, FromDirectory, Kinds
  <2>2. run.copying = NoPath
    <3>1. \A p \in run.todo : source[p] = 0
      BY <1>0, <1>14, <2>1, StageIs, HandledIs DEF SkipStep, FromDirectory, Kinds
    <3> QED
      BY <2>1, <3>1 DEF RunIsScoped
  <2>3. /\ run'.platform = run.platform /\ run'.at = run.at
        /\ run'.prior = run.prior /\ run'.owned = run.owned
        /\ run'.todo = {} /\ run'.copying = run.copying
    BY <1>0, <1>14 DEF SkipStep, RunsType
  <2> QED
    BY <2>1, <2>2, <2>3, <1>t
<1>9. CASE NextStep
  <2>1. ~Idle /\ run.at \in 3..10 /\ GoOn /\ manifest' = manifest /\ run.todo = {}
    BY <1>9, StageIs DEF NextStep
  <2>2. run.copying = NoPath
    BY <2>1 DEF RunIsScoped
  <2> QED
    BY <2>1, <2>2, <1>g
<1>10. CASE SaveManifest
  <2>1. /\ ~Idle /\ run.at = 11 /\ run.platform \in Platforms
        /\ run.copying = NoPath
        /\ manifest' = [manifest EXCEPT ![run.platform] = run.owned]
    BY <1>10, <1>c, StageIs DEF SaveManifest, RunIsScoped
  <2>2. /\ run'.platform = run.platform /\ run'.at = 12
        /\ run'.prior = run.prior /\ run'.owned = run.owned
        /\ run'.copying = run.copying
    BY <1>0, <1>10, <2>1 DEF SaveManifest, RunsType
  <2>3. OwnedByOthers(run.platform)' = OwnedByOthers(run.platform)
    BY <2>1, <2>2 DEF OwnedByOthers, FullType, TypeOK
  <2> QED
    BY <2>1, <2>2, <2>3 DEF RunIsScoped
<1>11. CASE WriteState
  BY <1>11 DEF WriteState, Idle
<1>12. CASE Crash
  BY <1>12 DEF Crash, Idle
<1>13. CASE UNCHANGED vars
  BY <1>13 DEF vars, Idle, RunIsScoped, OwnedByOthers, Of, Protected
<1> QED
  BY <1>1, <1>2, <1>4, <1>5, <1>6, <1>7, <1>8, <1>9, <1>10, <1>11, <1>12, <1>13,
     <1>14
  DEF Next

(* Only the save changes a manifest, to what the deploy wrote.              *)
LEMMA StepOwners ==
  ASSUME FullType, Inv, [Next]_vars
  PROVE  OwnersWrite'
<1> USE DEF Inv
<1>1. CASE SaveManifest
  <2>1. /\ run.owned \subseteq Writes[run.platform]
        /\ manifest' = [manifest EXCEPT ![run.platform] = run.owned]
    BY <1>1, StageIs DEF SaveManifest, RunIsScoped
  <2> QED
    BY <2>1 DEF OwnersWrite, FullType, TypeOK
<1>2. CASE ~SaveManifest
  <2>1. manifest' = manifest
    BY <1>2
    DEF Next, vars, Environment, EditSource, RemoveSource, UserWrites,
        UserRemoves, Begin, DeployPath, Purge, PurgeFails, WriteFile, RemoveTree,
        CopyTree, Land, Withhold, Prune, Preserve, OverlookSkill, Purged,
        SelfHeal, SkipStep, HooksFail,
        DegradationFails, NextStep, WriteState, Crash
  <2> QED
    BY <2>1 DEF OwnersWrite
<1> QED
  BY <1>1, <1>2

(* A path the user writes is nobody's; a path that becomes a deploy's is no   *)
(* longer the user's, unless its file is merged.                            *)
LEMMA StepApart ==
  ASSUME FullType, Inv, [Next]_vars
  PROVE  UserApart'
<1> USE DEF Inv
<1>0. run \in RunsType
  BY DEF FullType
\* No path is claimed or written by the user that was not before.
<1>s. ASSUME authored' \subseteq authored, manifest' = manifest,
             run'.prior \subseteq Claimed, run'.owned \subseteq run.owned
      PROVE  UserApart'
  BY <1>s DEF UserApart, Claimed
<1>1. CASE Environment
  <2> PICK p \in Paths : \/ EditSource(p)
                         \/ RemoveSource(p)
                         \/ UserWrites(p)
                         \/ UserRemoves(p)
    BY <1>1 DEF Environment
  <2>1. run' = run /\ manifest' = manifest
    BY DEF EditSource, RemoveSource, UserWrites, UserRemoves
  <2>2. CASE UserWrites(p)
    BY <2>1, <2>2 DEF UserWrites, UserApart, Claimed
  <2>3. CASE EditSource(p) \/ RemoveSource(p) \/ UserRemoves(p)
    BY <2>1, <2>3, <1>s DEF EditSource, RemoveSource, UserRemoves, Claimed
  <2> QED
    BY <2>2, <2>3
<1>2. ASSUME NEW q \in Platforms, NEW rebuild \in BOOLEAN, NEW include \in BOOLEAN,
             Begin(q, rebuild, include)
      PROVE  UserApart'
  <2>1. run' = StartOf(q, rebuild, include, Prior(q)) /\ manifest' = manifest
        /\ authored' = authored
    BY <1>2 DEF Begin
  <2>2. run'.prior = Prior(q) /\ run'.owned = {}
    BY <2>1 DEF StartOf
  <2>3. Prior(q) \subseteq Claimed
    BY DEF Prior, Claimed
  <2> QED
    BY <2>1, <2>2, <2>3, <1>s
<1>3. ASSUME NEW p \in Paths, Land(p)
      PROVE  UserApart'
  <2>1. /\ run'.prior = run.prior /\ run'.owned = run.owned \cup {p}
        /\ manifest' = manifest
    BY <1>0, <1>3 DEF Land, Record, Finished, RunsType
  <2>2. Claimed' = Claimed \cup {p}
    BY <2>1 DEF Claimed
  <2>3. authored' \subseteq authored /\ (Kind[p] \in Merged \/ p \notin authored')
    BY <1>3 DEF Land
  <2> QED
    BY <2>2, <2>3 DEF UserApart
<1>4. CASE DeployPath
  <2> PICK p \in Paths : \/ Purge(p)
                         \/ PurgeFails(p)
                         \/ WriteFile(p)
                         \/ Preserve(p)
                         \/ RemoveTree(p)
                         \/ CopyTree(p)
                         \/ Withhold(p)
                         \/ Prune(p)
                         \/ OverlookSkill(p)
    BY <1>4 DEF DeployPath
  <2>1. CASE WriteFile(p) \/ CopyTree(p)
    BY <2>1, <1>3 DEF WriteFile, CopyTree
  <2>2. CASE ~(WriteFile(p) \/ CopyTree(p))
    <3>1. authored' \subseteq authored /\ manifest' = manifest
      BY <2>2 DEF Purge, PurgeFails, RemoveTree, Withhold, Prune, Preserve, OverlookSkill
    <3>2. run'.prior = run.prior /\ run'.owned = run.owned
      BY <2>2, <1>0
      DEF Purge, PurgeFails, RemoveTree, Withhold, Prune, Preserve, OverlookSkill,
          Finished, RunsType
    <3> QED
      BY <3>1, <3>2, <1>s DEF Claimed
  <2> QED
    BY <2>1, <2>2
<1>5. CASE Purged \/ SelfHeal \/ NextStep \/ SkipStep \/ HooksFail \/ DegradationFails
  <2>1. authored' \subseteq authored /\ manifest' = manifest
    BY <1>5 DEF Purged, SelfHeal, NextStep, SkipStep, HooksFail, DegradationFails
  <2>2. run'.prior \subseteq run.prior /\ run'.owned = run.owned
    BY <1>5, <1>0
    DEF Purged, SelfHeal, NextStep, SkipStep, HooksFail, DegradationFails, GoOn,
        RunsType
  <2> QED
    BY <2>1, <2>2, <1>s DEF Claimed
<1>6. CASE SaveManifest
  <2>1. /\ manifest' = [manifest EXCEPT ![run.platform] = run.owned]
        /\ authored' = authored
    BY <1>6 DEF SaveManifest
  <2>2. run'.prior = run.prior /\ run'.owned = run.owned
    BY <1>0, <1>6 DEF SaveManifest, RunsType
  <2>3. Claimed' \subseteq Claimed
    BY <2>1, <2>2 DEF Claimed, FullType, TypeOK
  <2> QED
    BY <2>1, <2>3 DEF UserApart
<1>7. CASE WriteState \/ Crash
  <2>1. authored' = authored /\ manifest' = manifest /\ run' = NoRun
    BY <1>7 DEF WriteState, Crash
  <2> QED
    BY <2>1, <1>s, NoRunIs DEF Claimed
<1>8. CASE UNCHANGED vars
  BY <1>8, <1>s DEF vars, Claimed
<1> QED
  BY <1>1, <1>2, <1>4, <1>5, <1>6, <1>7, <1>8 DEF Next

(* Every variable has its type.                                            *)
THEOREM TypesHold == Spec => []TypeOK
<1>1. Init => FullType /\ Inv
  BY InitInv
<1>2. FullType /\ Inv /\ [Next]_vars => (FullType /\ Inv)'
  BY StepType, StepScoped, StepOwners, StepApart DEF FullType, Inv
<1>3. FullType => TypeOK
  BY DEF FullType
<1> QED
  BY <1>1, <1>2, <1>3, PTL DEF Spec

(* What a manifest lists, and what the running deploy may remove, is apart   *)
(* from the user's own files; and a deploy keeps to its platform's paths.    *)
THEOREM DeploysStayApart == Spec => [](FullType /\ Inv)
<1>1. Init => FullType /\ Inv
  BY InitInv
<1>2. FullType /\ Inv /\ [Next]_vars => (FullType /\ Inv)'
  BY StepType, StepScoped, StepOwners, StepApart DEF FullType, Inv
<1> QED
  BY <1>1, <1>2, PTL DEF Spec

(***************************************************************************)
(* What a step may take away.                                              *)
(***************************************************************************)

(* A path that changes is purged or pruned within what the deploy may        *)
(* remove, or has a source that is being written there.                     *)
LEMMA HowAPathChanges ==
  ASSUME FullType, Inv, [Next]_vars, DeployStep,
         NEW p \in Paths, disk'[p] # disk[p]
  PROVE  \/ disk'[p] = [disk[p] EXCEPT !.mine = TRUE]
         \/ /\ Stage = "purge" /\ p \in run.prior
            /\ p \in Writes[run.platform] \ Protected(run.platform)
         \/ Kind[p] \in Pruned /\ p \in run.prior
         \/ disk'[p] = Written(p) /\ source[p] > 0 /\ Stage = Kind[p]
         \/ /\ run'.copying = p /\ Kind[p] \in Trees
            /\ source[p] > 0 /\ Stage = Kind[p]
<1> USE DEF Inv
<1>0. run \in RunsType /\ disk \in [Paths -> DiskType]
  BY DEF FullType, TypeOK, DiskType
<1>d. ASSUME NEW o \in Paths, NEW v, disk' = [disk EXCEPT ![o] = v]
      PROVE  p = o /\ disk'[p] = v
  BY <1>d, <1>0
<1>1. CASE Environment
  <2> PICK o \in Paths : \/ EditSource(o)
                         \/ RemoveSource(o)
                         \/ UserWrites(o)
                         \/ UserRemoves(o)
    BY <1>1 DEF Environment
  <2>1. ~UserRemoves(o)
    BY DEF UserRemoves, DeployStep
  <2>2. UserWrites(o)
    BY <2>1 DEF EditSource, RemoveSource
  <2> QED
    BY <2>2, <1>0 DEF UserWrites
<1>2. CASE DeployPath
  <2> PICK o \in Paths : \/ Purge(o)
                         \/ PurgeFails(o)
                         \/ WriteFile(o)
                         \/ Preserve(o)
                         \/ RemoveTree(o)
                         \/ CopyTree(o)
                         \/ Withhold(o)
                         \/ Prune(o)
                         \/ OverlookSkill(o)
    BY <1>2 DEF DeployPath
  <2>1. CASE Purge(o)
    <3>1. p = o
      BY <2>1, <1>d DEF Purge
    <3>2. ~Idle /\ run.at = 1
      BY <2>1, StageIs DEF Purge
    <3> QED
      BY <2>1, <3>1, <3>2 DEF Purge, RunIsScoped
  <2>2. CASE WriteFile(o)
    <3>1. p = o /\ disk'[p] = Written(p)
      BY <2>2, <1>d DEF WriteFile, Land
    <3>2. ~Idle /\ run.at \in 3..10 /\ Stage = Pipeline[run.at] /\ o \in run.todo
      BY <2>2, StageIs DEF WriteFile, Due
    <3>3. Kind[o] = Stage
      BY <3>2, HandledIs
    <3> QED
      BY <2>2, <3>1, <3>3 DEF WriteFile
  <2>3. CASE RemoveTree(o)
    <3>1. p = o
      BY <2>3, <1>d DEF RemoveTree
    <3>2. ~Idle /\ run.at \in 3..10 /\ Stage = Pipeline[run.at] /\ o \in run.todo
      BY <2>3, StageIs DEF RemoveTree, Due
    <3>3. Kind[o] = Stage
      BY <3>2, HandledIs
    <3>4. run'.copying = o
      BY <2>3, <1>0 DEF RemoveTree, RunsType
    <3> QED
      BY <2>3, <3>1, <3>3, <3>4 DEF RemoveTree
  <2>4. CASE CopyTree(o)
    <3>1. p = o /\ disk'[p] = Written(p)
      BY <2>4, <1>d DEF CopyTree, Land
    <3>2. ~Idle /\ run.at \in 3..10 /\ Stage = Pipeline[run.at]
      BY <2>4, StageIs DEF CopyTree, Trees, Kinds
    <3>3. o \in run.todo /\ source[o] > 0
      BY <2>4, <3>2 DEF CopyTree, RunIsScoped
    <3>4. Kind[o] = Stage
      BY <3>2, <3>3, HandledIs
    <3> QED
      BY <3>1, <3>3, <3>4
  <2>5. CASE Prune(o)
    <3>1. Removable(o) /\ p = o
      BY <2>5, <1>d DEF Prune
    <3> QED
      BY <3>1 DEF Removable
  <2>6. CASE PurgeFails(o) \/ Withhold(o) \/ Preserve(o) \/ OverlookSkill(o)
    BY <2>6 DEF PurgeFails, Withhold, Preserve, OverlookSkill
  <2> QED
    BY <2>1, <2>2, <2>3, <2>4, <2>5, <2>6
<1>3. CASE DegradationFails
  <2> DEFINE stale == {o \in Of(run.platform, run.at) : o \in run.prior}
  <2>1. disk' = [o \in Paths |-> IF o \in stale THEN Nothing ELSE disk[o]]
    BY <1>3 DEF DegradationFails
  <2>2. p \in stale
    BY <2>1
  <2>3. ~Idle /\ run.at \in 3..10 /\ Pipeline[run.at] = "fallback"
    BY <1>3, StageIs DEF DegradationFails, Kinds
  <2> QED
    BY <2>2, <2>3 DEF Of, Pruned
<1>4. CASE ~(Environment \/ DeployPath \/ DegradationFails)
  BY <1>4
  DEF Next, vars, Begin, Purged, SelfHeal, SkipStep, HooksFail, NextStep, SaveManifest,
      WriteState, Crash
<1> QED
  BY <1>1, <1>2, <1>3, <1>4

LEMMA StepKeepsUsers ==
  ASSUME FullType, Inv, [Next]_vars, DeployStep,
         NEW p \in Paths, disk[p].mine, ~disk'[p].mine
  PROVE  \/ p \notin authored /\ Kind[p] \notin Merged
         \/ source[p] > 0 /\ Kind[p] \notin Merged /\ Stage = Kind[p]
         \/ Kind[p] = "settings" /\ Stage = "purge"
         \/ p \in broken /\ Stage = "settings"
<1>1. p \in run.prior => p \notin authored \/ Kind[p] \in Merged
  BY DEF Inv, UserApart, Claimed
<1>2. disk[p] \in DiskType
  BY DEF FullType, TypeOK, DiskType
<1>3. disk'[p] # [disk[p] EXCEPT !.mine = TRUE]
  BY <1>2 DEF DiskType
<1>4. CASE Stage = "purge" /\ p \in run.prior
           /\ p \in Writes[run.platform] \ Protected(run.platform)
  BY <1>1, <1>4 DEF Protected, Merged
<1>5. CASE Kind[p] \in Pruned /\ p \in run.prior
  BY <1>1, <1>5 DEF Pruned, Merged
<1>6. CASE disk'[p] = Written(p) /\ source[p] > 0 /\ Stage = Kind[p]
  <2>1. Written(p).mine = (Kind[p] \in Merged /\ disk[p].mine /\ p \notin broken)
    BY DEF Written
  <2>2. Kind[p] \notin Merged \/ p \in broken
    BY <1>6, <2>1, Zenon
  <2>3. p \in broken => Kind[p] = "settings"
    BY DEF FullType, TypeOK
  <2> QED
    BY <1>6, <2>2, <2>3
<1>7. CASE Kind[p] \in Trees /\ source[p] > 0 /\ Stage = Kind[p]
  BY <1>7 DEF Trees, Merged
<1> QED
  BY <1>3, <1>4, <1>5, <1>6, <1>7, HowAPathChanges

LEMMA StepKeepsSiblings ==
  ASSUME FullType, Inv, [Next]_vars, DeployStep,
         NEW p \in OwnedByOthers(run.platform), There(p), disk'[p] = Nothing
  PROVE  run'.copying = p
<1>1. p \in Paths
  BY DEF FullType, TypeOK, OwnedByOthers
<1>2. disk[p] \in DiskType
  BY <1>1 DEF FullType, TypeOK, DiskType
<1>3. disk'[p] # disk[p] /\ disk'[p] # [disk[p] EXCEPT !.mine = TRUE]
  BY <1>2 DEF There, Nothing, DiskType
<1>4. p \notin run.prior
  <2>1. CASE Idle
    BY <2>1, NoRunIs DEF Idle
  <2>2. CASE ~Idle
    BY <2>2 DEF Inv, RunIsScoped
  <2> QED
    BY <2>1, <2>2
<1>5. ~(disk'[p] = Written(p) /\ source[p] > 0)
  BY <1>1 DEF Written, Nothing, FullType, TypeOK
<1> QED
  BY <1>1, <1>3, <1>4, <1>5, HowAPathChanges

(* What the user wrote stands: a deploy takes a file of the user's only to    *)
(* put a source there, and what was merged into only by purging settings or   *)
(* by writing settings that do not parse.                                   *)
THEOREM UserContentIsKept == Spec => UserContentStands
<1>1. FullType /\ Inv /\ [Next]_vars =>
        [\A p \in Paths :
           DeployStep /\ disk[p].mine /\ ~disk'[p].mine =>
             \/ p \notin authored /\ Kind[p] \notin Merged
             \/ source[p] > 0 /\ Kind[p] \notin Merged /\ Stage = Kind[p]
             \/ Kind[p] = "settings" /\ Stage = "purge"
             \/ p \in broken /\ Stage = "settings"]_vars
  BY StepKeepsUsers
<1> QED
  BY <1>1, DeploysStayApart, PTL DEF Spec, UserContentStands

(* A deploy takes nothing another platform's manifest lists, but for the      *)
(* moment in which a directory they share is copied anew.                   *)
THEOREM SiblingsAreKept == Spec => SiblingsStand
<1>1. FullType /\ Inv /\ [Next]_vars =>
        [\A p \in OwnedByOthers(run.platform) :
           DeployStep /\ There(p) /\ disk'[p] = Nothing => run'.copying = p]_vars
  BY StepKeepsSiblings
<1> QED
  BY <1>1, DeploysStayApart, PTL DEF Spec, SiblingsStand

(***************************************************************************)
(* What is left behind.                                                    *)
(***************************************************************************)

Deployed(q) == baseline[q] # NoBaseline

(* What a completed deploy leaves of the sources, and when it left it.       *)
Sources ==
  /\ \A p \in Paths : source[p] <= MaxVersion /\ (Kind[p] \in Merged => source[p] > 0)
  /\ \A q \in Platforms :
       /\ \A p \in Paths : baseline[q][p] <= MaxVersion \/ baseline[q] = NoBaseline
       /\ \A p \in manifest[q] : baseline[q][p] > 0 /\ Deployed(q)

(* What the running deploy has recorded, and what it has left to do.         *)
Records ==
  /\ run.withheld \subseteq MaintainerOnly
  /\ run.owned \subseteq run.done
  /\ \A p \in run.done : p \in Writes[run.platform]
  /\ \A p \in run.owned : source[p] > 0
  /\ run.at <= 11 => run.prior \subseteq manifest[run.platform]
  /\ run.at >= 11 => run.todo = {}
  /\ run.at = 12 => /\ manifest[run.platform] = run.owned
                    /\ baseline[run.platform] = source

(* What a deploy owns alone it may remove, or has done so already, or has a  *)
(* source for.                                                             *)
MayRemove ==
  \A p \in manifest[run.platform] \ OwnedByOthers(run.platform) :
    \/ p \in run.prior /\ (run.at = 1 => p \in run.todo)
    \/ ~Ours(p) \/ p \in loose \/ source[p] > 0

(* The running deploy is done with p.                                       *)
Handled(p) ==
  /\ run.at >= 3
  /\ p \in Writes[run.platform] \ run.todo
  /\ \E j \in 3..10 : j <= run.at /\ Kind[p] = Pipeline[j]

(* What it is done with is as a completed deploy leaves it.                  *)
InOrder ==
  \A p \in Paths \ (loose \cup MaintainerOnly) :
    Handled(p) =>
      IF source[p] > 0 THEN disk[p].version = source[p] /\ p \in run.owned
      ELSE Kind[p] \in Pruned /\ Ours(p) => p \in OwnedByOthers(run.platform)

(* A path holds what the platform that was last deployed to it had, unless   *)
(* the running deploy has begun with it.                                    *)
LastDeployed ==
  \A p \in Paths \ (loose \cup MaintainerOnly) :
    \/ ~Idle /\ p \in run.done
    \/ \A q \in Platforms : p \in Writes[q] => ~Deployed(q)
    \/ \E q \in Platforms :
         /\ p \in Writes[q] /\ Deployed(q)
         /\ baseline[q][p] > 0 => disk[p].version = baseline[q][p]

PathInv ==
  /\ Sources
  /\ ~Idle => Records /\ (run.at <= 11 => MayRemove) /\ InOrder
  /\ LastOwnerDeletes
  /\ LastDeployed

-----------------------------------------------------------------------------
(* The steps that handle a path, by what they leave of it.                  *)

SameAround ==
  /\ source' = source /\ manifest' = manifest /\ baseline' = baseline
  /\ run'.platform = run.platform /\ run'.withheld = run.withheld
  /\ run'.at = run.at /\ run'.prior = run.prior

OthersStay(p) == \A o \in Paths \ {p} : disk'[o].version = disk[o].version

TakenUp(p) ==
  /\ run.at = 1
  /\ run'.todo = run.todo \ {p} /\ run'.done = run.done \cup {p}
  /\ run'.owned = run.owned
  /\ \/ disk'[p].version = 0 /\ loose' = loose
     \/ disk'[p].version = disk[p].version /\ loose' = loose \cup {p}

Landed(p) ==
  /\ run.at \in 3..10 /\ source[p] > 0
  /\ run'.todo = run.todo \ {p} /\ run'.done = run.done \cup {p}
  /\ run'.owned = run.owned \cup {p}
  /\ disk'[p].version = source[p] /\ loose' = loose \ {p}

Cleared(p) ==
  /\ run.at \in 3..10 /\ source[p] > 0
  /\ run'.todo = run.todo /\ run'.done = run.done \cup {p}
  /\ run'.owned = run.owned
  /\ disk'[p].version = 0 /\ loose' = loose

PassedOver(p) ==
  /\ run.at \in 3..10
  /\ \/ /\ loose' = loose
        /\ p \in run.withheld \/ (source[p] = 0 /\ ~Removable(p))
     \/ loose' = loose \cup {p}
  /\ run'.todo = run.todo \ {p} /\ run'.done = run.done
  /\ run'.owned = run.owned
  /\ disk'[p].version = disk[p].version

Gone(p) ==
  /\ run.at \in 3..10 /\ source[p] = 0
  /\ run'.todo = run.todo \ {p} /\ run'.done = run.done \cup {p}
  /\ run'.owned = run.owned
  /\ disk'[p].version = 0 /\ loose' = loose

LEMMA PathStep ==
  ASSUME FullType, Inv, NEW p \in Paths,
         \/ Purge(p) \/ PurgeFails(p) \/ WriteFile(p) \/ RemoveTree(p)
         \/ CopyTree(p) \/ Withhold(p) \/ Prune(p)
         \/ Preserve(p) \/ OverlookSkill(p)
  PROVE  /\ RunIsScoped /\ ~Idle /\ ~Idle' /\ p \in run.todo /\ SameAround /\ OthersStay(p)
         /\ TakenUp(p) \/ Landed(p) \/ Cleared(p) \/ PassedOver(p) \/ Gone(p)
<1>0. run \in RunsType /\ disk \in [Paths -> DiskType] /\ Nothing.version = 0
  BY DEF FullType, TypeOK, DiskType, Nothing
<1>1. ~Idle /\ RunIsScoped
  BY StageIs DEF Inv, Purge, PurgeFails, WriteFile, RemoveTree, CopyTree, Withhold, Prune,
     Preserve, OverlookSkill, Due, Kinds, Trees
<1>p. ASSUME run'.platform = run.platform PROVE ~Idle'
  BY <1>1, <1>p, NoRunIs, DeployAssumption DEF Idle, RunIsScoped
<1>2. CASE Purge(p) \/ PurgeFails(p)
  <2>1. run.at = 1 /\ p \in run.todo /\ run' = Finished(p)
    BY <1>2, StageIs DEF Purge, PurgeFails, Inv
  <2>2. /\ SameAround
        /\ run'.todo = run.todo \ {p} /\ run'.done = run.done \cup {p}
        /\ run'.owned = run.owned
    BY <1>0, <1>2, <2>1 DEF Finished, RunsType, SameAround, Purge, PurgeFails
  <2>3. \/ disk' = [disk EXCEPT ![p] = Nothing] /\ loose' = loose
        \/ disk' = disk /\ loose' = loose \cup {p}
    BY <1>2 DEF Purge, PurgeFails
  <2>4. TakenUp(p) /\ OthersStay(p)
    BY <1>0, <2>1, <2>2, <2>3 DEF TakenUp, OthersStay
  <2> QED
    BY <1>1, <1>p, <2>1, <2>2, <2>4 DEF SameAround
<1>3. CASE WriteFile(p) \/ CopyTree(p)
  <2>1. run.at \in 3..10 /\ p \in run.todo /\ source[p] > 0 /\ Land(p)
    BY <1>1, <1>3, StageIs DEF WriteFile, CopyTree, Due, Inv, Trees, Kinds, RunIsScoped
  <2>2. /\ SameAround
        /\ run'.todo = run.todo \ {p} /\ run'.done = run.done \cup {p}
        /\ run'.owned = run.owned \cup {p}
    BY <1>0, <2>1 DEF Land, Record, Finished, RunsType, SameAround
  <2>3. Written(p).version = source[p]
    BY DEF Written
  <2>4. Landed(p) /\ OthersStay(p)
    BY <1>0, <2>1, <2>2, <2>3 DEF Land, Landed, OthersStay
  <2> QED
    BY <1>1, <1>p, <2>1, <2>2, <2>4 DEF SameAround
<1>4. CASE RemoveTree(p)
  <2>1. run.at \in 3..10 /\ p \in run.todo /\ source[p] > 0
    BY <1>4, StageIs DEF RemoveTree, Due, Inv
  <2>2. /\ SameAround
        /\ run'.todo = run.todo /\ run'.done = run.done \cup {p}
        /\ run'.owned = run.owned
    BY <1>0, <1>4 DEF RemoveTree, RunsType, SameAround
  <2>3. Cleared(p) /\ OthersStay(p)
    BY <1>0, <1>4, <2>1, <2>2 DEF RemoveTree, Cleared, OthersStay
  <2> QED
    BY <1>1, <1>p, <2>1, <2>2, <2>3 DEF SameAround
<1>5. CASE Withhold(p) \/ (Prune(p) /\ ~Removable(p))
  <2>1. /\ run.at \in 3..10 /\ p \in run.todo
        /\ p \in run.withheld \/ (source[p] = 0 /\ ~Removable(p))
        /\ run' = [run EXCEPT !.todo = @ \ {p}]
        /\ disk' = disk /\ loose' = loose
    BY <1>5, StageIs DEF Withhold, Prune, Due, Inv
  <2>2. /\ SameAround
        /\ run'.todo = run.todo \ {p} /\ run'.done = run.done
        /\ run'.owned = run.owned
    BY <1>0, <1>5, <2>1 DEF Withhold, Prune, RunsType, SameAround
  <2>3. PassedOver(p) /\ OthersStay(p)
    BY <2>1, <2>2 DEF PassedOver, OthersStay
  <2> QED
    BY <1>1, <1>p, <2>1, <2>2, <2>3 DEF SameAround
<1>6. CASE Prune(p) /\ Removable(p)
  <2>1. /\ run.at \in 3..10 /\ p \in run.todo /\ source[p] = 0
        /\ run' = Finished(p)
        /\ disk' = [disk EXCEPT ![p] = Nothing] /\ loose' = loose
    BY <1>6, StageIs DEF Prune, Due, Inv
  <2>2. /\ SameAround
        /\ run'.todo = run.todo \ {p} /\ run'.done = run.done \cup {p}
        /\ run'.owned = run.owned
    BY <1>0, <1>6, <2>1 DEF Prune, Finished, RunsType, SameAround
  <2>3. Gone(p) /\ OthersStay(p)
    BY <1>0, <2>1, <2>2 DEF Gone, OthersStay
  <2> QED
    BY <1>1, <1>p, <2>1, <2>2, <2>3 DEF SameAround
<1>7. CASE Preserve(p) \/ OverlookSkill(p)
  <2>1. /\ run.at \in 3..10 /\ p \in run.todo
        /\ \/ loose' = loose \cup {p}
           \/ loose' = loose /\ source[p] = 0 /\ ~Removable(p)
        /\ run' = [run EXCEPT !.todo = @ \ {p}]
        /\ disk' = disk
    BY <1>7, StageIs DEF Preserve, OverlookSkill, Due, Inv
  <2>2. /\ SameAround
        /\ run'.todo = run.todo \ {p} /\ run'.done = run.done
        /\ run'.owned = run.owned
    BY <1>0, <1>7, <2>1 DEF Preserve, OverlookSkill, RunsType, SameAround
  <2>3. PassedOver(p) /\ OthersStay(p)
    BY <2>1, <2>2 DEF PassedOver, OthersStay
  <2> QED
    BY <1>1, <1>p, <2>1, <2>2, <2>3 DEF SameAround
<1> QED
  BY <1>2, <1>3, <1>4, <1>5, <1>6, <1>7

(* The next step is one further on, and what lies between has nothing to do.  *)
LEMMA GoOnFields ==
  ASSUME FullType, ~Idle, RunIsScoped, GoOn
  PROVE  /\ run'.platform = run.platform /\ run'.withheld = run.withheld
         /\ run'.prior = run.prior /\ run'.owned = run.owned /\ run'.done = run.done
         /\ run'.at \in run.at + 1..12
         /\ run.at <= 10 => run'.at <= 11
         /\ run'.todo = Of(run.platform, run'.at)
         /\ \A j \in run.at + 1..run'.at - 1 : j \in 3..10 => Of(run.platform, j) = {}
         /\ ~Idle'
<1>1. PICK k \in 1..12 :
        /\ Upcoming(k) /\ run' = [run EXCEPT !.at = k, !.todo = Of(run.platform, k)]
  BY PipelineIs DEF GoOn
<1>2. /\ run'.platform = run.platform /\ run'.withheld = run.withheld
      /\ run'.prior = run.prior /\ run'.owned = run.owned /\ run'.done = run.done
      /\ run'.at = k /\ run'.todo = Of(run.platform, k)
  BY <1>1 DEF FullType, RunsType
<1>3. ~Idle'
  BY <1>2, NoRunIs, DeployAssumption DEF Idle, RunIsScoped
<1>4. run.at <= 10 => k <= 11
  <2>1. run.at <= 10 /\ k > 11 => 11 \in run.at + 1..k - 1 /\ Pipeline[11] \in Kinds
    BY <1>1 DEF Upcoming, RunIsScoped
  <2> QED
    BY <2>1, PipelineIs DEF Kinds
<1> QED
  BY <1>1, <1>2, <1>3, <1>4 DEF Upcoming, RunIsScoped

LEMMA NothingLeft ==
  ASSUME NEW q \in Platforms
  PROVE  Of(q, 11) = {}
BY PipelineIs DEF Of, Kinds

LEMMA BeginFields ==
  ASSUME FullType, NEW q \in Platforms, NEW rebuild \in BOOLEAN, NEW include \in BOOLEAN,
         Begin(q, rebuild, include)
  PROVE  /\ Idle /\ UNCHANGED <<source, disk, manifest, baseline, loose, upsets>>
         /\ run'.platform = q /\ run'.prior = Prior(q)
         /\ run'.owned = {} /\ run'.done = {}
         /\ run'.withheld \subseteq MaintainerOnly
         /\ \/ run'.at = 1 /\ run'.todo = Prior(q) \ Protected(q)
            \/ run'.at = 2 /\ run'.todo = {}
BY DEF Begin, StartOf

LEMMA PurgedFields ==
  ASSUME FullType, Inv, Purged
  PROVE  /\ RunIsScoped /\ ~Idle
         /\ UNCHANGED <<source, disk, manifest, baseline, loose, upsets>>
         /\ run.at = 1 /\ run.todo = {}
         /\ run'.platform = run.platform /\ run'.withheld = run.withheld
         /\ run'.prior = {} /\ run'.owned = run.owned /\ run'.done = run.done
         /\ run'.at = 2 /\ run'.todo = {}
<1>1. RunIsScoped /\ ~Idle /\ run.at = 1
  BY StageIs DEF Inv, Purged
<1> QED
  BY <1>1 DEF Purged, FullType, RunsType

LEMMA FailFields ==
  ASSUME FullType, Inv, HooksFail \/ DegradationFails
  PROVE  /\ RunIsScoped /\ ~Idle /\ SameAround /\ run.at \in 3..10
         /\ run'.todo = {} /\ run'.owned = run.owned /\ loose' = loose \cup run.todo
         /\ run.done \subseteq run'.done /\ run'.done \subseteq run.done \cup run.todo
         /\ \A p \in Paths : p \notin run.todo => disk'[p].version = disk[p].version
<1>1. RunIsScoped /\ ~Idle /\ run.at \in 3..10
  BY StageIs DEF Inv, HooksFail, DegradationFails, Kinds
<1>2. CASE HooksFail
  BY <1>1, <1>2 DEF HooksFail, FullType, RunsType, SameAround
<1>3. CASE DegradationFails
  <2> DEFINE stale == {p \in Of(run.platform, run.at) : p \in run.prior}
  <2>1. /\ run.todo = Of(run.platform, run.at)
        /\ disk' = [p \in Paths |-> IF p \in stale THEN Nothing ELSE disk[p]]
        /\ run' = [run EXCEPT !.todo = {}, !.done = @ \cup stale]
        /\ loose' = loose \cup run.todo
        /\ UNCHANGED <<source, manifest, baseline>>
    BY <1>3 DEF DegradationFails
  <2>2. stale \subseteq run.todo
    BY <2>1
  <2> HIDE DEF stale
  <2> QED
    BY <1>1, <2>1, <2>2 DEF FullType, RunsType, SameAround
<1> QED
  BY <1>2, <1>3

LEMMA SkipFields ==
  ASSUME FullType, Inv, SkipStep
  PROVE  /\ RunIsScoped /\ ~Idle /\ SameAround /\ run.at \in 3..10
         /\ run'.todo = {} /\ run'.owned = run.owned /\ run'.done = run.done
         /\ disk' = disk /\ loose' = loose \cup {p \in run.todo : Removable(p)}
         /\ \A p \in run.todo : source[p] = 0
<1>1. /\ RunIsScoped /\ ~Idle /\ run.at \in 3..10 /\ Stage = Pipeline[run.at]
  BY StageIs DEF Inv, SkipStep, FromDirectory, Kinds
<1>2. \A p \in run.todo : p \in Paths /\ Kind[p] = Stage
  BY <1>1, HandledIs DEF FullType, RunsType
<1> QED
  BY <1>1, <1>2 DEF SkipStep, FullType, RunsType, SameAround

LEMMA SaveFields ==
  ASSUME FullType, Inv, SaveManifest
  PROVE  /\ RunIsScoped /\ ~Idle /\ run.at = 11
         /\ UNCHANGED <<source, disk, loose, upsets>>
         /\ run'.platform = run.platform /\ run'.withheld = run.withheld
         /\ run'.prior = run.prior /\ run'.owned = run.owned /\ run'.done = run.done
         /\ run'.at = 12 /\ run'.todo = run.todo
         /\ manifest'[run.platform] = run.owned /\ baseline'[run.platform] = source
         /\ \A o \in Platforms \ {run.platform} :
              manifest'[o] = manifest[o] /\ baseline'[o] = baseline[o]
<1>1. RunIsScoped /\ ~Idle /\ run.at = 11
  BY StageIs DEF Inv, SaveManifest
<1>2. /\ run'.platform = run.platform /\ run'.withheld = run.withheld
      /\ run'.prior = run.prior /\ run'.owned = run.owned /\ run'.done = run.done
      /\ run'.at = 12 /\ run'.todo = run.todo
  BY <1>1 DEF SaveManifest, FullType, RunsType
<1>3. /\ manifest' = [manifest EXCEPT ![run.platform] = run.owned]
      /\ baseline' = [baseline EXCEPT ![run.platform] = source]
      /\ UNCHANGED <<source, disk, loose, upsets>>
  BY DEF SaveManifest
<1> QED
  BY <1>1, <1>2, <1>3 DEF FullType, TypeOK, RunIsScoped

LEMMA InitPaths == Init => PathInv
<1> SUFFICES ASSUME Init PROVE PathInv
  OBVIOUS
<1>1. Idle /\ loose = {} /\ run = NoRun
  BY DEF Init, Idle
<1>2. \A p \in Paths : source[p] = 1 /\ disk[p].version = 0
  BY DEF Init, Nothing
<1>3. \A q \in Platforms : baseline[q] = NoBaseline /\ manifest[q] = {}
  BY DEF Init
<1>4. Sources
  BY <1>2, <1>3 DEF Sources, Init
<1>5. LastOwnerDeletes
  BY <1>2 DEF LastOwnerDeletes, Ours
<1>6. LastDeployed
  BY <1>3 DEF LastDeployed, Deployed
<1> QED
  BY <1>1, <1>4, <1>5, <1>6 DEF PathInv

(* Only a save changes a baseline, and sources are what they were or newer.    *)
LEMMA StepSources ==
  ASSUME FullType, Inv, PathInv, [Next]_vars
  PROVE  Sources'
<1>0. /\ source \in [Paths -> Nat] /\ upsets \in 0..MaxUpsets
      /\ baseline \in [Platforms -> [Paths -> Nat]]
      /\ manifest \in [Platforms -> SUBSET Paths]
      /\ Sources
  BY DEF FullType, TypeOK, PathInv
<1>u. upsets' = upsets \/ upsets' = upsets + 1
  BY DEF Next, vars, Environment, EditSource, RemoveSource, UserWrites,
     UserRemoves, Begin, DeployPath, Purge, PurgeFails, WriteFile, RemoveTree,
     CopyTree, Land, Withhold, Prune, Preserve, OverlookSkill, Purged,
        SelfHeal, SkipStep, HooksFail,
     DegradationFails, NextStep, SaveManifest, WriteState, Crash
<1>s. ASSUME manifest' = manifest, baseline' = baseline,
             \A p \in Paths : /\ source'[p] <= MaxVersion
                              /\ Kind[p] \in Merged => source'[p] > 0
      PROVE  Sources'
  <2>1. \A q \in Platforms : \A p \in Paths :
          baseline[q][p] <= MaxVersion \/ baseline[q] = NoBaseline
    BY <1>0, <1>u DEF Sources
  <2> QED
    BY <1>0, <1>s, <2>1 DEF Sources, Deployed
<1>1. CASE \E p \in Paths : EditSource(p)
  <2> PICK p \in Paths, v \in 1..MaxVersion :
        /\ source' = [source EXCEPT ![p] = v]
        /\ manifest' = manifest /\ baseline' = baseline
    BY <1>1 DEF EditSource
  <2>1. \A o \in Paths : source'[o] = source[o] \/ source'[o] = v
    BY <1>0
  <2>2. v <= MaxVersion /\ v > 0
    BY <1>0
  <2> QED
    BY <1>0, <1>s, <2>1, <2>2 DEF Sources
<1>2. CASE \E p \in Paths : RemoveSource(p)
  <2> PICK p \in Paths : RemoveSource(p)
    BY <1>2
  <2>1. /\ manifest' = manifest /\ baseline' = baseline /\ upsets' = upsets + 1
        /\ source'[p] = 0 /\ Kind[p] \notin Merged
        /\ \A o \in Paths \ {p} : source'[o] = source[o]
    BY <1>0 DEF RemoveSource
  <2> QED
    BY <1>0, <1>s, <2>1 DEF Sources
<1>3. CASE SelfHeal
  <2>1. /\ manifest' = manifest /\ baseline' = baseline
        /\ \A p \in Paths : source'[p] = source[p] \/ source'[p] = 1
    BY <1>3 DEF SelfHeal
  <2> QED
    BY <1>0, <1>s, <1>u, <2>1 DEF Sources
<1>4. CASE SaveManifest
  <2> DEFINE q == run.platform
  <2>1. /\ q \in Platforms /\ run.at = 11 /\ Records
        /\ manifest' = [manifest EXCEPT ![q] = run.owned]
        /\ baseline' = [baseline EXCEPT ![q] = source]
        /\ source' = source /\ upsets' = upsets
    BY <1>4, StageIs DEF SaveManifest, Inv, RunIsScoped, PathInv
  <2>2. run.owned \subseteq Paths
    BY DEF FullType, RunsType
  <2>3. \A p \in Paths : source # NoBaseline
    BY <1>0 DEF Sources, NoBaseline
  <2> HIDE DEF q
  <2>4. \A o \in Platforms \ {q} : manifest'[o] = manifest[o] /\ baseline'[o] = baseline[o]
    BY <1>0, <2>1
  <2>5. manifest'[q] = run.owned /\ baseline'[q] = source
    BY <1>0, <2>1
  <2>6. \A p \in run.owned : source[p] > 0 /\ source # NoBaseline
    BY <2>1, <2>2, <2>3 DEF Records
  <2>7. \A o \in Platforms : \A p \in Paths :
          baseline'[o][p] <= MaxVersion \/ baseline'[o] = NoBaseline
    BY <1>0, <2>4, <2>5 DEF Sources
  <2>8. \A o \in Platforms : \A p \in manifest'[o] :
          baseline'[o][p] > 0 /\ baseline'[o] # NoBaseline
    BY <1>0, <2>4, <2>5, <2>6 DEF Sources, Deployed
  <2> QED
    BY <1>0, <2>1, <2>7, <2>8 DEF Sources, Deployed
<1>5. CASE ~((\E p \in Paths : EditSource(p) \/ RemoveSource(p)) \/ SelfHeal \/ SaveManifest)
  <2>1. source' = source /\ manifest' = manifest /\ baseline' = baseline
    BY <1>5
    DEF Next, vars, Environment, UserWrites,
        UserRemoves, Begin, DeployPath, Purge, PurgeFails, WriteFile, RemoveTree,
        CopyTree, Land, Withhold, Prune, Preserve, OverlookSkill, Purged,
        SkipStep, HooksFail,
        DegradationFails, NextStep, WriteState, Crash
  <2> QED
    BY <1>0, <1>s, <1>u, <2>1 DEF Sources
<1> QED
  BY <1>1, <1>2, <1>3, <1>4, <1>5

(* What a deploy records it has written, and it keeps to its own paths.      *)
LEMMA StepRecords ==
  ASSUME FullType, Inv, PathInv, [Next]_vars, ~Idle'
  PROVE  Records'
<1>0. ~Idle => Records /\ RunIsScoped
  BY DEF Inv, PathInv
<1>1. CASE Environment \/ UNCHANGED vars
  <2>1. run' = run
    BY <1>1 DEF Environment, EditSource, RemoveSource, UserWrites, UserRemoves, vars
  <2>2. ~Idle
    BY <2>1 DEF Idle
  <2>3. UNCHANGED <<source, manifest, baseline>>
    BY <1>1, <2>2 DEF Environment, EditSource, RemoveSource, UserWrites, UserRemoves, vars
  <2> QED
    BY <1>0, <2>1, <2>2, <2>3 DEF Records
<1>2. ASSUME NEW q \in Platforms, NEW rebuild \in BOOLEAN, NEW include \in BOOLEAN,
             Begin(q, rebuild, include)
      PROVE  Records'
  <2>1. Prior(q) \subseteq manifest[q]
    BY DEF Prior
  <2> QED
    BY <1>2, <2>1, BeginFields DEF Records
<1>3. CASE DeployPath
  <2> PICK p \in Paths : \/ Purge(p) \/ PurgeFails(p) \/ WriteFile(p) \/ RemoveTree(p)
                         \/ CopyTree(p) \/ Withhold(p) \/ Prune(p)
                         \/ Preserve(p) \/ OverlookSkill(p)
    BY <1>3 DEF DeployPath
  <2>1. /\ RunIsScoped /\ ~Idle /\ p \in run.todo /\ SameAround /\ Records
        /\ TakenUp(p) \/ Landed(p) \/ Cleared(p) \/ PassedOver(p) \/ Gone(p)
    BY <1>0, PathStep
  <2>2. p \in Writes[run.platform]
    BY <2>1, HandledIs DEF RunIsScoped, TakenUp, Landed, Cleared, PassedOver, Gone
  <2>3. run.at \in 1..10
    BY <2>1 DEF TakenUp, Landed, Cleared, PassedOver, Gone
  <2>4. /\ run'.owned = run.owned \/ (run'.owned = run.owned \cup {p} /\ source[p] > 0
                                       /\ p \in run'.done)
        /\ run'.done = run.done \/ run'.done = run.done \cup {p}
    BY <2>1 DEF TakenUp, Landed, Cleared, PassedOver, Gone
  <2> QED
    BY <2>1, <2>2, <2>3, <2>4 DEF Records, SameAround
<1>4. CASE Purged
  BY <1>0, <1>4, PurgedFields DEF Records
<1>5. CASE SelfHeal
  <2>1. /\ ~Idle /\ RunIsScoped /\ Records /\ run.at = 2 /\ GoOn
        /\ UNCHANGED <<manifest, baseline>>
        /\ \A p \in Paths : source'[p] = source[p] \/ source'[p] = 1
    BY <1>0, <1>5, StageIs DEF SelfHeal
  <2>2. \A p \in run.owned : source'[p] > 0
    BY <2>1 DEF Records, FullType, RunsType
  <2>3. run.platform \in Platforms
    BY <2>1 DEF RunIsScoped
  <2> QED
    BY <2>1, <2>2, <2>3, GoOnFields, NothingLeft DEF Records
<1>6. CASE HooksFail \/ DegradationFails
  <2>1. /\ RunIsScoped /\ Records /\ SameAround /\ run.at \in 3..10
        /\ run'.todo = {} /\ run'.owned = run.owned
        /\ run.done \subseteq run'.done /\ run'.done \subseteq run.done \cup run.todo
    BY <1>0, <1>6, FailFields
  <2>2. run.todo \subseteq Writes[run.platform]
    BY <2>1, HandledIs
  <2> QED
    BY <2>1, <2>2 DEF Records, SameAround
<1>10. CASE SkipStep
  BY <1>0, <1>10, SkipFields DEF Records, SameAround
<1>7. CASE NextStep
  <2>1. /\ ~Idle /\ RunIsScoped /\ Records /\ run.at \in 3..10 /\ GoOn
        /\ UNCHANGED <<source, manifest, baseline>>
    BY <1>0, <1>7, StageIs DEF NextStep
  <2>2. run.platform \in Platforms
    BY <2>1 DEF RunIsScoped
  <2> QED
    BY <2>1, <2>2, GoOnFields, NothingLeft DEF Records
<1>8. CASE SaveManifest
  BY <1>0, <1>8, SaveFields DEF Records
<1>9. CASE WriteState \/ Crash
  BY <1>9 DEF WriteState, Crash, Idle
<1> QED
  BY <1>1, <1>2, <1>3, <1>4, <1>5, <1>6, <1>7, <1>8, <1>9, <1>10 DEF Next

(* What it owns alone and has no source for it may still remove.             *)
LEMMA StepMayRemove ==
  ASSUME FullType, Inv, PathInv, [Next]_vars, ~Idle', run'.at <= 11
  PROVE  MayRemove'
<1>0. /\ ~Idle => Records /\ RunIsScoped /\ (run.at <= 11 => MayRemove)
      /\ source \in [Paths -> Nat] /\ disk \in [Paths -> DiskType]
      /\ manifest \in [Platforms -> SUBSET Paths]
      /\ \A p \in Paths : Kind[p] \in Merged => source[p] > 0
  BY DEF Inv, PathInv, FullType, TypeOK, Sources, DiskType
<1>1. CASE Environment \/ UNCHANGED vars
  <2>1. run' = run
    BY <1>1 DEF Environment, EditSource, RemoveSource, UserWrites, UserRemoves, vars
  <2>2. ~Idle
    BY <2>1 DEF Idle
  <2>3. UNCHANGED <<source, manifest, loose>>
    BY <1>1, <2>2 DEF Environment, EditSource, RemoveSource, UserWrites, UserRemoves, vars
  <2>4. \A p \in Paths : disk'[p].version = disk[p].version
    BY <1>0, <1>1, <2>2
    DEF Environment, EditSource, RemoveSource, UserWrites, UserRemoves, vars, DiskType
  <2>5. run.platform \in Platforms /\ MayRemove
    BY <1>0, <2>1, <2>2 DEF RunIsScoped
  <2> QED
    BY <1>0, <2>1, <2>3, <2>4, <2>5 DEF MayRemove, OwnedByOthers, Ours
<1>2. ASSUME NEW q \in Platforms, NEW rebuild \in BOOLEAN, NEW include \in BOOLEAN,
             Begin(q, rebuild, include)
      PROVE  MayRemove'
  <2>1. Prior(q) = manifest[q] \ OwnedByOthers(q)
    BY DEF Prior
  <2>2. /\ run'.platform = q /\ run'.prior = Prior(q)
        /\ UNCHANGED <<source, disk, manifest, baseline, loose, upsets>>
        /\ run'.at = 1 => run'.todo = Prior(q) \ Protected(q)
    BY <1>2, BeginFields
  <2>3. \A p \in Paths : p \in Protected(q) => source[p] > 0
    BY <1>0 DEF Protected, Merged
  <2>4. OwnedByOthers(q)' = OwnedByOthers(q)
    BY <2>2 DEF OwnedByOthers
  <2>5. manifest[q] \subseteq Paths
    BY <1>0
  <2> QED
    BY <2>1, <2>2, <2>3, <2>4, <2>5 DEF MayRemove, OwnedByOthers
<1>3. CASE DeployPath
  <2> PICK p \in Paths : \/ Purge(p) \/ PurgeFails(p) \/ WriteFile(p) \/ RemoveTree(p)
                         \/ CopyTree(p) \/ Withhold(p) \/ Prune(p)
                         \/ Preserve(p) \/ OverlookSkill(p)
    BY <1>3 DEF DeployPath
  <2>1. /\ RunIsScoped /\ ~Idle /\ p \in run.todo /\ SameAround /\ OthersStay(p)
        /\ TakenUp(p) \/ Landed(p) \/ Cleared(p) \/ PassedOver(p) \/ Gone(p)
    BY PathStep
  <2>2. MayRemove /\ run.platform \in Platforms /\ manifest[run.platform] \subseteq Paths
    BY <1>0, <2>1 DEF SameAround, RunIsScoped
  <2>4. ASSUME NEW o \in manifest[run.platform] \ OwnedByOthers(run.platform), o # p
        PROVE  \/ o \in run'.prior /\ (run'.at = 1 => o \in run'.todo)
               \/ ~(disk'[o].version > 0) \/ o \in loose' \/ source'[o] > 0
    <3>1. \/ o \in run.prior /\ (run.at = 1 => o \in run.todo)
          \/ ~(disk[o].version > 0) \/ o \in loose \/ source[o] > 0
      BY <2>2 DEF MayRemove, Ours
    <3>2. disk'[o].version = disk[o].version /\ source'[o] = source[o]
      BY <2>1, <2>2, <2>4 DEF OthersStay, SameAround
    <3>3. o \in loose => o \in loose'
      BY <2>1, <2>4 DEF TakenUp, Landed, Cleared, PassedOver, Gone
    <3>4. o \in run.todo => o \in run'.todo
      BY <2>1, <2>4 DEF TakenUp, Landed, Cleared, PassedOver, Gone
    <3> QED
      BY <2>1, <3>1, <3>2, <3>3, <3>4 DEF SameAround
  <2>5. ASSUME p \in manifest[run.platform] \ OwnedByOthers(run.platform)
        PROVE  \/ p \in run'.prior /\ (run'.at = 1 => p \in run'.todo)
               \/ ~(disk'[p].version > 0) \/ p \in loose' \/ source'[p] > 0
    <3>1. \/ p \in run.prior /\ (run.at = 1 => p \in run.todo)
          \/ ~(disk[p].version > 0) \/ p \in loose \/ source[p] > 0
      BY <2>2, <2>5 DEF MayRemove, Ours
    <3> QED
      BY <2>1, <3>1 DEF SameAround, TakenUp, Landed, Cleared, PassedOver, Gone
  <2>6. /\ manifest'[run'.platform] = manifest[run.platform]
        /\ OwnedByOthers(run.platform)' = OwnedByOthers(run.platform)
    BY <2>1 DEF SameAround, OwnedByOthers
  <2> QED
    BY <2>4, <2>5, <2>6 DEF MayRemove, Ours, OwnedByOthers
<1>4. CASE Purged
  <2>1. /\ RunIsScoped /\ ~Idle
        /\ UNCHANGED <<source, disk, manifest, baseline, loose, upsets>>
        /\ run.at = 1 /\ run.todo = {} /\ run'.platform = run.platform
    BY <1>4, PurgedFields
  <2>2. MayRemove
    BY <1>0, <2>1
  <2>3. OwnedByOthers(run.platform)' = OwnedByOthers(run.platform)
    BY <2>1 DEF OwnedByOthers
  <2> QED
    BY <2>1, <2>2, <2>3 DEF MayRemove, Ours, OwnedByOthers
<1>5. ASSUME RunIsScoped, ~Idle, run.at \in 2..10,
             run'.at \in 2..11, run'.platform = run.platform, run'.prior = run.prior,
             manifest' = manifest, loose \subseteq loose',
             \A p \in Paths : source'[p] = source[p] \/ source'[p] = 1,
             \A p \in Paths : p \in loose' \/ disk'[p].version = disk[p].version
      PROVE  MayRemove'
  <2>1. MayRemove /\ manifest[run.platform] \subseteq Paths
    BY <1>0, <1>5 DEF RunIsScoped
  <2>2. OwnedByOthers(run.platform)' = OwnedByOthers(run.platform)
    BY <1>5 DEF OwnedByOthers
  <2>3. ASSUME NEW p \in manifest[run.platform] \ OwnedByOthers(run.platform)
        PROVE  p \in run'.prior \/ ~(disk'[p].version > 0) \/ p \in loose' \/ source'[p] > 0
    <3>1. p \in run.prior \/ ~(disk[p].version > 0) \/ p \in loose \/ source[p] > 0
      BY <2>1 DEF MayRemove, Ours
    <3> QED
      BY <1>5, <2>1, <3>1
  <2> QED
    BY <1>5, <2>2, <2>3 DEF MayRemove, Ours, OwnedByOthers
<1>6. CASE SelfHeal
  <2>1. /\ ~Idle /\ RunIsScoped /\ run.at = 2 /\ GoOn
        /\ UNCHANGED <<manifest, baseline, disk, loose>>
        /\ \A p \in Paths : source'[p] = source[p] \/ source'[p] = 1
    BY <1>0, <1>6, StageIs DEF SelfHeal
  <2> QED
    BY <1>5, <2>1, GoOnFields
<1>7. CASE HooksFail \/ DegradationFails
  <2>1. /\ RunIsScoped /\ ~Idle /\ SameAround /\ run.at \in 3..10
        /\ loose' = loose \cup run.todo
        /\ \A p \in Paths : p \notin run.todo => disk'[p].version = disk[p].version
    BY <1>7, FailFields
  <2> QED
    BY <1>5, <2>1 DEF SameAround
<1>11. CASE SkipStep
  BY <1>5, <1>11, SkipFields DEF SameAround
<1>8. CASE NextStep
  <2>1. /\ ~Idle /\ RunIsScoped /\ run.at \in 3..10 /\ GoOn
        /\ UNCHANGED <<source, manifest, baseline, disk, loose>>
    BY <1>0, <1>8, StageIs DEF NextStep
  <2> QED
    BY <1>5, <2>1, GoOnFields
<1>9. CASE SaveManifest
  BY <1>9, SaveFields
<1>10. CASE WriteState \/ Crash
  BY <1>10 DEF WriteState, Crash, Idle
<1> QED
  BY <1>1, <1>2, <1>3, <1>4, <1>6, <1>7, <1>8, <1>9, <1>10, <1>11 DEF Next

(* When all steps are over, all paths are dealt with.                       *)
LEMMA AllHandled ==
  ASSUME FullType, RunIsScoped, Records, run.at \in 11..12,
         NEW p \in Paths, p \in Writes[run.platform]
  PROVE  Handled(p)
<1>1. \E j \in 3..10 : Kind[p] = Pipeline[j]
  BY DeployAssumption DEF Kinds, Pipeline
<1> QED
  BY <1>1 DEF Handled, Records

(* What no source has any more and is not removed belongs to others.         *)
LEMMA LeftToOthers ==
  ASSUME FullType, Inv, PathInv, ~Idle, run.at \in 3..10,
         NEW p \in Paths \ (loose \cup MaintainerOnly),
         source[p] = 0, ~Removable(p), Kind[p] \in Pruned, Ours(p)
  PROVE  p \in OwnedByOthers(run.platform)
<1>1. Records /\ MayRemove /\ LastOwnerDeletes
  BY DEF PathInv
<1>2. p \notin run.prior
  BY DEF Removable
<1>3. p \notin run.owned
  BY <1>1 DEF Records
<1>4. p \in UNION {manifest[q] : q \in Platforms}
  BY <1>1, <1>2, <1>3 DEF LastOwnerDeletes, Claimed
<1>5. CASE p \in manifest[run.platform]
  BY <1>1, <1>2, <1>5 DEF MayRemove
<1>6. CASE p \notin manifest[run.platform]
  BY <1>4, <1>6 DEF OwnedByOthers
<1> QED
  BY <1>5, <1>6

LEMMA StepInOrder ==
  ASSUME FullType, Inv, PathInv, [Next]_vars, ~Idle'
  PROVE  InOrder'
<1>0. /\ ~Idle => Records /\ RunIsScoped /\ InOrder
      /\ disk \in [Paths -> DiskType]
  BY DEF Inv, PathInv, FullType, TypeOK, DiskType
\* What is dealt with stays as it is.
<1>s. ASSUME ~Idle, run'.platform = run.platform, source' = source,
             UNION {manifest'[q] : q \in Platforms \ {run.platform}}
               = UNION {manifest[q] : q \in Platforms \ {run.platform}},
             run.owned \subseteq run'.owned,
             \A p \in Paths \ (loose' \cup MaintainerOnly) : Handled(p)' =>
               \/ p \notin loose /\ Handled(p) /\ disk'[p].version = disk[p].version
               \/ IF source[p] > 0 THEN disk'[p].version = source[p] /\ p \in run'.owned
                  ELSE Kind[p] \in Pruned /\ disk'[p].version > 0 =>
                         p \in OwnedByOthers(run.platform)
      PROVE  InOrder'
  <2>1. OwnedByOthers(run.platform)' = OwnedByOthers(run.platform)
    BY <1>s DEF OwnedByOthers
  <2>2. ASSUME NEW p \in Paths \ (loose' \cup MaintainerOnly), Handled(p)'
        PROVE  IF source[p] > 0 THEN disk'[p].version = source[p] /\ p \in run'.owned
               ELSE Kind[p] \in Pruned /\ disk'[p].version > 0 =>
                      p \in OwnedByOthers(run.platform)
    <3>1. CASE p \notin loose /\ Handled(p) /\ disk'[p].version = disk[p].version
      <4>1. IF source[p] > 0 THEN disk[p].version = source[p] /\ p \in run.owned
            ELSE Kind[p] \in Pruned /\ disk[p].version > 0 =>
                   p \in OwnedByOthers(run.platform)
        BY <1>0, <1>s, <3>1 DEF InOrder, Ours
      <4> QED
        BY <1>s, <3>1, <4>1
    <3> QED
      BY <1>s, <2>2, <3>1
  <2> QED
    BY <1>s, <2>1, <2>2 DEF InOrder, Ours
<1>1. CASE Environment \/ UNCHANGED vars
  <2>1. run' = run
    BY <1>1 DEF Environment, EditSource, RemoveSource, UserWrites, UserRemoves, vars
  <2>2. ~Idle
    BY <2>1 DEF Idle
  <2>3. UNCHANGED <<source, manifest, loose>>
    BY <1>1, <2>2 DEF Environment, EditSource, RemoveSource, UserWrites, UserRemoves, vars
  <2>4. \A p \in Paths : disk'[p].version = disk[p].version
    BY <1>0, <1>1, <2>2
    DEF Environment, EditSource, RemoveSource, UserWrites, UserRemoves, vars, DiskType
  <2> QED
    BY <1>s, <2>1, <2>2, <2>3, <2>4 DEF Handled
<1>2. ASSUME NEW q \in Platforms, NEW rebuild \in BOOLEAN, NEW include \in BOOLEAN,
             Begin(q, rebuild, include)
      PROVE  InOrder'
  BY <1>2, BeginFields DEF InOrder, Handled
<1>3. CASE DeployPath
  <2> PICK p \in Paths : \/ Purge(p) \/ PurgeFails(p) \/ WriteFile(p) \/ RemoveTree(p)
                         \/ CopyTree(p) \/ Withhold(p) \/ Prune(p)
                         \/ Preserve(p) \/ OverlookSkill(p)
    BY <1>3 DEF DeployPath
  <2>1. /\ RunIsScoped /\ ~Idle /\ p \in run.todo /\ SameAround /\ OthersStay(p)
        /\ TakenUp(p) \/ Landed(p) \/ Cleared(p) \/ PassedOver(p) \/ Gone(p)
    BY PathStep
  <2>2. CASE TakenUp(p)
    BY <2>1, <2>2 DEF TakenUp, SameAround, InOrder, Handled
  <2>3. CASE ~TakenUp(p)
    <3>0. Records /\ run.at \in 3..10
      BY <1>0, <2>1, <2>3 DEF Landed, Cleared, PassedOver, Gone
    <3>1. run.owned \subseteq run'.owned
      BY <2>1, <2>3 DEF Landed, Cleared, PassedOver, Gone
    <3>2. ASSUME NEW o \in Paths \ (loose' \cup MaintainerOnly), o # p, Handled(o)'
          PROVE  o \notin loose /\ Handled(o) /\ disk'[o].version = disk[o].version
      <4>1. o \notin loose
        BY <2>1, <2>3, <3>2 DEF Landed, Cleared, PassedOver, Gone
      <4>2. o \notin run'.todo => o \notin run.todo
        BY <2>1, <2>3, <3>2 DEF Landed, Cleared, PassedOver, Gone
      <4> QED
        BY <2>1, <3>2, <4>1, <4>2 DEF OthersStay, SameAround, Handled
    <3>3. ASSUME p \notin loose' \cup MaintainerOnly, Handled(p)'
          PROVE  IF source[p] > 0 THEN disk'[p].version = source[p] /\ p \in run'.owned
                 ELSE Kind[p] \in Pruned /\ disk'[p].version > 0 =>
                        p \in OwnedByOthers(run.platform)
      <4>1. CASE Landed(p)
        BY <4>1 DEF Landed
      <4>2. CASE Cleared(p)
        BY <2>1, <3>3, <4>2 DEF Cleared, Handled
      <4>3. CASE PassedOver(p)
        <5>1. p \notin run.withheld
          BY <3>0, <3>3 DEF Records
        <5>2. /\ source[p] = 0 /\ ~Removable(p) /\ p \notin loose
              /\ disk'[p].version = disk[p].version
          BY <3>3, <4>3, <5>1 DEF PassedOver
        <5>3. Kind[p] \in Pruned /\ disk[p].version > 0 =>
                p \in OwnedByOthers(run.platform)
          BY <2>1, <3>0, <3>3, <5>2, LeftToOthers DEF Ours
        <5> QED
          BY <5>2, <5>3
      <4>4. CASE Gone(p)
        BY <4>4 DEF Gone
      <4> QED
        BY <2>1, <2>3, <4>1, <4>2, <4>3, <4>4
    <3> QED
      BY <1>s, <2>1, <3>1, <3>2, <3>3 DEF SameAround
  <2> QED
    BY <2>2, <2>3
<1>4. CASE Purged
  BY <1>4, PurgedFields DEF InOrder, Handled
\* The next step starts with everything to do, and the last one left nothing.
<1>5. ASSUME ~Idle, RunIsScoped, GoOn, run.at \in 2..10, run.at \in 3..10 => run.todo = {},
             UNCHANGED <<manifest, disk, loose>>,
             run.at \in 3..10 => source' = source
      PROVE  InOrder'
  <2>1. /\ run'.platform = run.platform /\ run'.owned = run.owned
        /\ run'.at \in run.at + 1..12
        /\ run'.todo = Of(run.platform, run'.at)
        /\ \A j \in run.at + 1..run'.at - 1 : j \in 3..10 => Of(run.platform, j) = {}
    BY <1>5, GoOnFields
  <2>2. ASSUME NEW p \in Paths, Handled(p)'
        PROVE  run.at \in 3..10 /\ Handled(p)
    <3>1. p \in Writes[run.platform] /\ p \notin run'.todo
      BY <2>1, <2>2 DEF Handled
    <3>2. PICK j \in 3..10 : j <= run'.at /\ Kind[p] = Pipeline[j]
      BY <2>2 DEF Handled
    <3>3. p \in Of(run.platform, j)
      BY <3>1, <3>2 DEF Of
    <3>4. j # run'.at
      BY <2>1, <3>1, <3>3
    <3>5. ~(j \in run.at + 1..run'.at - 1)
      BY <2>1, <3>3
    <3>6. j <= run.at
      BY <1>5, <2>1, <3>2, <3>4, <3>5
    <3> QED
      BY <1>5, <3>1, <3>2, <3>6 DEF Handled
  <2>3. CASE run.at \in 3..10
    BY <1>5, <1>s, <2>1, <2>2, <2>3
  <2>4. CASE run.at \notin 3..10
    BY <2>2, <2>4 DEF InOrder
  <2> QED
    BY <2>3, <2>4
<1>6. CASE SelfHeal
  <2>1. /\ ~Idle /\ RunIsScoped /\ run.at = 2 /\ GoOn
        /\ UNCHANGED <<manifest, disk, loose>>
    BY <1>0, <1>6, StageIs DEF SelfHeal
  <2> QED
    BY <1>5, <2>1
<1>7. CASE HooksFail \/ DegradationFails
  <2>1. /\ RunIsScoped /\ ~Idle /\ SameAround /\ run.at \in 3..10
        /\ run'.todo = {} /\ run'.owned = run.owned /\ loose' = loose \cup run.todo
        /\ \A p \in Paths : p \notin run.todo => disk'[p].version = disk[p].version
    BY <1>7, FailFields
  <2>2. ASSUME NEW p \in Paths \ (loose' \cup MaintainerOnly), Handled(p)'
        PROVE  p \notin loose /\ Handled(p) /\ disk'[p].version = disk[p].version
    BY <2>1, <2>2 DEF Handled, SameAround
  <2> QED
    BY <1>s, <2>1, <2>2 DEF SameAround
<1>11. CASE SkipStep
  <2>1. /\ RunIsScoped /\ ~Idle /\ SameAround /\ run.at \in 3..10
        /\ run'.todo = {} /\ run'.owned = run.owned /\ disk' = disk
        /\ loose' = loose \cup {p \in run.todo : Removable(p)}
        /\ \A p \in run.todo : source[p] = 0
    BY <1>11, SkipFields
  <2>2. ASSUME NEW p \in Paths \ (loose' \cup MaintainerOnly), Handled(p)'
        PROVE  \/ p \notin loose /\ Handled(p) /\ disk'[p].version = disk[p].version
               \/ IF source[p] > 0 THEN disk'[p].version = source[p] /\ p \in run'.owned
                  ELSE Kind[p] \in Pruned /\ disk'[p].version > 0 =>
                         p \in OwnedByOthers(run.platform)
    <3>1. CASE p \in run.todo
      <4>1. source[p] = 0 /\ ~Removable(p) /\ p \notin loose
        BY <2>1, <2>2, <3>1
      <4>2. Kind[p] \in Pruned /\ disk[p].version > 0 =>
              p \in OwnedByOthers(run.platform)
        BY <2>1, <2>2, <4>1, LeftToOthers DEF Ours
      <4> QED
        BY <2>1, <4>1, <4>2
    <3>2. CASE p \notin run.todo
      BY <2>1, <2>2, <3>2 DEF Handled, SameAround
    <3> QED
      BY <3>1, <3>2
  <2> QED
    BY <1>s, <2>1, <2>2 DEF SameAround
<1>8. CASE NextStep
  <2>1. /\ ~Idle /\ RunIsScoped /\ run.at \in 3..10 /\ GoOn /\ run.todo = {}
        /\ UNCHANGED <<source, manifest, disk, loose>>
    BY <1>0, <1>8, StageIs DEF NextStep
  <2> QED
    BY <1>5, <2>1
<1>9. CASE SaveManifest
  <2>1. /\ RunIsScoped /\ ~Idle /\ run.at = 11 /\ run'.at = 12
        /\ UNCHANGED <<source, disk, loose>>
        /\ run'.platform = run.platform /\ run'.owned = run.owned /\ run'.todo = run.todo
        /\ \A o \in Platforms \ {run.platform} : manifest'[o] = manifest[o]
    BY <1>9, SaveFields
  <2>2. ASSUME NEW p \in Paths, Handled(p)' PROVE Handled(p)
    BY <2>1, <2>2 DEF Handled
  <2> QED
    BY <1>s, <2>1, <2>2
<1>10. CASE WriteState \/ Crash
  BY <1>10 DEF WriteState, Crash, Idle
<1> QED
  BY <1>1, <1>2, <1>3, <1>4, <1>6, <1>7, <1>8, <1>9, <1>10, <1>11 DEF Next

(* At the end, what a source put there is recorded, and what has none is the  *)
(* others'.                                                                *)
LEMMA LeftAtTheEnd ==
  ASSUME FullType, Inv, PathInv, ~Idle, run.at \in 11..12,
         NEW p \in Paths \ (loose \cup MaintainerOnly), p \in Writes[run.platform]
  PROVE  /\ source[p] > 0 => disk[p].version = source[p] /\ p \in run.owned
         /\ Kind[p] \in Pruned \cup Merged /\ Ours(p) =>
              p \in run.owned \/ p \in OwnedByOthers(run.platform)
<1>1. Records /\ InOrder /\ RunIsScoped /\ Sources
  BY DEF PathInv, Inv
<1>2. Handled(p)
  BY <1>1, AllHandled
<1>3. IF source[p] > 0 THEN disk[p].version = source[p] /\ p \in run.owned
      ELSE Kind[p] \in Pruned /\ Ours(p) => p \in OwnedByOthers(run.platform)
  BY <1>1, <1>2 DEF InOrder
<1> QED
  BY <1>1, <1>3 DEF Sources

(* What a deploy wrote and did not leave loose keeps an owner.               *)
LEMMA StepLastOwner ==
  ASSUME FullType, Inv, PathInv, [Next]_vars
  PROVE  LastOwnerDeletes'
<1>0. /\ ~Idle => Records /\ RunIsScoped
      /\ LastOwnerDeletes /\ OwnersWrite
      /\ disk \in [Paths -> DiskType] /\ manifest \in [Platforms -> SUBSET Paths]
  BY DEF Inv, PathInv, FullType, TypeOK, DiskType
<1>c. ASSUME NEW p \in Claimed, run.prior \subseteq run'.prior,
             run.owned \subseteq run'.owned, manifest' = manifest
      PROVE  p \in Claimed'
  BY <1>c DEF Claimed
<1>s. ASSUME \A p \in Paths \ (loose' \cup MaintainerOnly) :
               disk'[p].version > 0 /\ Kind[p] \in Pruned \cup Merged =>
                 \/ p \in Claimed'
                 \/ p \notin loose /\ disk[p].version > 0 /\ (p \in Claimed => p \in Claimed')
      PROVE  LastOwnerDeletes'
  BY <1>0, <1>s DEF LastOwnerDeletes, Ours
<1>1. CASE Environment \/ UNCHANGED vars
  <2>1. run' = run /\ manifest' = manifest /\ loose \subseteq loose'
    BY <1>1 DEF Environment, EditSource, RemoveSource, UserWrites, UserRemoves, vars
  <2>2. \A p \in Paths : p \in loose' \/ disk'[p].version = disk[p].version
    BY <1>0, <1>1
    DEF Environment, EditSource, RemoveSource, UserWrites, UserRemoves, vars, DiskType
  <2> QED
    BY <1>c, <1>s, <2>1, <2>2
<1>2. ASSUME NEW q \in Platforms, NEW rebuild \in BOOLEAN, NEW include \in BOOLEAN,
             Begin(q, rebuild, include)
      PROVE  LastOwnerDeletes'
  <2>1. Idle /\ UNCHANGED <<disk, manifest, loose>>
    BY <1>2, BeginFields
  <2>2. run.prior = {} /\ run.owned = {}
    BY <2>1, NoRunIs DEF Idle
  <2> QED
    BY <1>c, <1>s, <2>1, <2>2
<1>3. CASE DeployPath
  <2> PICK p \in Paths : \/ Purge(p) \/ PurgeFails(p) \/ WriteFile(p) \/ RemoveTree(p)
                         \/ CopyTree(p) \/ Withhold(p) \/ Prune(p)
                         \/ Preserve(p) \/ OverlookSkill(p)
    BY <1>3 DEF DeployPath
  <2>1. /\ SameAround /\ OthersStay(p)
        /\ TakenUp(p) \/ Landed(p) \/ Cleared(p) \/ PassedOver(p) \/ Gone(p)
    BY PathStep
  <2>2. run.prior \subseteq run'.prior /\ run.owned \subseteq run'.owned /\ manifest' = manifest
    BY <2>1 DEF SameAround, TakenUp, Landed, Cleared, PassedOver, Gone
  <2>3. ASSUME NEW o \in Paths \ (loose' \cup MaintainerOnly), o # p
        PROVE  o \notin loose /\ disk'[o].version = disk[o].version
    BY <2>1, <2>3 DEF OthersStay, TakenUp, Landed, Cleared, PassedOver, Gone
  <2>4. ASSUME p \notin loose', disk'[p].version > 0
        PROVE  p \in run'.owned \/ (p \notin loose /\ disk'[p].version = disk[p].version)
    BY <2>1, <2>4 DEF TakenUp, Landed, Cleared, PassedOver, Gone
  <2>5. p \in run'.owned => p \in Claimed'
    BY DEF Claimed
  <2> QED
    BY <1>c, <1>s, <2>2, <2>3, <2>4, <2>5
<1>4. CASE Purged
  <2>1. /\ RunIsScoped /\ Records /\ run.at = 1 /\ run'.owned = run.owned
        /\ UNCHANGED <<disk, manifest, loose>>
    BY <1>0, <1>4, PurgedFields
  <2>2. run.prior \subseteq manifest[run.platform] /\ run.platform \in Platforms
    BY <2>1 DEF Records, RunIsScoped
  <2>3. Claimed \subseteq Claimed'
    BY <2>1, <2>2 DEF Claimed
  <2> QED
    BY <1>s, <2>1, <2>3
<1>5. CASE SelfHeal \/ NextStep
  <2>1. ~Idle /\ RunIsScoped /\ GoOn /\ UNCHANGED <<disk, manifest, loose>>
    BY <1>0, <1>5, StageIs DEF SelfHeal, NextStep
  <2>2. run'.prior = run.prior /\ run'.owned = run.owned
    BY <2>1, GoOnFields
  <2> QED
    BY <1>c, <1>s, <2>1, <2>2
<1>6. CASE HooksFail \/ DegradationFails
  <2>1. /\ SameAround /\ run'.owned = run.owned /\ loose' = loose \cup run.todo
        /\ \A p \in Paths : p \notin run.todo => disk'[p].version = disk[p].version
    BY <1>6, FailFields
  <2>2. run'.prior = run.prior /\ manifest' = manifest
    BY <2>1 DEF SameAround
  <2> QED
    BY <1>c, <1>s, <2>1, <2>2
<1>11. CASE SkipStep
  <2>1. /\ run'.prior = run.prior /\ run'.owned = run.owned /\ manifest' = manifest
        /\ disk' = disk /\ loose \subseteq loose'
    BY <1>11, SkipFields DEF SameAround
  <2> QED
    BY <1>c, <1>s, <2>1
<1>7. CASE SaveManifest
  <2>1. /\ RunIsScoped /\ ~Idle /\ run.at = 11 /\ UNCHANGED <<disk, loose>>
        /\ run'.prior = run.prior /\ run'.owned = run.owned
        /\ \A o \in Platforms \ {run.platform} : manifest'[o] = manifest[o]
    BY <1>7, SaveFields
  <2>2. OwnedByOthers(run.platform) \subseteq Claimed' /\ run.owned \subseteq Claimed'
    BY <2>1 DEF OwnedByOthers, Claimed
  <2>3. ASSUME NEW p \in Paths \ (loose \cup MaintainerOnly), Ours(p),
               Kind[p] \in Pruned \cup Merged, p \in Claimed
        PROVE  p \in Claimed'
    <3>1. CASE p \in manifest[run.platform]
      <4>1. p \in Writes[run.platform]
        BY <1>0, <2>1, <3>1 DEF OwnersWrite, RunIsScoped
      <4> QED
        BY <2>1, <2>2, <2>3, <4>1, LeftAtTheEnd
    <3>2. CASE p \notin manifest[run.platform]
      BY <2>1, <2>3, <3>2 DEF Claimed
    <3> QED
      BY <3>1, <3>2
  <2> QED
    BY <1>s, <2>1, <2>3 DEF Ours
\* A deploy that is over, or nearly so
<1>8. ASSUME ~Idle, run.at = 12, run' = NoRun, UNCHANGED <<disk, manifest>>,
             loose \subseteq loose'
      PROVE  LastOwnerDeletes'
  <2>1. RunIsScoped /\ manifest[run.platform] = run.owned /\ run.platform \in Platforms
    BY <1>0, <1>8 DEF Records, RunIsScoped
  <2>2. Claimed' = UNION {manifest[q] : q \in Platforms}
    BY <1>8, NoRunIs DEF Claimed
  <2>3. ASSUME NEW p \in Paths \ (loose \cup MaintainerOnly), Ours(p),
               Kind[p] \in Pruned \cup Merged, p \in Claimed
        PROVE  p \in Claimed'
    <3>1. CASE p \in run.prior
      <4>1. p \in Writes[run.platform]
        BY <2>1, <3>1 DEF RunIsScoped
      <4>2. p \in run.owned \/ p \in OwnedByOthers(run.platform)
        BY <1>8, <2>3, <4>1, LeftAtTheEnd
      <4> QED
        BY <2>1, <2>2, <4>2 DEF OwnedByOthers
    <3>2. CASE p \notin run.prior
      BY <2>1, <2>2, <2>3, <3>2 DEF Claimed
    <3> QED
      BY <3>1, <3>2
  <2> QED
    BY <1>8, <1>s, <2>3 DEF Ours
<1>9. CASE WriteState
  BY <1>8, <1>9, StageIs DEF WriteState, Inv
<1>10. CASE Crash
  <2>1. ~Idle /\ RunIsScoped /\ Records /\ run' = NoRun /\ UNCHANGED <<disk, manifest>>
    BY <1>0, <1>10 DEF Crash
  <2>2. CASE Stage = "mark"
    BY <1>8, <1>10, <2>1, <2>2, StageIs DEF Crash, Inv
  <2>3. CASE Stage # "mark"
    <3>1. loose' = loose \cup run.done /\ run.at <= 11
      <4>1. run.at # 12
        BY <2>1, <2>3, PipelineIs DEF Stage
      <4> QED
        BY <1>10, <2>1, <2>3, <4>1 DEF Crash, RunIsScoped
    <3>2. /\ run.owned \subseteq loose' /\ run.prior \subseteq manifest[run.platform]
          /\ run.platform \in Platforms
      BY <2>1, <3>1 DEF Records, RunIsScoped
    <3>3. Claimed \subseteq Claimed' \cup loose'
      BY <2>1, <3>2 DEF Claimed
    <3> QED
      BY <1>s, <2>1, <3>1, <3>3
  <2> QED
    BY <2>2, <2>3
<1> QED
  BY <1>1, <1>2, <1>3, <1>4, <1>5, <1>6, <1>7, <1>9, <1>10, <1>11 DEF Next

(* A completed deploy leaves its sources' versions, and nothing but a deploy  *)
(* changes what another one left.                                          *)
LEMMA StepLastDeployed ==
  ASSUME FullType, Inv, PathInv, [Next]_vars
  PROVE  LastDeployed'
<1>0. /\ ~Idle => Records /\ RunIsScoped
      /\ LastDeployed /\ disk \in [Paths -> DiskType]
  BY DEF Inv, PathInv, FullType, TypeOK, DiskType
<1>p. ASSUME RunIsScoped, run'.platform = run.platform PROVE ~Idle'
  BY <1>p, NoRunIs, DeployAssumption DEF Idle, RunIsScoped
<1>s. ASSUME baseline' = baseline,
             \A p \in Paths \ (loose' \cup MaintainerOnly) :
               \/ ~Idle' /\ p \in run'.done
               \/ /\ p \notin loose /\ disk'[p].version = disk[p].version
                  /\ Idle \/ p \notin run.done
      PROVE  LastDeployed'
  BY <1>0, <1>s DEF LastDeployed, Deployed
\* What the running deploy leaves where it is done.
<1>e. ASSUME ~Idle, run.at \in 11..12,
             NEW p \in Paths \ (loose \cup MaintainerOnly), p \in Writes[run.platform],
             baseline'[run.platform] = source, disk' = disk
      PROVE  \E q \in Platforms :
               /\ p \in Writes[q] /\ Deployed(q)'
               /\ baseline'[q][p] > 0 => disk'[p].version = baseline'[q][p]
  <2>1. run.platform \in Platforms
    BY <1>0, <1>e DEF RunIsScoped
  <2>2. source[p] <= MaxVersion
    BY DEF PathInv, Sources, FullType, TypeOK
  <2>3. source # NoBaseline
    BY <2>2, DeployAssumption DEF NoBaseline
  <2>4. source[p] > 0 => disk[p].version = source[p]
    BY <1>e, LeftAtTheEnd
  <2> QED
    BY <1>e, <2>1, <2>3, <2>4 DEF Deployed
<1>1. CASE Environment \/ UNCHANGED vars
  <2>1. run' = run /\ baseline' = baseline /\ loose \subseteq loose'
    BY <1>1 DEF Environment, EditSource, RemoveSource, UserWrites, UserRemoves, vars
  <2>2. \A p \in Paths : p \in loose' \/ disk'[p].version = disk[p].version
    BY <1>0, <1>1
    DEF Environment, EditSource, RemoveSource, UserWrites, UserRemoves, vars, DiskType
  <2>3. Idle' <=> Idle
    BY <2>1 DEF Idle
  <2> QED
    BY <1>s, <2>1, <2>2, <2>3
<1>2. ASSUME NEW q \in Platforms, NEW rebuild \in BOOLEAN, NEW include \in BOOLEAN,
             Begin(q, rebuild, include)
      PROVE  LastDeployed'
  <2>1. Idle /\ UNCHANGED <<disk, baseline, loose>>
    BY <1>2, BeginFields
  <2> QED
    BY <1>s, <2>1
<1>3. CASE DeployPath
  <2> PICK p \in Paths : \/ Purge(p) \/ PurgeFails(p) \/ WriteFile(p) \/ RemoveTree(p)
                         \/ CopyTree(p) \/ Withhold(p) \/ Prune(p)
                         \/ Preserve(p) \/ OverlookSkill(p)
    BY <1>3 DEF DeployPath
  <2>1. /\ ~Idle' /\ SameAround /\ OthersStay(p)
        /\ TakenUp(p) \/ Landed(p) \/ Cleared(p) \/ PassedOver(p) \/ Gone(p)
    BY PathStep
  <2>2. run.done \subseteq run'.done
    BY <2>1 DEF TakenUp, Landed, Cleared, PassedOver, Gone
  <2>3. ASSUME NEW o \in Paths \ (loose' \cup MaintainerOnly), o # p
        PROVE  o \notin loose /\ disk'[o].version = disk[o].version
    BY <2>1, <2>3 DEF OthersStay, TakenUp, Landed, Cleared, PassedOver, Gone
  <2>4. ASSUME p \notin loose'
        PROVE  p \in run'.done \/ (p \notin loose /\ disk'[p].version = disk[p].version)
    BY <2>1, <2>4 DEF TakenUp, Landed, Cleared, PassedOver, Gone
  <2> QED
    BY <1>s, <2>1, <2>2, <2>3, <2>4 DEF SameAround
<1>4. CASE Purged
  <2>1. /\ RunIsScoped /\ run'.done = run.done /\ run'.platform = run.platform
        /\ UNCHANGED <<disk, baseline, loose>>
    BY <1>4, PurgedFields
  <2> QED
    BY <1>p, <1>s, <2>1
<1>5. CASE SelfHeal \/ NextStep
  <2>1. ~Idle /\ RunIsScoped /\ GoOn /\ UNCHANGED <<disk, baseline, loose>>
    BY <1>0, <1>5, StageIs DEF SelfHeal, NextStep
  <2>2. run'.done = run.done /\ ~Idle'
    BY <2>1, GoOnFields
  <2> QED
    BY <1>s, <2>1, <2>2
<1>6. CASE HooksFail \/ DegradationFails
  <2>1. /\ RunIsScoped /\ SameAround /\ loose' = loose \cup run.todo
        /\ run.done \subseteq run'.done
        /\ \A p \in Paths : p \notin run.todo => disk'[p].version = disk[p].version
    BY <1>6, FailFields
  <2> QED
    BY <1>p, <1>s, <2>1 DEF SameAround
<1>11. CASE SkipStep
  <2>1. /\ RunIsScoped /\ SameAround /\ loose \subseteq loose'
        /\ run'.done = run.done /\ disk' = disk
    BY <1>11, SkipFields
  <2> QED
    BY <1>p, <1>s, <2>1 DEF SameAround
<1>7. CASE SaveManifest
  <2>1. /\ RunIsScoped /\ ~Idle /\ run.at = 11 /\ UNCHANGED <<disk, loose>>
        /\ run'.platform = run.platform /\ run'.done = run.done
        /\ baseline'[run.platform] = source
        /\ \A o \in Platforms \ {run.platform} : baseline'[o] = baseline[o]
    BY <1>7, SaveFields
  <2>2. ~Idle'
    BY <1>p, <2>1
  <2>3. ASSUME NEW p \in Paths \ (loose \cup MaintainerOnly), p \notin run.done
        PROVE  \/ \A q \in Platforms : p \in Writes[q] => ~Deployed(q)'
               \/ \E q \in Platforms :
                    /\ p \in Writes[q] /\ Deployed(q)'
                    /\ baseline'[q][p] > 0 => disk'[p].version = baseline'[q][p]
    <3>1. CASE p \in Writes[run.platform]
      BY <1>e, <2>1, <3>1
    <3>2. CASE p \notin Writes[run.platform]
      <4>1. \/ \A q \in Platforms : p \in Writes[q] => ~Deployed(q)
            \/ \E q \in Platforms :
                 /\ p \in Writes[q] /\ Deployed(q)
                 /\ baseline[q][p] > 0 => disk[p].version = baseline[q][p]
        BY <1>0, <2>3 DEF LastDeployed
      <4>2. \A q \in Platforms : p \in Writes[q] => baseline'[q] = baseline[q]
        BY <2>1, <3>2
      <4> QED
        BY <2>1, <4>1, <4>2 DEF Deployed
    <3> QED
      BY <3>1, <3>2
  <2> QED
    BY <2>1, <2>2, <2>3 DEF LastDeployed
\* A deploy that is over, or nearly so
<1>8. ASSUME ~Idle, run.at = 12, UNCHANGED <<disk, baseline>>, loose' = loose
      PROVE  LastDeployed'
  <2>1. Records /\ baseline'[run.platform] = source
    BY <1>0, <1>8 DEF Records
  <2>2. ASSUME NEW p \in Paths \ (loose \cup MaintainerOnly), p \in run.done
        PROVE  \E q \in Platforms :
                 /\ p \in Writes[q] /\ Deployed(q)'
                 /\ baseline'[q][p] > 0 => disk'[p].version = baseline'[q][p]
    <3>1. p \in Writes[run.platform]
      BY <2>1, <2>2 DEF Records
    <3> QED
      BY <1>8, <1>e, <2>1, <2>2, <3>1
  <2> QED
    BY <1>0, <1>8, <2>2 DEF LastDeployed, Deployed
<1>9. CASE WriteState
  BY <1>8, <1>9, StageIs DEF WriteState, Inv
<1>10. CASE Crash
  <2>1. ~Idle /\ RunIsScoped /\ UNCHANGED <<disk, baseline>>
    BY <1>0, <1>10 DEF Crash
  <2>2. CASE Stage = "mark"
    BY <1>8, <1>10, <2>1, <2>2, StageIs DEF Crash, Inv
  <2>3. CASE Stage # "mark"
    <3>1. loose' = loose \cup run.done
      BY <1>10, <2>3 DEF Crash
    <3> QED
      BY <1>s, <2>1, <3>1
  <2> QED
    BY <2>2, <2>3
<1> QED
  BY <1>1, <1>2, <1>3, <1>4, <1>5, <1>6, <1>7, <1>9, <1>10, <1>11 DEF Next

(* What deploys leave behind: the manifests list what has a source, a path    *)
(* holds what the last deploy of it put there, and the running deploy has    *)
(* recorded what it wrote and may remove what no source has any more.       *)
THEOREM PathsHold == Spec => [](FullType /\ Inv /\ PathInv)
<1>1. Init => FullType /\ Inv /\ PathInv
  BY InitInv, InitPaths
<1>2. FullType /\ Inv /\ PathInv /\ [Next]_vars => (FullType /\ Inv /\ PathInv)'
  <2> SUFFICES ASSUME FullType, Inv, PathInv, [Next]_vars
               PROVE  (FullType /\ Inv /\ PathInv)'
    OBVIOUS
  <2>1. (FullType /\ Inv)'
    BY StepType, StepScoped, StepOwners, StepApart DEF FullType, Inv
  <2>2. Sources' /\ LastOwnerDeletes' /\ LastDeployed'
    BY StepSources, StepLastOwner, StepLastDeployed
  <2>3. ~Idle' => Records' /\ (run'.at <= 11 => MayRemove') /\ InOrder'
    BY StepRecords, StepMayRemove, StepInOrder
  <2> QED
    BY <2>1, <2>2, <2>3 DEF PathInv
<1> QED
  BY <1>1, <1>2, PTL DEF Spec

(* Everything a deploy wrote, and no kill or failure left loose, is listed by *)
(* a manifest or by the running deploy, so that the last owner removes it.   *)
THEOREM LastOwnersDelete == Spec => []LastOwnerDeletes
<1>1. PathInv => LastOwnerDeletes
  BY DEF PathInv
<1> QED
  BY <1>1, PathsHold, PTL

LEMMA CleanPaths ==
  ASSUME FullType, PathInv
  PROVE  NoDriftNothingStale
<1> SUFFICES ASSUME Idle, \A q \in Platforms : baseline[q] \in {source, NoBaseline},
                    NEW q \in Platforms, baseline[q] = source,
                    NEW p \in Writes[q] \ (loose \cup MaintainerOnly)
             PROVE  IF source[p] > 0 THEN disk[p].version = source[p]
                    ELSE Kind[p] \in Pruned => ~Ours(p)
  BY DEF NoDriftNothingStale
<1>1. p \in Paths
  BY DeployAssumption
<1>2. source # NoBaseline
  <2>1. source[p] <= MaxVersion
    BY <1>1 DEF PathInv, Sources, FullType, TypeOK
  <2> QED
    BY <1>1, <2>1, DeployAssumption DEF NoBaseline
<1>3. ASSUME source[p] > 0 PROVE disk[p].version = source[p]
  BY <1>1, <1>2, <1>3 DEF PathInv, LastDeployed, Deployed
<1>4. ASSUME source[p] = 0, Kind[p] \in Pruned, Ours(p) PROVE FALSE
  <2>1. p \in Claimed
    BY <1>1, <1>4 DEF PathInv, LastOwnerDeletes
  <2>2. PICK r \in Platforms : p \in manifest[r]
    BY <2>1, NoRunIs DEF Claimed, Idle
  <2>3. baseline[r][p] > 0 /\ baseline[r] = source
    BY <2>2 DEF PathInv, Sources, Deployed
  <2> QED
    BY <1>4, <2>3
<1>5. source[p] \in Nat
  BY <1>1 DEF FullType, TypeOK
<1> QED
  BY <1>3, <1>4, <1>5

(* While no platform drifts, each that was deployed has its sources' versions *)
(* on disk, and what has no source any more holds nothing of ours.          *)
THEOREM NothingStaleWithoutDrift == Spec => []NoDriftNothingStale
<1>1. FullType /\ PathInv => NoDriftNothingStale
  BY CleanPaths
<1> QED
  BY <1>1, PathsHold, PTL

=============================================================================
