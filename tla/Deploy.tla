------------------------------- MODULE Deploy -------------------------------
(***************************************************************************)
(* `cataforge deploy`: the sources under .cataforge/ written out where each *)
(* platform's IDE looks for them, again and again, for several platforms    *)
(* that share some of the places.                                          *)
(*                                                                         *)
(* The same directories hold what the user wrote.  A deploy tells the two   *)
(* apart by the manifests: each platform's lists the paths its last deploy  *)
(* wrote.  A deploy runs its steps in order, removes what it owned and no   *)
(* source has any more, saves its manifest last, and may be killed at any   *)
(* step.  The deploy lock lets one deploy run at a time; while it runs no    *)
(* source is edited.                                                       *)
(***************************************************************************)
EXTENDS Naturals, Sequences

CONSTANTS
  Platforms,       \* platforms to deploy for
  NoPlatform,      \* the platform of no deploy
  Paths,           \* the places deployed to, one for each source
  NoPath,          \* no place
  Kind,            \* the step that deploys each path
  Writes,          \* the paths each platform deploys to
  Bundled,         \* paths whose sources the package can restore
  MaintainerOnly,  \* skills that are deployed only on demand
  Policy,          \* on_conflict of each instruction file that is there
  MaxVersion,      \* bound: versions of a source
  MaxUpsets        \* bound: edits of the sources, steps of the user among the
                   \* deployed files, kills and failures, all together

\* The steps of the pipeline, and what comes before and after them
Pipeline ==
  <<"purge", "heal", "agent", "instruction", "settings", "output", "rules",
    "skill", "command", "fallback", "save", "mark">>

Kinds == {"agent", "instruction", "settings", "output", "rules", "skill",
          "command", "fallback"}

\* Kinds that are merged into the file that is there
Merged == {"instruction", "settings"}

\* Kinds that are directories: removed, then copied
Trees == {"rules", "skill"}

\* Kinds whose sources are the files of one directory of .cataforge
FromDirectory == {"agent", "rules", "skill", "command"}

\* Kinds whose step removes what has no source any more
Pruned == {"agent", "skill", "command", "fallback"}

ASSUME DeployAssumption ==
  /\ NoPlatform \notin Platforms /\ NoPath \notin Paths
  /\ Kind \in [Paths -> Kinds]
  /\ Writes \in [Platforms -> SUBSET Paths]
  /\ Bundled \subseteq Paths
  /\ MaintainerOnly \subseteq {p \in Paths : Kind[p] = "skill"}
  /\ Policy \in [Paths -> {"overwrite", "preserve", "preserve_if_edited"}]
  /\ MaxVersion \in Nat \ {0}
  /\ MaxUpsets \in Nat

VARIABLES
  source,    \* the version of each path's source, 0 when there is none
  disk,      \* what each path holds: our version (0: none) and whether it
             \* holds anything the user wrote
  manifest,  \* the paths each platform owns
  baseline,  \* the sources each platform was last deployed from
  run,       \* the deploy that is running
  authored,  \* the user's own files: written where nobody claimed the path
  broken,    \* settings files that the user left so that they do not parse
  loose,     \* paths a kill, a failure, the user or a step that passed over
             \* them left otherwise than a deploy is meant to leave them
  upsets

vars ==
  <<source, disk, manifest, baseline, run, authored, broken, loose, upsets>>

Nothing == [version |-> 0, mine |-> FALSE]

\* No deploy of this platform yet
NoBaseline == [p \in Paths |-> MaxVersion + 1]

NoRun == [platform |-> NoPlatform, withheld |-> {}, at |-> 0,
          prior |-> {}, owned |-> {}, todo |-> {}, done |-> {},
          copying |-> NoPath]

Idle == run = NoRun

There(p) == disk[p] # Nothing

Ours(p) == disk[p].version > 0

Stage == IF Idle THEN "idle" ELSE Pipeline[run.at]

OwnedByOthers(q) == UNION {manifest[o] : o \in Platforms \ {q}}

Claimed == (UNION {manifest[q] : q \in Platforms}) \cup run.prior \cup run.owned

\* The paths of a platform that step k deals with
Of(q, k) == {p \in Writes[q] : Kind[p] = Pipeline[k]}

Init ==
  /\ source = [p \in Paths |-> 1]
  /\ disk = [p \in Paths |-> Nothing]
  /\ manifest = [q \in Platforms |-> {}]
  /\ baseline = [q \in Platforms |-> NoBaseline]
  /\ run = NoRun
  /\ authored = {} /\ broken = {} /\ loose = {}
  /\ upsets = 0

-----------------------------------------------------------------------------
(* The environment.                                                        *)

\* Somebody changes a source or adds one, or brings back what it was before.
EditSource(p) ==
  /\ Idle /\ upsets < MaxUpsets
  /\ \E v \in 1..MaxVersion : source' = [source EXCEPT ![p] = v]
  /\ upsets' = upsets + 1
  /\ UNCHANGED <<disk, manifest, baseline, run, authored, broken, loose>>

\* The templates of merged files come with the package.
RemoveSource(p) ==
  /\ Idle /\ upsets < MaxUpsets
  /\ Kind[p] \notin Merged /\ source[p] > 0
  /\ source' = [source EXCEPT ![p] = 0]
  /\ upsets' = upsets + 1
  /\ UNCHANGED <<disk, manifest, baseline, run, authored, broken, loose>>

\* The user writes a file where there is none, or adds to a merged file or a
\* directory; and may leave a settings file so that it does not parse.
UserWrites(p) ==
  /\ upsets < MaxUpsets
  /\ ~There(p) \/ Kind[p] \in Merged \cup Trees
  /\ p # run.copying
  /\ \/ ~disk[p].mine /\ broken' = broken
     \/ Kind[p] = "settings" /\ p \notin broken /\ broken' = broken \cup {p}
  /\ disk' = [disk EXCEPT ![p].mine = TRUE]
  /\ authored' = IF p \in Claimed THEN authored ELSE authored \cup {p}
  /\ upsets' = upsets + 1
  /\ UNCHANGED <<source, manifest, baseline, run, loose>>

UserRemoves(p) ==
  /\ Idle /\ upsets < MaxUpsets /\ There(p)
  /\ disk' = [disk EXCEPT ![p] = Nothing]
  /\ authored' = authored \ {p} /\ broken' = broken \ {p}
  /\ loose' = loose \cup {p}
  /\ upsets' = upsets + 1
  /\ UNCHANGED <<source, manifest, baseline, run>>

-----------------------------------------------------------------------------
(* A deploy.                                                               *)

\* Section-merge targets are kept by a purge.
Protected(q) == {p \in Writes[q] : Kind[p] = "instruction"}

StartOf(q, rebuild, include, prior) ==
  [platform |-> q,
   withheld |-> IF include THEN {} ELSE MaintainerOnly \cap Writes[q],
   at |-> IF rebuild THEN 1 ELSE 2,
   prior |-> prior, owned |-> {},
   todo |-> IF rebuild THEN prior \ Protected(q) ELSE {},
   done |-> {}, copying |-> NoPath]

\* Mutant: paths that others own too may be removed.
PriorShared(q) == manifest[q]

\* Mutant: nothing may be removed once another platform is deployed.
PriorTimid(q) == IF OwnedByOthers(q) = {} THEN manifest[q] ELSE {}

\* What of its own a deploy may remove
Prior(q) == manifest[q] \ OwnedByOthers(q)

Begin(q, rebuild, include) ==
  /\ Idle
  /\ run' = StartOf(q, rebuild, include, Prior(q))
  /\ UNCHANGED <<source, disk, manifest, baseline, authored, broken, loose, upsets>>

\* The next steps of the pipeline, up to the first that has anything to do
Upcoming(k) ==
  /\ k > run.at
  /\ \A j \in run.at + 1 .. k - 1 :
       Pipeline[j] \in Kinds /\ Of(run.platform, j) = {}
  /\ Pipeline[k] \in Kinds => Of(run.platform, k) # {}

GoOn ==
  \E k \in DOMAIN Pipeline :
    Upcoming(k) /\ run' = [run EXCEPT !.at = k, !.todo = Of(run.platform, k)]

Finished(p) == [run EXCEPT !.todo = @ \ {p}, !.done = @ \cup {p}]

Purge(p) ==
  /\ Stage = "purge" /\ p \in run.todo
  /\ disk' = [disk EXCEPT ![p] = Nothing]
  /\ authored' = authored \ {p} /\ broken' = broken \ {p}
  /\ run' = Finished(p)
  /\ UNCHANGED <<source, manifest, baseline, loose, upsets>>

\* A path that cannot be removed is left, with a warning.
PurgeFails(p) ==
  /\ upsets < MaxUpsets
  /\ Stage = "purge" /\ p \in run.todo /\ There(p)
  /\ run' = Finished(p)
  /\ loose' = loose \cup {p}
  /\ upsets' = upsets + 1
  /\ UNCHANGED <<source, disk, manifest, baseline, authored, broken>>

\* After a purge the deploy goes on as the first one did.
Purged ==
  /\ Stage = "purge" /\ run.todo = {}
  /\ run' = [run EXCEPT !.at = @ + 1, !.prior = {}]
  /\ UNCHANGED <<source, disk, manifest, baseline, authored, broken, loose, upsets>>

\* Sources that are missing are restored from the package.
SelfHeal ==
  /\ Stage = "heal"
  /\ source' = [p \in Paths |->
                 IF p \in Bundled /\ source[p] = 0 THEN 1 ELSE source[p]]
  /\ GoOn
  /\ UNCHANGED <<disk, manifest, baseline, authored, broken, loose, upsets>>

\* Agents are written before the stale ones are removed, all else after.
Turn(p) ==
  \A o \in run.todo :
    (source[o] > 0) = (source[p] > 0) \/ (source[p] > 0) = (Kind[p] = "agent")

Due(p) == Stage \in Kinds /\ p \in run.todo /\ run.copying = NoPath /\ Turn(p)

\* Mutant: what is ours already is left as it is.
WrittenOnce(p) ==
  IF Ours(p) THEN disk[p]
  ELSE [version |-> source[p],
        mine    |-> Kind[p] \in Merged /\ disk[p].mine /\ p \notin broken]

\* What a path holds once its source is written there: merged with what is
\* there, if that parses.
Written(p) ==
  [version |-> source[p],
   mine    |-> Kind[p] \in Merged /\ disk[p].mine /\ p \notin broken]

\* Mutant: the directory copied last is recorded.
RecordCopied(p) ==
  [Finished(p) EXCEPT !.owned = @ \cup {run.copying}, !.copying = NoPath]

Record(p) == [Finished(p) EXCEPT !.owned = @ \cup {p}, !.copying = NoPath]

Land(p) ==
  /\ disk' = [disk EXCEPT ![p] = Written(p)]
  /\ authored' = IF Kind[p] \in Merged THEN authored ELSE authored \ {p}
  /\ broken' = broken \ {p}
  /\ loose' = loose \ {p}
  /\ run' = Record(p)
  /\ UNCHANGED <<source, manifest, baseline, upsets>>

\* An instruction file that is there is kept always, or if its hash is not the
\* one its last deploy saved: the user may have edited it since, or a deploy was
\* killed before it saved the hash.
MayPreserve(p) ==
  /\ Kind[p] = "instruction" /\ There(p)
  /\ \/ Policy[p] = "preserve"
     \/ Policy[p] = "preserve_if_edited" /\ (disk[p].mine \/ p \in loose)

WriteFile(p) ==
  /\ Due(p) /\ source[p] > 0
  /\ Kind[p] \notin Trees
  /\ MayPreserve(p) => Policy[p] # "preserve"
  /\ Land(p)

\* It is not written and not recorded.
Preserve(p) ==
  /\ Due(p) /\ source[p] > 0 /\ MayPreserve(p)
  /\ run' = [run EXCEPT !.todo = @ \ {p}]
  /\ loose' = loose \cup {p}
  /\ UNCHANGED <<source, disk, manifest, baseline, authored, broken, upsets>>

RemoveTree(p) ==
  /\ Due(p) /\ source[p] > 0 /\ p \notin run.withheld
  /\ Kind[p] \in Trees
  /\ disk' = [disk EXCEPT ![p] = Nothing]
  /\ authored' = authored \ {p}
  /\ run' = [run EXCEPT !.copying = p, !.done = @ \cup {p}]
  /\ UNCHANGED <<source, manifest, baseline, broken, loose, upsets>>

CopyTree(p) == Stage \in Trees /\ p = run.copying /\ Land(p)

\* A maintainer's skill is passed over: not written, not recorded, not removed.
Withhold(p) ==
  /\ Due(p) /\ source[p] > 0 /\ p \in run.withheld
  /\ run' = [run EXCEPT !.todo = @ \ {p}]
  /\ UNCHANGED <<source, disk, manifest, baseline, authored, broken, loose, upsets>>

\* Mutant: all that has no source is removed.
RemovableOrphan(p) == Kind[p] \in Pruned /\ (Kind[p] = "agent" => Ours(p))

\* An agent is taken for ours only if it begins as ours do.
Removable(p) ==
  /\ p \in run.prior /\ Kind[p] \in Pruned
  /\ Kind[p] = "agent" => Ours(p)

Prune(p) ==
  /\ Due(p) /\ source[p] = 0
  /\ disk' = IF Removable(p) THEN [disk EXCEPT ![p] = Nothing] ELSE disk
  /\ authored' = IF Removable(p) THEN authored \ {p} ELSE authored
  /\ run' = IF Removable(p) THEN Finished(p) ELSE [run EXCEPT !.todo = @ \ {p}]
  /\ UNCHANGED <<source, manifest, baseline, broken, loose, upsets>>

\* A skill's directory without its SKILL.md counts as a source for the prune and
\* as none for the copy: the skill is not removed, written or recorded.
OverlookSkill(p) ==
  /\ Due(p) /\ source[p] = 0 /\ Kind[p] = "skill"
  /\ run' = [run EXCEPT !.todo = @ \ {p}]
  /\ loose' = IF Removable(p) THEN loose \cup {p} ELSE loose
  /\ UNCHANGED <<source, disk, manifest, baseline, authored, broken, upsets>>

\* With its last source a directory may go too, as it does in a checkout: the
\* step is passed over, its prune included.
SkipStep ==
  /\ Stage \in FromDirectory
  /\ run.todo = Of(run.platform, run.at) /\ run.todo # {}
  /\ \A p \in Paths : Kind[p] = Stage => source[p] = 0
  /\ run' = [run EXCEPT !.todo = {}]
  /\ loose' = loose \cup {p \in run.todo : Removable(p)}
  /\ UNCHANGED <<source, disk, manifest, baseline, authored, broken, upsets>>

\* Hooks that cannot be generated are not deployed, and the deploy goes on.
HooksFail ==
  /\ Stage = "settings" /\ run.todo # {} /\ upsets < MaxUpsets
  /\ loose' = loose \cup run.todo
  /\ run' = [run EXCEPT !.todo = {}]
  /\ upsets' = upsets + 1
  /\ UNCHANGED <<source, disk, manifest, baseline, authored, broken>>

\* Fallback rules that cannot be generated count as rules there are none of.
DegradationFails ==
  LET stale == {p \in Of(run.platform, run.at) : p \in run.prior}
  IN
  /\ Stage = "fallback" /\ run.todo = Of(run.platform, run.at)
  /\ run.todo # {} /\ upsets < MaxUpsets
  /\ disk' = [p \in Paths |-> IF p \in stale THEN Nothing ELSE disk[p]]
  /\ authored' = authored \ stale
  /\ loose' = loose \cup run.todo
  /\ run' = [run EXCEPT !.todo = {}, !.done = @ \cup stale]
  /\ upsets' = upsets + 1
  /\ UNCHANGED <<source, manifest, baseline, broken>>

NextStep ==
  /\ Stage \in Kinds /\ run.todo = {}
  /\ GoOn
  /\ UNCHANGED <<source, disk, manifest, baseline, authored, broken, loose, upsets>>

\* The digest of the sources is computed and saved with the manifest.
SaveManifest ==
  /\ Stage = "save"
  /\ manifest' = [manifest EXCEPT ![run.platform] = run.owned]
  /\ baseline' = [baseline EXCEPT ![run.platform] = source]
  /\ run' = [run EXCEPT !.at = @ + 1]
  /\ UNCHANGED <<source, disk, authored, broken, loose, upsets>>

\* The mark of success
WriteState ==
  /\ Stage = "mark"
  /\ run' = NoRun
  /\ UNCHANGED <<source, disk, manifest, baseline, authored, broken, loose, upsets>>

\* Killed, or ended by an exception
Crash ==
  /\ ~Idle /\ upsets < MaxUpsets
  /\ loose' = IF Stage = "mark" THEN loose ELSE loose \cup run.done
  /\ run' = NoRun
  /\ upsets' = upsets + 1
  /\ UNCHANGED <<source, disk, manifest, baseline, authored, broken>>

Environment ==
  \E p \in Paths :
    \/ EditSource(p)
    \/ RemoveSource(p)
    \/ UserWrites(p)
    \/ UserRemoves(p)

DeployPath ==
  \E p \in Paths :
    \/ Purge(p)
    \/ PurgeFails(p)
    \/ WriteFile(p)
    \/ Preserve(p)
    \/ RemoveTree(p)
    \/ CopyTree(p)
    \/ Withhold(p)
    \/ Prune(p)
    \/ OverlookSkill(p)

Next ==
  \/ Environment
  \/ \E q \in Platforms, rebuild, include \in BOOLEAN :
       Begin(q, rebuild, include)
  \/ DeployPath
  \/ Purged
  \/ SelfHeal
  \/ SkipStep
  \/ HooksFail
  \/ DegradationFails
  \/ NextStep
  \/ SaveManifest
  \/ WriteState
  \/ Crash

Spec == Init /\ [][Next]_vars

-----------------------------------------------------------------------------

RunType ==
  /\ run.platform \in Platforms \cup {NoPlatform}
  /\ run.withheld \subseteq Paths
  /\ run.at \in 0..Len(Pipeline)
  /\ run.prior \subseteq Paths /\ run.owned \subseteq Paths
  /\ run.todo \subseteq Paths /\ run.done \subseteq Paths
  /\ run.copying \in Paths \cup {NoPath}

(* Every variable has its type.                                            *)
TypeOK ==
  /\ source \in [Paths -> Nat]
  /\ disk \in [Paths -> [version : Nat, mine : BOOLEAN]]
  /\ manifest \in [Platforms -> SUBSET Paths]
  /\ baseline \in [Platforms -> [Paths -> Nat]]
  /\ RunType
  /\ authored \subseteq Paths /\ loose \subseteq Paths
  /\ broken \subseteq {p \in Paths : Kind[p] = "settings"}
  /\ upsets \in 0..MaxUpsets

(* What a deploy does to a path it did not write.                          *)
DeployStep == ~(Idle /\ run' = run)

(* "Items the user authored were never recorded, so they survive every      *)
(* redeploy" (manifest.py): a deploy, a rebuild and one that is killed      *)
(* included, takes a file of the user's only to put the source of that name *)
(* there, which replaces a directory with all the user put into it; and     *)
(* what the user wrote into a merged file stays, except in a settings file  *)
(* that a rebuild purges, or that does not parse when any deploy comes to it. *)
UserContentStands ==
  [][\A p \in Paths :
       DeployStep /\ disk[p].mine /\ ~disk'[p].mine =>
         \/ p \notin authored /\ Kind[p] \notin Merged
         \/ source[p] > 0 /\ Kind[p] \notin Merged /\ Stage = Kind[p]
         \/ Kind[p] = "settings" /\ Stage = "purge"
         \/ p \in broken /\ Stage = "settings"]_vars

(* A deploy for one platform never takes away what another one's manifest   *)
(* lists, except for the moment in which a directory both share is copied   *)
(* anew.                                                                   *)
SiblingsStand ==
  [][\A p \in OwnedByOthers(run.platform) :
       DeployStep /\ There(p) /\ disk'[p] = Nothing => run'.copying = p]_vars

(* Everything a deploy wrote is claimed by a manifest or the running deploy,*)
(* so that the last owner finds it and deletes it.  Apart from: paths that a *)
(* kill or a failure left loose; those the prune did not come to, for the   *)
(* sources' directory was gone or the skill's was there without its         *)
(* SKILL.md; instruction files kept by their policy; kinds whose step       *)
(* removes nothing; and maintainers' skills a later deploy passes over.     *)
LastOwnerDeletes ==
  \A p \in Paths :
    /\ Ours(p) /\ p \notin loose \cup MaintainerOnly
    /\ Kind[p] \in Pruned \cup Merged
    => p \in Claimed

(* While no platform reports drift, each platform that was deployed has its  *)
(* sources' versions, and a path without a source holds nothing of ours;    *)
(* the same paths apart.  One platform's report is not enough: a path it    *)
(* shares may hold what a sibling deployed before the source was brought    *)
(* back to what it was.                                                    *)
NoDriftNothingStale ==
  Idle /\ (\A q \in Platforms : baseline[q] \in {source, NoBaseline}) =>
    \A q \in Platforms : baseline[q] = source =>
      \A p \in Writes[q] \ (loose \cup MaintainerOnly) :
        IF source[p] > 0 THEN disk[p].version = source[p]
        ELSE Kind[p] \in Pruned => ~Ours(p)

=============================================================================
