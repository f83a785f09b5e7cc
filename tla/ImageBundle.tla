---------------------------- MODULE ImageBundle ----------------------------
(***************************************************************************)
(* fetch_image_bundle.sh: the images of a release, from the assets of its  *)
(* GitHub release to the tags of the Docker host.                          *)
(*                                                                         *)
(* A release publishes a bill of materials (BOM), which lists the parts of *)
(* one archive per image, or one full archive, some time after its tag.    *)
(* The names of the files do not tell releases apart, their hashes do: a   *)
(* file in BUNDLE_DIR is the release whose hash it has.  The parts of an   *)
(* archive are streamed into `docker load`, each removed when it is read.  *)
(*                                                                         *)
(* `set -e` has no effect left of `||`: a part that cannot be downloaded   *)
(* is left out of the stream, which goes on.                               *)
(***************************************************************************)
EXTENDS Naturals, FiniteSets

CONSTANTS
  Images,        \* the required images
  MaxRelease,    \* bound: releases
  Parts          \* the number of parts each release cuts its archives into

Releases == 1 .. MaxRelease
Missing  == 0

ASSUME BundleAssumption ==
  /\ MaxRelease \in Nat \ {0}
  /\ Parts \in [Releases -> Nat \ {0}]
  /\ {"bom", "full"} \cap Images = {}

VARIABLES
  assets,        \* what SHA256SUMS of each release lists: "bom", "full", both or neither
  checkout,      \* the release of package.json
  disk,          \* the files of BUNDLE_DIR: the release each is of, or Missing
  images,        \* the :latest tags: the release each is of, or Missing
  pc,            \* where the script is; "idle" when it does not run
  want,          \* VERSION
  todo,          \* images that are not done
  comp,          \* the image whose archive is streamed
  part,          \* the part of it
  whole,         \* nothing is missing from the stream so far
  kept           \* history: parts that an earlier run had left

bundleVars == <<assets, checkout, disk, images, pc, want, todo, comp, part, whole, kept>>

\* An archive that is not cut has a name of its own, numbered 0 here.
PartFile(i, v, k) == <<i, IF Parts[v] = 1 THEN 0 ELSE k>>
PartFiles == UNION {{PartFile(i, v, k) : i \in Images, k \in 1 .. Parts[v]} : v \in Releases}
Bom       == <<"bom", 0>>
Full      == <<"full", 0>>
Files     == PartFiles \cup {Bom, Full}

Pcs == {"idle", "poll", "bom", "component", "part", "cat", "load", "check",
        "full", "archive", "inspect", "loaded", "failed"}

BundleTypeOK ==
  /\ assets \in [Releases -> SUBSET {"bom", "full"}]
  /\ checkout \in Releases
  /\ disk \in [Files -> Releases \cup {Missing}]
  /\ images \in [Images -> Releases \cup {Missing}]
  /\ pc \in Pcs
  /\ want \in Releases
  /\ todo \subseteq Images
  /\ comp \in Images
  /\ part \in 1 .. Parts[want]
  /\ whole \in BOOLEAN
  /\ kept \subseteq PartFiles

BundleInit ==
  /\ assets = [v \in Releases |-> {}]
  /\ checkout = 1
  /\ disk = [f \in Files |-> Missing]
  /\ images = [i \in Images |-> Missing]
  /\ pc = "idle" /\ want = 1
  /\ todo = {} /\ comp \in Images /\ part = 1 /\ whole = TRUE
  /\ kept = {}

-----------------------------------------------------------------------------
(* Around the script.                                                      *)

PublishAsset(v) ==
  /\ \E a \in {"bom", "full"} \ assets[v] : assets' = [assets EXCEPT ![v] = @ \cup {a}]
  /\ UNCHANGED <<checkout, disk, images, pc, want, todo, comp, part, whole, kept>>

\* git pull; the ticks of auto-update do so without the operation lock.
Pull ==
  /\ checkout' \in {v \in Releases : v > checkout}
  /\ UNCHANGED <<assets, disk, images, pc, want, todo, comp, part, whole, kept>>

\* `docker system prune -af` removes what no container uses.
Prune(i) ==
  /\ pc = "idle"
  /\ images' = [images EXCEPT ![i] = Missing]
  /\ UNCHANGED <<assets, checkout, disk, pc, want, todo, comp, part, whole, kept>>

-----------------------------------------------------------------------------
(* The script.                                                             *)

Start ==
  /\ pc = "idle" /\ pc' = "poll"
  /\ want' = checkout /\ todo' = Images /\ part' = 1
  /\ kept' = {f \in PartFiles : disk[f] # Missing}
  /\ UNCHANGED <<assets, checkout, disk, images, comp, whole>>

\* Without jq the BOM is passed over for the full archive.
PollFinds ==
  /\ pc = "poll"
  /\ assets[want] # {}
  /\ \E jq \in BOOLEAN :
       pc' = IF jq /\ "bom" \in assets[want] THEN "bom"
             ELSE IF "full" \in assets[want] THEN "full" ELSE "failed"
  /\ UNCHANGED <<assets, checkout, disk, images, want, todo, comp, part, whole, kept>>

\* The deadline has passed, or a command the script needs is missing.
GiveUp ==
  /\ pc = "poll" /\ pc' = "failed"
  /\ UNCHANGED <<assets, checkout, disk, images, want, todo, comp, part, whole, kept>>

\* A file that has the hash is taken as it is; any other goes, and comes back whole
\* or not at all.
download_verified(f) ==
  \E got \in {want, Missing} :
    /\ disk[f] = want => got = want
    /\ disk' = [disk EXCEPT ![f] = got]

\* A BOM for another platform is refused.
load_image_bom ==
  /\ pc = "bom"
  /\ download_verified(Bom)
  /\ pc' \in {"failed"} \cup (IF disk'[Bom] = want THEN {"component"} ELSE {})
  /\ UNCHANGED <<assets, checkout, images, want, todo, comp, part, whole, kept>>

NextComponent(i) ==
  /\ pc = "component" /\ pc' = "part"
  /\ i \in todo
  /\ comp' = i /\ part' = 1 /\ whole' = TRUE
  /\ UNCHANGED <<assets, checkout, disk, images, want, todo, kept>>

DownloadPart ==
  /\ pc = "part" /\ pc' = "cat"
  /\ download_verified(PartFile(comp, want, part))
  /\ UNCHANGED <<assets, checkout, images, want, todo, comp, part, whole, kept>>

CatPart ==
  LET f == PartFile(comp, want, part)
  IN  /\ pc = "cat"
      /\ whole' = (whole /\ disk[f] = want)
      /\ disk' = [disk EXCEPT ![f] = Missing]
      /\ IF part = Parts[want] THEN pc' = "load" /\ UNCHANGED part
                               ELSE pc' = "part" /\ part' = part + 1
      /\ UNCHANGED <<assets, checkout, images, want, todo, comp, kept>>

\* docker load sees the end of the stream.  Of one that is not whole it tags nothing,
\* and need not say so.
DockerLoad ==
  /\ pc = "load"
  /\ \/ whole /\ images' = [images EXCEPT ![comp] = want] /\ pc' = "check"
     \/ ~whole /\ UNCHANGED images /\ pc' = "check"
     \/ UNCHANGED images /\ pc' = "failed"
  /\ UNCHANGED <<assets, checkout, disk, want, todo, comp, part, whole, kept>>

\* MUTANT: the exit codes are all that is looked at.
CheckArchive_skipped ==
  /\ pc = "check"
  /\ todo' = todo \ {comp}
  /\ pc' = IF todo = {comp} THEN "inspect" ELSE "component"
  /\ UNCHANGED <<assets, checkout, disk, images, want, comp, part, whole, kept>>

\* The hash of what was streamed is compared with that of the archive.
CheckArchive ==
  /\ pc = "check"
  /\ IF whole
     THEN /\ todo' = todo \ {comp}
          /\ pc' = IF todo = {comp} THEN "inspect" ELSE "component"
     ELSE pc' = "failed" /\ UNCHANGED todo
  /\ UNCHANGED <<assets, checkout, disk, images, want, comp, part, whole, kept>>

load_legacy_bundle ==
  /\ pc = "full"
  /\ download_verified(Full)
  /\ pc' = IF disk'[Full] = want THEN "archive" ELSE "failed"
  /\ UNCHANGED <<assets, checkout, images, want, todo, comp, part, whole, kept>>

\* docker load of the full archive, image by image, ...
LoadFromArchive(i) ==
  /\ pc = "archive"
  /\ i \in todo
  /\ images' = [images EXCEPT ![i] = want]
  /\ todo' = todo \ {i}
  /\ pc' = IF todo = {i} THEN "inspect" ELSE "archive"
  /\ UNCHANGED <<assets, checkout, disk, want, comp, part, whole, kept>>

\* ... fails half-way.
ArchiveFails ==
  /\ pc = "archive" /\ pc' = "failed"
  /\ UNCHANGED <<assets, checkout, disk, images, want, todo, comp, part, whole, kept>>

\* The required images must be there, of whichever release.
InspectImages ==
  /\ pc = "inspect"
  /\ pc' = IF \A i \in Images : images[i] # Missing THEN "loaded" ELSE "failed"
  /\ UNCHANGED <<assets, checkout, disk, images, want, todo, comp, part, whole, kept>>

Exit ==
  /\ pc \in {"loaded", "failed"} /\ pc' = "idle"
  /\ UNCHANGED <<assets, checkout, disk, images, want, todo, comp, part, whole, kept>>

\* The script is killed; Docker may finish what it was given whole.
Killed ==
  /\ pc # "idle" /\ pc' = "idle"
  /\ \/ UNCHANGED images
     \/ pc = "load" /\ whole /\ images' = [images EXCEPT ![comp] = want]
  /\ UNCHANGED <<assets, checkout, disk, want, todo, comp, part, whole, kept>>

BundleNext ==
  \/ \E v \in Releases : PublishAsset(v)
  \/ Pull
  \/ Start \/ PollFinds \/ GiveUp
  \/ load_image_bom \/ DownloadPart \/ CatPart \/ DockerLoad \/ CheckArchive
  \/ load_legacy_bundle \/ ArchiveFails
  \/ InspectImages \/ Exit \/ Killed
  \/ \E i \in Images : Prune(i) \/ NextComponent(i) \/ LoadFromArchive(i)

BundleSpec == BundleInit /\ [][BundleNext]_bundleVars

-----------------------------------------------------------------------------
(* Properties.                                                             *)

load == IF pc \in {"idle", "loaded", "failed"} THEN pc ELSE "busy"

Promise == INSTANCE ImageLoad

\* The script implements ImageLoad: it reports success only when each image is of the
\* release it was started for, whichever parts failed to arrive, whatever an earlier
\* run of this or another release left in the directory, and whatever docker load said.
KeepsPromise == Promise!LoadSpec

\* Besides what killed runs have left, at most one part is on the disk at any time.
PartsBounded == Cardinality({f \in PartFiles : disk[f] # Missing} \ kept) <= 1
=============================================================================
