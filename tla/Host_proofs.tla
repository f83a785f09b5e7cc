---------------------------- MODULE Host_proofs ----------------------------
(***************************************************************************)
(* What is proved of Host and of its parts, for every value of their       *)
(* constants: fetch_image_bundle.sh implements ImageLoad; a deploy ends    *)
(* with the settings in agreement; the audit log is pruned by the retention*)
(* of the running API; what the operator is told of the containers is true;*)
(* the migration of `.env` settles, however long the file.                 *)
(***************************************************************************)
EXTENDS Host, FiniteSetTheorems, SequenceTheorems, WellFoundedInduction, TLAPS

\* What is not to be done any more is of the release that is loaded, and the image
\* whose stream has ended whole is tagged before its hash is looked at.
DoneIsLoaded ==
  /\ pc \in {"poll", "bom", "full"} => todo = Images
  /\ pc \in {"component", "part", "cat", "load", "check", "archive", "inspect", "loaded"}
       => \A i \in Images \ todo : images[i] = want
  /\ pc = "check" /\ whole => images[comp] = want
  /\ pc \in {"inspect", "loaded"} => todo = {}

BundleInv == BundleTypeOK /\ DoneIsLoaded

\* Every archive has a first part.
LEMMA FirstPart == \A v \in Releases : 1 \in 1 .. Parts[v]
BY BundleAssumption DEF Releases

-----------------------------------------------------------------------------
(* Type correctness.                                                       *)

LEMMA BundleTypeInit == BundleInit => BundleTypeOK
BY BundleAssumption, FirstPart DEF BundleInit, BundleTypeOK, Releases, Pcs, Missing

\* Whatever a download brings, the directory holds files of releases.
LEMMA DownloadType ==
  ASSUME BundleTypeOK, NEW f, download_verified(f)
  PROVE  disk' \in [Files -> Releases \cup {Missing}]
BY DEF BundleTypeOK, download_verified

LEMMA BundleTypeStep == BundleTypeOK /\ [BundleNext]_bundleVars => BundleTypeOK'
<1> SUFFICES ASSUME BundleTypeOK, [BundleNext]_bundleVars PROVE BundleTypeOK'
  OBVIOUS
<1> USE DEF BundleTypeOK
<1>1. CASE \E v \in Releases : PublishAsset(v)
  BY <1>1 DEF PublishAsset
<1>2. CASE Pull
  BY <1>2 DEF Pull
<1>3. CASE \E i \in Images : Prune(i)
  BY <1>3 DEF Prune
<1>4. CASE Start
  BY <1>4, FirstPart DEF Start, Pcs
<1>5. CASE PollFinds \/ GiveUp \/ ArchiveFails \/ InspectImages \/ Exit
  BY <1>5 DEF PollFinds, GiveUp, ArchiveFails, InspectImages, Exit, Pcs
<1>6. CASE load_image_bom
  BY <1>6, DownloadType DEF load_image_bom, Pcs
<1>7. CASE \E i \in Images : NextComponent(i)
  BY <1>7, FirstPart DEF NextComponent, Pcs
<1>8. CASE DownloadPart
  BY <1>8, DownloadType DEF DownloadPart, Pcs
<1>9. CASE CatPart
  <2>1. disk' \in [Files -> Releases \cup {Missing}]
    BY <1>9 DEF CatPart
  <2>2. whole' \in BOOLEAN /\ pc' \in Pcs
    BY <1>9 DEF CatPart, Pcs
  <2>3. part' \in 1 .. Parts[want']
    <3>1. Parts[want] \in Nat /\ part \in 1 .. Parts[want] /\ want' = want
      BY <1>9, BundleAssumption DEF CatPart
    <3>2. CASE part = Parts[want]
      BY <1>9, <3>1, <3>2 DEF CatPart
    <3>3. CASE part # Parts[want]
      <4>1. part' = part + 1
        BY <1>9, <3>3 DEF CatPart
      <4> QED
        BY <3>1, <3>3, <4>1
    <3> QED
      BY <3>2, <3>3
  <2> QED
    BY <1>9, <2>1, <2>2, <2>3 DEF CatPart
<1>10. CASE DockerLoad
  BY <1>10 DEF DockerLoad, Pcs
<1>11. CASE CheckArchive
  BY <1>11 DEF CheckArchive, Pcs
<1>12. CASE load_legacy_bundle
  BY <1>12, DownloadType DEF load_legacy_bundle, Pcs
<1>13. CASE \E i \in Images : LoadFromArchive(i)
  BY <1>13 DEF LoadFromArchive, Pcs
<1>14. CASE Killed
  BY <1>14 DEF Killed, Pcs
<1>15. CASE UNCHANGED bundleVars
  BY <1>15 DEF bundleVars
<1> QED
  BY <1>1, <1>2, <1>3, <1>4, <1>5, <1>6, <1>7, <1>8, <1>9, <1>10, <1>11, <1>12,
     <1>13, <1>14, <1>15 DEF BundleNext

\* The variables of the script keep their types.
THEOREM BundleTypeCorrect == BundleSpec => []BundleTypeOK
<1> QED
  BY BundleTypeInit, BundleTypeStep, PTL DEF BundleSpec

-----------------------------------------------------------------------------
(* The invariant.                                                          *)

LEMMA DoneInit == BundleInit => DoneIsLoaded
BY DEF BundleInit, DoneIsLoaded

LEMMA DoneStep == BundleInv /\ [BundleNext]_bundleVars => DoneIsLoaded'
<1> SUFFICES ASSUME BundleTypeOK, DoneIsLoaded, [BundleNext]_bundleVars PROVE DoneIsLoaded'
  BY DEF BundleInv
<1> USE DEF DoneIsLoaded
<1>1. CASE \E v \in Releases : PublishAsset(v)
  BY <1>1 DEF PublishAsset
<1>2. CASE Pull
  BY <1>2 DEF Pull
<1>3. CASE \E i \in Images : Prune(i)
  BY <1>3 DEF Prune
<1>4. CASE Start
  BY <1>4 DEF Start
<1>5. CASE PollFinds
  BY <1>5 DEF PollFinds
<1>6. CASE GiveUp \/ ArchiveFails \/ Exit
  BY <1>6 DEF GiveUp, ArchiveFails, Exit
<1>7. CASE InspectImages
  BY <1>7 DEF InspectImages
<1>8. CASE load_image_bom
  BY <1>8 DEF load_image_bom
<1>9. CASE \E i \in Images : NextComponent(i)
  BY <1>9 DEF NextComponent
<1>10. CASE DownloadPart
  BY <1>10 DEF DownloadPart
<1>11. CASE CatPart
  BY <1>11 DEF CatPart
<1>12. CASE DockerLoad
  BY <1>12 DEF DockerLoad, BundleTypeOK
<1>13. CASE CheckArchive
  BY <1>13 DEF CheckArchive, BundleTypeOK
<1>14. CASE load_legacy_bundle
  BY <1>14 DEF load_legacy_bundle
<1>15. CASE \E i \in Images : LoadFromArchive(i)
  BY <1>15 DEF LoadFromArchive, BundleTypeOK
<1>16. CASE Killed
  BY <1>16 DEF Killed
<1>17. CASE UNCHANGED bundleVars
  BY <1>17 DEF bundleVars
<1> QED
  BY <1>1, <1>2, <1>3, <1>4, <1>5, <1>6, <1>7, <1>8, <1>9, <1>10, <1>11, <1>12,
     <1>13, <1>14, <1>15, <1>16, <1>17 DEF BundleNext

LEMMA BundleInvariance == BundleSpec => []BundleInv
<1>1. BundleInit => BundleInv
  BY BundleTypeInit, DoneInit DEF BundleInv
<1>2. BundleInv /\ [BundleNext]_bundleVars => BundleInv'
  BY BundleTypeStep, DoneStep DEF BundleInv
<1> QED
  BY <1>1, <1>2, PTL DEF BundleSpec

-----------------------------------------------------------------------------
(* The refinement.                                                         *)

LEMMA InitMaps == BundleInit => Promise!LoadInit
BY BundleAssumption DEF BundleInit, Promise!LoadInit, load, Releases, Missing

LEMMA StepMaps == BundleInv /\ [BundleNext]_bundleVars => [Promise!LoadNext]_(Promise!loadVars)
<1> SUFFICES ASSUME BundleTypeOK, DoneIsLoaded, [BundleNext]_bundleVars
             PROVE  Promise!LoadNext \/ UNCHANGED Promise!loadVars
  BY DEF BundleInv
<1> USE DEF load
<1>1. CASE (\E v \in Releases : PublishAsset(v)) \/ Pull
  BY <1>1 DEF PublishAsset, Pull, Promise!loadVars
<1>2. CASE \E i \in Images : Prune(i)
  BY <1>2 DEF Prune, Promise!LoadNext, Promise!Vanish
<1>3. CASE Start
  BY <1>3 DEF Start, BundleTypeOK, Promise!LoadNext, Promise!Begin
<1>4. CASE PollFinds \/ GiveUp \/ ArchiveFails
  BY <1>4 DEF PollFinds, GiveUp, ArchiveFails, Promise!LoadNext, Promise!Fail, Promise!loadVars
<1>5. CASE load_image_bom \/ load_legacy_bundle
  BY <1>5 DEF load_image_bom, load_legacy_bundle, Promise!LoadNext, Promise!Fail, Promise!loadVars
<1>6. CASE (\E i \in Images : NextComponent(i)) \/ DownloadPart \/ CatPart
  BY <1>6 DEF NextComponent, DownloadPart, CatPart, Promise!loadVars
<1>7. CASE DockerLoad
  BY <1>7 DEF DockerLoad, BundleTypeOK, Promise!LoadNext, Promise!LoadImage, Promise!Fail,
              Promise!loadVars
<1>8. CASE CheckArchive
  BY <1>8 DEF CheckArchive, Promise!LoadNext, Promise!Fail, Promise!loadVars
<1>9. CASE \E i \in Images : LoadFromArchive(i)
  BY <1>9 DEF LoadFromArchive, Promise!LoadNext, Promise!LoadImage
<1>10. CASE InspectImages
  BY <1>10 DEF InspectImages, DoneIsLoaded, Promise!LoadNext, Promise!Succeed, Promise!Fail
<1>11. CASE Exit
  BY <1>11 DEF Exit, Promise!LoadNext, Promise!End
<1>12. CASE Killed
  BY <1>12 DEF Killed, BundleTypeOK, Promise!LoadNext, Promise!End
<1>13. CASE UNCHANGED bundleVars
  BY <1>13 DEF bundleVars, Promise!loadVars
<1> QED
  BY <1>1, <1>2, <1>3, <1>4, <1>5, <1>6, <1>7, <1>8, <1>9, <1>10, <1>11, <1>12, <1>13
     DEF BundleNext

\* For every number of images, releases and parts: the script reports success only
\* when each image is of the release it was started for, and touches images only by
\* moving one at a time to that release.
THEOREM FetchKeepsPromise == BundleSpec => KeepsPromise
<1> QED
  BY InitMaps, StepMaps, BundleInvariance, PTL DEF BundleSpec, KeepsPromise, Promise!LoadSpec

-----------------------------------------------------------------------------
(* The parts on the disk.                                                  *)

\* The parts no earlier run has left.
Fresh == {f \in PartFiles : disk[f] # Missing} \ kept

Current == PartFile(comp, want, part)

\* Only the current part may be there, between its download and its removal; or after
\* a kill in between, until the next run takes stock.
OnlyTheCurrent ==
  /\ Fresh \subseteq {Current}
  /\ pc \notin {"cat", "idle"} => Fresh = {}

LEMMA BomIsNoPart == Bom \notin PartFiles /\ Full \notin PartFiles
BY BundleAssumption DEF PartFiles, PartFile, Bom, Full

\* A download adds at most the file it is for.
LEMMA DownloadAdds ==
  ASSUME NEW f, download_verified(f), BundleTypeOK, kept' = kept
  PROVE  Fresh' \subseteq Fresh \cup {f}
BY DEF download_verified, BundleTypeOK, Fresh

LEMMA OnlyTheCurrentStep ==
  BundleTypeOK /\ OnlyTheCurrent /\ [BundleNext]_bundleVars => OnlyTheCurrent'
<1> SUFFICES ASSUME BundleTypeOK, OnlyTheCurrent, [BundleNext]_bundleVars
             PROVE  OnlyTheCurrent'
  OBVIOUS
<1>1. CASE UNCHANGED <<disk, kept, comp, want, part>> /\ (pc' \in {"cat", "idle"} \/ pc \notin {"cat", "idle"})
  BY <1>1 DEF OnlyTheCurrent, Fresh, Current
<1>2. CASE Start
  <2>1. Fresh' = {}
    BY <1>2 DEF Start, Fresh
  <2> QED
    BY <2>1, <1>2 DEF OnlyTheCurrent
<1>3. CASE load_image_bom \/ load_legacy_bundle
  <2>1. PICK f \in {Bom, Full} : download_verified(f)
    BY <1>3 DEF load_image_bom, load_legacy_bundle
  <2>2. Fresh' \subseteq Fresh \cup {f}
    BY <2>1, <1>3, DownloadAdds DEF load_image_bom, load_legacy_bundle
  <2>3. f \notin Fresh'
    BY <2>1, BomIsNoPart, <1>3 DEF Fresh, PartFiles, load_image_bom, load_legacy_bundle
  <2>4. Fresh = {}
    BY <1>3 DEF OnlyTheCurrent, load_image_bom, load_legacy_bundle
  <2> QED
    BY <2>2, <2>3, <2>4 DEF OnlyTheCurrent
<1>4. CASE \E i \in Images : NextComponent(i)
  <2>1. Fresh' = Fresh /\ Fresh = {}
    BY <1>4 DEF NextComponent, OnlyTheCurrent, Fresh
  <2> QED
    BY <2>1 DEF OnlyTheCurrent
<1>5. CASE DownloadPart
  <2>1. Fresh = {} /\ Current' = Current /\ pc' = "cat"
    BY <1>5 DEF DownloadPart, OnlyTheCurrent, Current
  <2>2. Fresh' \subseteq Fresh \cup {Current}
    BY <1>5, DownloadAdds DEF DownloadPart, Current
  <2> QED
    BY <2>1, <2>2 DEF OnlyTheCurrent
<1>6. CASE CatPart
  <2>1. disk' = [disk EXCEPT ![Current] = Missing] /\ kept' = kept
    BY <1>6 DEF CatPart, Current
  <2>2. Fresh' \subseteq Fresh \ {Current}
    BY <2>1 DEF Fresh, BundleTypeOK, Files
  <2>3. Fresh' = {}
    BY <2>2 DEF OnlyTheCurrent
  <2> QED
    BY <2>3 DEF OnlyTheCurrent
<1> QED
  BY <1>1, <1>2, <1>3, <1>4, <1>5, <1>6
     DEF BundleNext, PublishAsset, Pull, Prune, PollFinds, GiveUp, DockerLoad, CheckArchive,
         LoadFromArchive, ArchiveFails, InspectImages, Exit, Killed, bundleVars

LEMMA OnlyTheCurrentBounds == OnlyTheCurrent => PartsBounded
<1> SUFFICES ASSUME OnlyTheCurrent PROVE Cardinality(Fresh) <= 1
  BY DEF PartsBounded, Fresh
<1>1. IsFiniteSet({Current}) /\ Cardinality({Current}) = 1
  BY FS_Singleton
<1>2. Cardinality(Fresh) <= Cardinality({Current})
  BY <1>1, FS_Subset DEF OnlyTheCurrent
<1> QED
  BY <1>1, <1>2

\* For every number of images, releases and parts: besides what killed runs have left,
\* at most one part is on the disk.
THEOREM PartsBoundedHolds == BundleSpec => []PartsBounded
<1>1. BundleInit => OnlyTheCurrent
  BY DEF BundleInit, OnlyTheCurrent, Fresh, Files
<1> QED
  BY <1>1, BundleTypeInit, BundleTypeStep, OnlyTheCurrentStep, OnlyTheCurrentBounds, PTL DEF BundleSpec

-----------------------------------------------------------------------------
(* Settings: type correctness.                                             *)

Row == [panel : Domains \cup {Absent}, key : Keys \cup {Absent}]

Render == [pc : {"idle", "created", "defaults", "body", "differs", "writing", "written"},
           env : Env \cup {NotUp}, body : Domains \cup {Absent}, alone : BOOLEAN]

LEMMA EnvFields == \A e \in Env : e.panel \in Domains /\ e.key \in Keys
BY DEF Domains, Keys

LEMMA EnsureType ==
  ASSUME row \in Row, NEW e \in Env
  PROVE  ensureDefaults(e) \in Row /\ ensureDefaults(e).panel = e.panel
BY EnvFields DEF ensureDefaults, Row

LEMMA ClicksDieType ==
  ASSUME renders \in [Renderers -> Render]
  PROVE  /\ ClicksDie \in [Renderers -> Render]
         /\ \A r \in Renderers \ Clicks : ClicksDie[r] = renders[r]
BY DEF ClicksDie, Idle, Render

LEMMA HasFileType == HasFile \in Render /\ HasFile.pc = "written"
BY DEF HasFile, Idle, Render

LEMMA TouchedType ==
  ASSUME renders \in [Renderers -> Render], NEW r \in Renderers, NEW x \in Render
  PROVE  /\ Touched(r, x) \in [Renderers -> Render]
         /\ Touched(r, x)[r] = x
         /\ \A s \in Renderers \ {r} : /\ Touched(r, x)[s].pc = renders[s].pc
                                     /\ Touched(r, x)[s].body = renders[s].body
                                     /\ Touched(r, x)[s].env = renders[s].env
<1>1. ASSUME NEW s \in Renderers, s # r
      PROVE  /\ Touched(r, x)[s] \in Render
             /\ Touched(r, x)[s].pc = renders[s].pc /\ Touched(r, x)[s].body = renders[s].body
             /\ Touched(r, x)[s].env = renders[s].env
  <2>1. PICK b \in BOOLEAN : b = (renders[s].pc \notin {"differs", "writing"})
    OBVIOUS
  <2>2. PICK y : y = [renders[s] EXCEPT !.alone = b]
    OBVIOUS
  <2>3. y \in Render /\ y.pc = renders[s].pc /\ y.body = renders[s].body /\ y.env = renders[s].env
    BY <2>1, <2>2 DEF Render
  <2>4. Touched(r, x)[s] = y
    BY <1>1, <2>1, <2>2 DEF Touched
  <2> QED
    BY <2>3, <2>4
<1>2. Touched(r, x)[r] = x
  BY DEF Touched
<1>3. Touched(r, x) = [s \in Renderers |-> Touched(r, x)[s]]
  BY DEF Touched
<1> QED
  BY <1>1, <1>2, <1>3

\* A render that begins to write.
LEMMA WritingType ==
  ASSUME renders \in [Renderers -> Render], NEW r \in Renderers
  PROVE  LET x == [renders[r] EXCEPT !.pc = "writing"] IN
         /\ x \in Render /\ x.pc = "writing"
         /\ x.body = renders[r].body /\ x.env = renders[r].env /\ x.alone = renders[r].alone
BY DEF Render

LEMMA SettingsTypeInit == SettingsInit => SettingsTypeOK
<1> SUFFICES ASSUME SettingsInit PROVE SettingsTypeOK
  OBVIOUS
<1>1. Idle \in Render
  BY DEF Idle, Render
<1>2. renders \in [Renderers -> Render]
  BY <1>1 DEF SettingsInit
<1> QED
  BY <1>2 DEF SettingsInit, SettingsTypeOK, Render

LEMMA SettingsTypeStep == SettingsTypeOK /\ [SettingsNext]_settingsVars => SettingsTypeOK'
<1> SUFFICES ASSUME SettingsTypeOK, [SettingsNext]_settingsVars PROVE SettingsTypeOK'
  OBVIOUS
<1>0. /\ env \in Env /\ apiEnv \in Env \cup {NotUp} /\ row \in Row /\ singbox \in Keys \cup {Absent}
      /\ caddyfile \in Domains \cup {Absent, Torn} /\ caddy \in Domains \cup {Down}
      /\ renders \in [Renderers -> Render] /\ script \in {"none", "install", "update"}
      /\ deploy \in {"idle", "caddyfile", "singbox", "up", "reload", "done"}
      /\ keptCaddy \in BOOLEAN /\ disturbed \in BOOLEAN
  BY DEF SettingsTypeOK, Row, Render
<1>1. (/\ env' \in Env /\ apiEnv' \in Env \cup {NotUp} /\ row' \in Row
       /\ singbox' \in Keys \cup {Absent}
       /\ caddyfile' \in Domains \cup {Absent, Torn} /\ caddy' \in Domains \cup {Down}
       /\ renders' \in [Renderers -> Render] /\ script' \in {"none", "install", "update"}
       /\ deploy' \in {"idle", "caddyfile", "singbox", "up", "reload", "done"}
       /\ keptCaddy' \in BOOLEAN /\ disturbed' \in BOOLEAN) => SettingsTypeOK'
  BY DEF SettingsTypeOK, Row, Render
<1>2. Loaded(caddyfile) \in Domains \cup {Down}
  BY DEF Loaded
<1>3. Deployer \in Renderers
  BY DEF Renderers
<1>4. CASE EditEnv
  BY <1>0, <1>1, <1>4 DEF EditEnv, Disturb
<1>5. CASE updateSettings
  <2>1. PICK d \in Domains : row' = [row EXCEPT !.panel = d]
    BY <1>5 DEF updateSettings
  <2>2. row' \in Row
    BY <1>0, <2>1 DEF Row
  <2> QED
    BY <1>0, <1>1, <1>5, <2>2 DEF updateSettings, Disturb
<1>6. CASE AdminCommand
  BY <1>0, <1>1, <1>6, EnsureType DEF AdminCommand
<1>7. CASE Doctor
  BY <1>0, <1>1, <1>7, EnsureType DEF Doctor, Disturb
<1>8. CASE ApiRestarts
  BY <1>0, <1>1, <1>8, EnsureType, ClicksDieType DEF ApiRestarts, Disturb
<1>9. CASE ApiRendersSingbox
  BY <1>0, <1>1, <1>9, EnvFields DEF ApiRendersSingbox, Disturb
<1>10. ASSUME NEW r \in Renderers, OpenStore(r) \/ RenderSingbox(r)
       PROVE  SettingsTypeOK'
  <2>1. renders[r].env \in Env \cup {NotUp} /\ Idle \in Render
    BY <1>0 DEF Render, Idle
  <2>2. PICK e \in Env \cup {NotUp} : e = renders[r].env
    BY <2>1
  <2>3. e.panel \in Domains \cup {Absent} /\ e.key \in Keys \cup {Absent}
    BY EnvFields DEF NotUp
  <2>4. ensureDefaults(e) \in Row
    BY <1>0, <2>3 DEF ensureDefaults, Row
  <2>5. renders' \in [Renderers -> Render]
    BY <1>0, <1>10, <2>1 DEF OpenStore, RenderSingbox, Render
  <2>6. CASE OpenStore(r)
    BY <1>0, <1>1, <2>2, <2>4, <2>5, <2>6 DEF OpenStore, Disturb
  <2>7. CASE RenderSingbox(r)
    BY <1>0, <1>1, <2>2, <2>3, <2>5, <2>7 DEF RenderSingbox, Disturb
  <2> QED
    BY <1>10, <2>6, <2>7
<1>11. CASE CaddyRestarts
  BY <1>0, <1>1, <1>2, <1>11 DEF CaddyRestarts, NewCaddy
<1>12. ASSUME NEW r \in Commands \cup {Deployer}, renderScript(r)
       PROVE  SettingsTypeOK'
  <2>1. r \in Renderers
    BY DEF Renderers
  <2>2. PICK e \in Env : e = env
    BY <1>0
  <2>3. PICK x : x = [renders[r] EXCEPT !.pc = "created", !.env = e]
    OBVIOUS
  <2>4. x \in Render
    BY <1>0, <2>1, <2>3 DEF Render
  <2>5. renders' = [renders EXCEPT ![r] = x]
    BY <1>0, <1>12, <2>1, <2>2, <2>3 DEF renderScript, Render
  <2>6. renders' \in [Renderers -> Render]
    BY <1>0, <2>4, <2>5
  <2> QED
    BY <1>0, <1>1, <1>12, <2>6 DEF renderScript, copies
<1>13. ASSUME NEW r \in Renderers, ReadSettings(r)
       PROVE  SettingsTypeOK'
  <2>1. row.panel \in Domains \cup {Absent}
    BY <1>0 DEF Row
  <2>2. PICK n \in {NotUp} : n = NotUp
    OBVIOUS
  <2>3. renders' = [renders EXCEPT ![r] = [@ EXCEPT !.pc = "body", !.body = row.panel, !.env = n]]
    BY <1>0, <1>13, <2>2 DEF ReadSettings, Render
  <2>4. [renders[r] EXCEPT !.pc = "body", !.body = row.panel, !.env = n] \in Render
    BY <1>0, <2>1, <2>2 DEF Render
  <2>5. renders' \in [Renderers -> Render]
    BY <1>0, <2>3, <2>4
  <2> QED
    BY <1>0, <1>1, <1>13, <2>5 DEF ReadSettings, copies
<1>14. ASSUME NEW r \in Renderers, CompareFile(r)
       PROVE  SettingsTypeOK'
  <2>1. [renders[r] EXCEPT !.pc = "differs", !.alone = TRUE] \in Render
    BY <1>0 DEF Render
  <2>2. renders' \in [Renderers -> Render]
    BY <1>0, <1>14, <2>1, HasFileType DEF CompareFile
  <2> QED
    BY <1>0, <1>1, <1>14, <2>2 DEF CompareFile, copies
<1>15. ASSUME NEW r \in Renderers, BeginWrite(r)
       PROVE  SettingsTypeOK'
  BY <1>0, <1>1, <1>15, TouchedType, WritingType DEF BeginWrite, Disturb
<1>16. ASSUME NEW r \in Renderers, EndWrite(r)
       PROVE  SettingsTypeOK'
  <2>1. renders[r].body \in Domains \cup {Absent}
    BY <1>0 DEF Render
  <2> QED
    BY <1>0, <1>1, <1>16, <2>1, TouchedType, HasFileType DEF EndWrite, Disturb
<1>17. Idle \in Render
  BY DEF Idle, Render
<1>18. ASSUME NEW r \in Renderers, Report(r) \/ CommandDies(r)
       PROVE  SettingsTypeOK'
  BY <1>0, <1>1, <1>17, <1>18 DEF Report, CommandDies, copies
<1>19. CASE migrateSqlite
  BY <1>0, <1>1, <1>19, EnsureType DEF migrateSqlite
<1>20. CASE startStack
  <2>1. /\ apiEnv' \in Env \cup {NotUp} /\ row' \in Row /\ renders' \in [Renderers -> Render]
    BY <1>0, <1>20, EnsureType, ClicksDieType DEF startStack, NewApi
  <2>2. caddy' \in Domains \cup {Down} /\ keptCaddy' \in BOOLEAN
    BY <1>0, <1>2, <1>20 DEF startStack, NewCaddy
  <2> QED
    BY <1>0, <1>1, <1>20, <2>1, <2>2 DEF startStack
<1>21. CASE Recreate
  BY <1>0, <1>1, <1>2, <1>21, EnsureType, ClicksDieType DEF Recreate, NewApi, NewCaddy
<1>22. CASE ReloadCaddy
  BY <1>0, <1>1, <1>22 DEF ReloadCaddy
<1>23. CASE DeployDies
  BY <1>0, <1>1, <1>3, <1>17, <1>23 DEF DeployDies, copies
<1>24. CASE UNCHANGED settingsVars
  BY <1>0, <1>1, <1>24 DEF settingsVars
<1>25. Commands \subseteq Renderers
  BY DEF Renderers
<1> QED
  BY <1>1, <1>4, <1>5, <1>6, <1>7, <1>8, <1>9, <1>10, <1>11, <1>12, <1>13, <1>14, <1>15, <1>16,
     <1>18, <1>19, <1>20, <1>21, <1>22, <1>23, <1>24, <1>25 DEF SettingsNext

\* Type correctness of the five copies of the settings, the renders under way
\* and the deploy.
THEOREM SettingsTypeCorrect == SettingsSpec => []SettingsTypeOK
BY SettingsTypeInit, SettingsTypeStep, PTL DEF SettingsSpec

-----------------------------------------------------------------------------
(* Settings: a deploy agrees.                                              *)

\* The deploy renders the Caddyfile and singbox.json, in containers of its own, at
\* its second and third step only; only an update reloads Caddy.
DeployRenders ==
  /\ renders[Deployer].pc # "idle" => deploy \in {"caddyfile", "singbox"}
  /\ deploy = "singbox" => renders[Deployer].pc \in {"idle", "created", "defaults"}
  /\ deploy = "reload" => script = "update"

\* What the deploy has brought into agreement so far stays so, as long as nothing
\* interferes: first the domain its own render has in hand, with no other writer
\* since it compared the file, then the file, the key and the environment of the
\* API with the row, and Caddy in the end.  The container of a render has the
\* environment of `.env`; an API that an install need not replace has it as well,
\* and then the row has its domain from the last render on.
SoFar ==
  /\ renders[Deployer].pc \in {"created", "defaults"} => renders[Deployer].env = env
  /\ renders[Deployer].pc = "defaults" /\ deploy = "caddyfile" => row.panel = env.panel
  /\ renders[Deployer].pc \in {"body", "differs", "writing"}
       => renders[Deployer].body = env.panel
  /\ renders[Deployer].pc \in {"differs", "writing"} => renders[Deployer].alone
  /\ renders[Deployer].pc = "written" \/ deploy \in {"singbox", "up", "reload", "done"}
       => caddyfile = env.panel
  /\ script = "install" /\ apiEnv = env /\ (deploy = "up" \/ renders[Deployer].pc = "defaults")
       => row.panel = env.panel
  /\ deploy \in {"up", "reload", "done"} => singbox = env.key
  /\ deploy \in {"reload", "done"} => apiEnv = env /\ row.panel = env.panel
  /\ deploy = "done" => caddy = env.panel \/ keptCaddy

SettingsInv == SettingsTypeOK /\ DeployRenders /\ (~disturbed => SoFar)

LEMMA DeployerApart == Deployer \in Renderers /\ Deployer \notin Clicks \cup Commands
BY SettingsAssumption DEF Renderers

LEMMA SettingsInvInit == SettingsInit => SettingsInv
BY SettingsTypeInit, DeployerApart DEF SettingsInit, SettingsInv, DeployRenders, Idle

LEMMA LoadedDomain == ASSUME NEW d \in Domains PROVE Loaded(d) = d
BY DEF Loaded

\* The deploy's own render.
LEMMA DeployerStep ==
  ASSUME SettingsInv,
         \/ renderScript(Deployer)
         \/ OpenStore(Deployer)
         \/ RenderSingbox(Deployer)
         \/ ReadSettings(Deployer)
         \/ CompareFile(Deployer)
         \/ BeginWrite(Deployer)
         \/ EndWrite(Deployer)
         \/ Report(Deployer)
  PROVE  DeployRenders' /\ (~disturbed' => SoFar')
<1>0. /\ env \in Env /\ row \in Row /\ renders \in [Renderers -> Render]
      /\ renders[Deployer] \in Render /\ Deployer \in Renderers /\ Deployer \notin Clicks
      /\ DeployRenders /\ (~disturbed => SoFar)
      /\ disturbed \in BOOLEAN
  BY DeployerApart DEF SettingsInv, SettingsTypeOK, Row, Render
<1>1. CASE renderScript(Deployer)
  <2>1. /\ renders[Deployer].pc = "idle"
        /\ renders'[Deployer].pc = "created" /\ renders'[Deployer].env = env
        /\ deploy \in {"caddyfile", "singbox"}
    BY <1>0, <1>1 DEF renderScript, Render
  <2> QED
    BY <1>0, <1>1, <2>1 DEF renderScript, copies, DeployRenders, SoFar
<1>2. CASE OpenStore(Deployer)
  <2>1. /\ renders[Deployer].pc = "created"
        /\ renders'[Deployer].pc = "defaults" /\ renders'[Deployer].env = renders[Deployer].env
        /\ row' = ensureDefaults(renders[Deployer].env)
        /\ UNCHANGED <<env, apiEnv, singbox, caddyfile, caddy, script, deploy, keptCaddy>>
    BY <1>0, <1>2 DEF OpenStore, Render
  <2>2. ~disturbed' => ~disturbed
    BY <1>2 DEF OpenStore, Disturb
  <2>3. ~disturbed' => row'.panel = env.panel
    BY <1>0, <2>1, <2>2, EnsureType DEF SoFar
  <2> QED
    BY <1>0, <2>1, <2>2, <2>3 DEF DeployRenders, SoFar
<1>3. CASE RenderSingbox(Deployer)
  <2>1. /\ renders[Deployer].pc = "defaults" /\ deploy = "singbox" /\ deploy' = "up"
        /\ renders'[Deployer].pc = "idle" /\ singbox' = renders[Deployer].env.key
        /\ UNCHANGED <<env, apiEnv, row, caddyfile, caddy, script, keptCaddy, disturbed>>
    BY <1>0, <1>3 DEF RenderSingbox, Idle, Disturb
  <2> QED
    BY <1>0, <2>1 DEF DeployRenders, SoFar
<1>4. CASE ReadSettings(Deployer)
  <2>1. /\ renders[Deployer].pc = "defaults" /\ deploy = "caddyfile"
        /\ renders'[Deployer].pc = "body" /\ renders'[Deployer].body = row.panel
        /\ UNCHANGED <<copies, script, deploy, keptCaddy, disturbed>>
    BY <1>0, <1>4 DEF ReadSettings, Render
  <2> QED
    BY <1>0, <2>1 DEF copies, DeployRenders, SoFar
<1>5. CASE CompareFile(Deployer)
  <2>1. CASE caddyfile = renders[Deployer].body
    <3>1. renders'[Deployer].pc = "written"
      BY <1>0, <1>5, <2>1, HasFileType DEF CompareFile
    <3> QED
      BY <1>0, <1>5, <2>1, <3>1 DEF CompareFile, copies, DeployRenders, SoFar
  <2>2. CASE caddyfile # renders[Deployer].body
    <3>1. /\ renders'[Deployer].pc = "differs" /\ renders'[Deployer].alone = TRUE
          /\ renders'[Deployer].body = renders[Deployer].body
      BY <1>0, <1>5, <2>2 DEF CompareFile, Render
    <3> QED
      BY <1>0, <1>5, <3>1 DEF CompareFile, copies, DeployRenders, SoFar
  <2> QED
    BY <2>1, <2>2
<1>6. CASE BeginWrite(Deployer)
  <2>1. PICK x : x = [renders[Deployer] EXCEPT !.pc = "writing"]
    OBVIOUS
  <2>2. /\ x \in Render /\ x.pc = "writing" /\ x.body = renders[Deployer].body
        /\ x.alone = renders[Deployer].alone
    BY <1>0, <2>1, WritingType
  <2>3. renders'[Deployer] = x
    BY <1>0, <1>6, <2>1, <2>2, TouchedType DEF BeginWrite
  <2>4. /\ renders[Deployer].pc = "differs" /\ disturbed' = disturbed
        /\ UNCHANGED <<env, apiEnv, row, singbox, caddy, script, deploy, keptCaddy>>
    BY <1>0, <1>6 DEF BeginWrite, Disturb
  <2> QED
    BY <1>0, <2>2, <2>3, <2>4 DEF DeployRenders, SoFar
<1>7. CASE EndWrite(Deployer)
  BY <1>0, <1>7, TouchedType, HasFileType DEF EndWrite, DeployRenders, SoFar, Disturb
<1>8. CASE Report(Deployer)
  <2>1. renders'[Deployer].pc = "idle" /\ deploy' = "singbox"
    BY <1>0, <1>8 DEF Report, Idle
  <2> QED
    BY <1>0, <1>8, <2>1 DEF Report, copies, DeployRenders, SoFar
<1> QED
  BY <1>1, <1>2, <1>3, <1>4, <1>5, <1>6, <1>7, <1>8

\* A render by another leaves the deploy's alone, or interferes.
LEMMA OtherRenderStep ==
  ASSUME SettingsInv, NEW r \in Renderers, r # Deployer,
         \/ renderScript(r)
         \/ OpenStore(r)
         \/ RenderSingbox(r)
         \/ ReadSettings(r)
         \/ CompareFile(r)
         \/ BeginWrite(r)
         \/ EndWrite(r)
         \/ Report(r)
         \/ CommandDies(r)
  PROVE  DeployRenders' /\ (~disturbed' => SoFar')
<1>0. /\ env \in Env /\ row \in Row /\ renders \in [Renderers -> Render]
      /\ Deployer \in Renderers /\ DeployRenders /\ (~disturbed => SoFar)
      /\ deploy \in {"idle", "caddyfile", "singbox", "up", "reload", "done"}
      /\ disturbed \in BOOLEAN
  BY DeployerApart DEF SettingsInv, SettingsTypeOK, Row, Render
<1>1. CASE OpenStore(r)
  <2>1. /\ renders'[Deployer] = renders[Deployer]
        /\ UNCHANGED <<env, apiEnv, singbox, caddyfile, caddy, script, deploy, keptCaddy>>
    BY <1>0, <1>1 DEF OpenStore
  <2>2. ~disturbed' => ~disturbed /\ ~RowMoved
    BY <1>0, <1>1 DEF OpenStore, Disturb
  <2> QED
    BY <1>0, <2>1, <2>2 DEF DeployRenders, SoFar, RowMoved
<1>2. CASE RenderSingbox(r)
  <2>1. /\ renders'[Deployer] = renders[Deployer]
        /\ UNCHANGED <<env, apiEnv, row, caddyfile, caddy, script, deploy, keptCaddy>>
    BY <1>0, <1>2 DEF RenderSingbox
  <2>2. ~disturbed' => ~disturbed /\ (deploy \in {"up", "reload", "done"} => singbox' = env.key)
    BY <1>0, <1>2 DEF RenderSingbox, Disturb
  <2> QED
    BY <1>0, <2>1, <2>2 DEF DeployRenders, SoFar
<1>3. CASE renderScript(r) \/ ReadSettings(r) \/ CompareFile(r) \/ CommandDies(r)
  <2>1. renders'[Deployer] = renders[Deployer] /\ UNCHANGED <<copies, script, deploy, keptCaddy, disturbed>>
    BY <1>0, <1>3 DEF renderScript, ReadSettings, CompareFile, CommandDies
  <2> QED
    BY <1>0, <2>1 DEF copies, DeployRenders, SoFar
<1>4. CASE Report(r)
  <2>1. /\ renders'[Deployer] = renders[Deployer]
        /\ UNCHANGED <<copies, script, deploy, keptCaddy, disturbed>>
    BY <1>0, <1>4 DEF Report
  <2> QED
    BY <1>0, <2>1 DEF copies, DeployRenders, SoFar
<1>5. CASE BeginWrite(r) \/ EndWrite(r)
  <2>1. /\ renders'[Deployer].pc = renders[Deployer].pc
        /\ renders'[Deployer].body = renders[Deployer].body
        /\ renders'[Deployer].env = renders[Deployer].env
        /\ UNCHANGED <<env, apiEnv, row, singbox, caddy, script, deploy, keptCaddy>>
    <3>1. CASE BeginWrite(r)
      <4>1. PICK x : x = [renders[r] EXCEPT !.pc = "writing"]
        OBVIOUS
      <4>2. x \in Render
        BY <1>0, <4>1, WritingType
      <4> QED
        BY <1>0, <3>1, <4>1, <4>2, TouchedType DEF BeginWrite
    <3>2. CASE EndWrite(r)
      BY <1>0, <3>2, TouchedType, HasFileType DEF EndWrite
    <3> QED
      BY <1>5, <3>1, <3>2
  <2>2. disturbed' = (disturbed \/ DeployCompared)
    BY <1>5 DEF BeginWrite, EndWrite, Disturb
  <2>3. ~disturbed' => ~disturbed /\ ~DeployCompared
    BY <1>0, <2>2
  <2> QED
    BY <1>0, <2>1, <2>3 DEF DeployRenders, SoFar, DeployCompared
<1> QED
  BY <1>1, <1>2, <1>3, <1>4, <1>5

LEMMA SettingsInvStep == SettingsInv /\ [SettingsNext]_settingsVars => SettingsInv'
<1> SUFFICES ASSUME SettingsInv, [SettingsNext]_settingsVars
             PROVE  DeployRenders' /\ (~disturbed' => SoFar')
  BY SettingsTypeStep DEF SettingsInv
<1>0. /\ env \in Env /\ apiEnv \in Env \cup {NotUp} /\ row \in Row /\ renders \in [Renderers -> Render]
      /\ Deployer \in Renderers /\ Deployer \notin Clicks
      /\ DeployRenders /\ (~disturbed => SoFar)
      /\ script \in {"none", "install", "update"} /\ disturbed \in BOOLEAN
      /\ env.panel \in Domains
  BY DeployerApart, EnvFields DEF SettingsInv, SettingsTypeOK, Row, Render
<1> USE DEF DeployRenders, SoFar
<1>1. CASE EditEnv
  <2>1. ~disturbed' => ~disturbed /\ deploy = "idle"
    BY <1>0, <1>1 DEF EditEnv, Disturb
  <2>2. UNCHANGED <<apiEnv, row, singbox, caddyfile, caddy, renders, script, deploy, keptCaddy>>
    BY <1>1 DEF EditEnv
  <2>3. ~disturbed' => renders[Deployer].pc = "idle"
    BY <1>0, <2>1
  <2> QED
    BY <1>0, <2>1, <2>2, <2>3
<1>2. CASE updateSettings
  <2>1. ~disturbed' => ~disturbed /\ ~RowMoved
    BY <1>0, <1>2 DEF updateSettings, Disturb
  <2> QED
    BY <1>0, <1>2, <2>1 DEF updateSettings, RowMoved
<1>3. CASE AdminCommand
  BY <1>0, <1>3, EnsureType DEF AdminCommand
<1>4. CASE Doctor
  <2>1. ~disturbed' => ~disturbed /\ ~RowMoved
    BY <1>0, <1>4 DEF Doctor, Disturb
  <2> QED
    BY <1>0, <1>4, <2>1 DEF Doctor, RowMoved
<1>5. CASE ApiRestarts
  <2>1. ~disturbed' => ~disturbed /\ ~RowMoved
    BY <1>0, <1>5 DEF ApiRestarts, Disturb
  <2>2. renders'[Deployer] = renders[Deployer]
    BY <1>0, <1>5, ClicksDieType DEF ApiRestarts
  <2> QED
    BY <1>0, <1>5, <2>1, <2>2 DEF ApiRestarts, RowMoved
<1>6. CASE ApiRendersSingbox
  <2>1. ~disturbed' => ~disturbed /\ (deploy = "up" => apiEnv.key = env.key)
    BY <1>0, <1>6 DEF ApiRendersSingbox, Disturb
  <2> QED
    BY <1>0, <1>6, <2>1 DEF ApiRendersSingbox
<1>7. CASE CaddyRestarts
  BY <1>0, <1>7, LoadedDomain DEF CaddyRestarts, NewCaddy
<1>8. CASE \E r \in Commands \cup {Deployer} : renderScript(r)
  BY <1>8, DeployerStep, OtherRenderStep DEF Renderers
<1>9. CASE \E r \in Renderers :
              \/ OpenStore(r) \/ RenderSingbox(r) \/ ReadSettings(r)
              \/ CompareFile(r) \/ BeginWrite(r) \/ EndWrite(r) \/ Report(r)
  BY <1>9, DeployerStep, OtherRenderStep
<1>10. CASE \E r \in Commands : CommandDies(r)
  BY <1>10, OtherRenderStep, DeployerApart DEF Renderers
<1>11. CASE migrateSqlite
  BY <1>0, <1>11 DEF migrateSqlite
<1>12. CASE startStack
  <2>1. renders'[Deployer] = renders[Deployer] /\ renders[Deployer].pc = "idle"
    BY <1>0, <1>12, ClicksDieType DEF startStack, NewApi
  <2>2. ~disturbed => apiEnv' = env /\ row'.panel = env.panel
    BY <1>0, <1>12, EnsureType DEF startStack, NewApi
  <2>3. ~disturbed => caddy' = env.panel \/ keptCaddy'
    BY <1>0, <1>12, LoadedDomain DEF startStack, NewCaddy
  <2> QED
    BY <1>0, <1>12, <2>1, <2>2, <2>3 DEF startStack
<1>13. CASE Recreate
  <2>1. renders'[Deployer] = renders[Deployer]
    BY <1>0, <1>13, ClicksDieType DEF Recreate, NewApi
  <2>2. ~disturbed => caddy' = env.panel
    BY <1>0, <1>13, LoadedDomain DEF Recreate, NewCaddy
  <2> QED
    BY <1>0, <1>13, <2>1, <2>2, EnsureType DEF Recreate, NewApi
<1>14. CASE ReloadCaddy
  BY <1>0, <1>14 DEF ReloadCaddy
<1>15. CASE DeployDies
  BY <1>0, <1>15 DEF DeployDies, Idle, copies
<1>16. CASE UNCHANGED settingsVars
  BY <1>0, <1>16 DEF settingsVars
<1> QED
  BY <1>1, <1>2, <1>3, <1>4, <1>5, <1>6, <1>7, <1>8, <1>9, <1>10, <1>11, <1>12, <1>13, <1>14,
     <1>15, <1>16 DEF SettingsNext

\* An install or update that nothing interfered with leaves `.env`, the API, the
\* row, the Caddyfile and singbox.json in agreement, however many renders, doctors
\* and restarts there were meanwhile; and Caddy too, unless it was an install
\* that left a running Caddy as it was and that has not restarted since.
THEOREM DeployAgreesHolds == SettingsSpec => []DeployAgrees
<1>1. SettingsInv => DeployAgrees
  BY DEF SettingsInv, SettingsTypeOK, SoFar, DeployAgrees
<1> QED
  BY <1>1, SettingsInvInit, SettingsInvStep, PTL DEF SettingsSpec

-----------------------------------------------------------------------------
(* Retention.                                                              *)

\* Once the running API has registered its schedule, and as long as Redis keeps it,
\* the only job is that of its retention.
JobIsConfigured == ~scheduling /\ ~reverted /\ days > 0 => jobs = {days}

RetentionInv == RetentionTypeOK /\ (scheduling => days > 0) /\ JobIsConfigured

LEMMA MinOfTwo ==
  ASSUME NEW a \in Nat, NEW b \in Nat
  PROVE  Min({a, b}) = IF a <= b THEN a ELSE b
<1>1. PICK m : m = IF a <= b THEN a ELSE b
  OBVIOUS
<1>2. m \in {a, b} /\ \A y \in {a, b} : m <= y
  BY <1>1
<1>3. Min({a, b}) \in {a, b} /\ \A y \in {a, b} : Min({a, b}) <= y
  BY <1>2 DEF Min
<1> QED
  BY <1>1, <1>3

LEMMA RetentionInvInit == RetentionInit => RetentionInv
<1> SUFFICES ASSUME RetentionInit PROVE RetentionInv
  OBVIOUS
<1>1. days \in Days /\ days \in Nat /\ jobs = {} /\ saved = {} /\ reverted = FALSE /\ oldest = 0
  BY RetentionAssumption DEF RetentionInit
<1>2. scheduling \in BOOLEAN
  BY <1>1 DEF RetentionInit
<1>3. scheduling <=> days > 0
  BY <1>1, <1>2 DEF RetentionInit
<1>4. RetentionTypeOK
  <2>1. oldest \in 0..MaxAge /\ jobs \subseteq Days \ {0} /\ saved \subseteq Days \ {0}
    BY <1>1, RetentionAssumption
  <2>2. reverted \in BOOLEAN
    BY <1>1
  <2> QED
    BY <1>1, <1>2, <2>1, <2>2 DEF RetentionTypeOK
<1>5. JobIsConfigured
  BY <1>3 DEF JobIsConfigured
<1> QED
  BY <1>3, <1>4, <1>5 DEF RetentionInv

LEMMA RetentionInvStep == RetentionInv /\ [RetentionNext]_retentionVars => RetentionInv'
<1> SUFFICES ASSUME RetentionInv, [RetentionNext]_retentionVars PROVE RetentionInv'
  OBVIOUS
<1> USE RetentionAssumption DEF RetentionInv, RetentionTypeOK, JobIsConfigured
<1>1. CASE ApiStarts
  <2>1. PICK d \in Days : days' = d /\ scheduling' = (d > 0)
    BY <1>1 DEF ApiStarts
  <2>2. scheduling' \in BOOLEAN
    BY <2>1
  <2>3. scheduling' <=> d > 0
    BY <2>1, <2>2
  <2>4. days' = d /\ UNCHANGED <<jobs, saved, oldest>> /\ reverted' = FALSE
    BY <1>1, <2>1 DEF ApiStarts
  <2> QED
    BY <2>2, <2>3, <2>4
<1>2. CASE scheduleDefaultJobs
  <2>1. scheduling /\ days \in Days \ {0} /\ jobs' = {days}
    BY <1>2 DEF scheduleDefaultJobs, enqueueRepeatable
  <2> QED
    BY <1>2, <2>1 DEF scheduleDefaultJobs
<1>3. CASE runAuditRetention
  <2>1. PICK d \in jobs : d > 0 /\ oldest' = Min({oldest, d}) /\ UNCHANGED <<days, scheduling, jobs, saved, reverted>>
    BY <1>3 DEF runAuditRetention
  <2>2. oldest' \in 0..MaxAge
    BY <2>1, MinOfTwo
  <2> QED
    BY <2>1, <2>2
<1>4. CASE Midnight
  <2>1. oldest' \in 0..MaxAge
    BY <1>4, MinOfTwo DEF Midnight
  <2> QED
    BY <1>4, <2>1 DEF Midnight
<1>5. CASE RedisSaves
  BY <1>5 DEF RedisSaves
<1>6. CASE RedisRestarts
  BY <1>6 DEF RedisRestarts
<1>7. CASE UNCHANGED retentionVars
  BY <1>7 DEF retentionVars
<1> QED
  BY <1>1, <1>2, <1>3, <1>4, <1>5, <1>6, <1>7 DEF RetentionNext

\* The nightly job deletes what the running API's retention lets go and no more,
\* except before that API has registered its schedule, after Redis lost it, and
\* with a retention of 0.
THEOREM PruneFollowsConfigHolds == RetentionSpec => PruneFollowsConfig
<1>1. ASSUME RetentionInv, [RetentionNext]_retentionVars
      PROVE  [oldest' < oldest => oldest' = days \/ scheduling \/ reverted \/ days = 0]_retentionVars
  <2> USE RetentionAssumption DEF RetentionInv, RetentionTypeOK, JobIsConfigured
  <2>1. CASE runAuditRetention
    <3>1. PICK d \in jobs : d > 0 /\ oldest' = Min({oldest, d})
      BY <2>1 DEF runAuditRetention
    <3>2. oldest' < oldest => oldest' = d
      BY <1>1, <3>1, MinOfTwo
    <3> QED
      BY <1>1, <3>1, <3>2
  <2>2. CASE Midnight
    <3>1. ~(oldest' < oldest)
      BY <1>1, <2>2, MinOfTwo DEF Midnight
    <3> QED
      BY <3>1
  <2>3. CASE ApiStarts \/ scheduleDefaultJobs \/ RedisSaves \/ RedisRestarts
    BY <1>1, <2>3 DEF ApiStarts, scheduleDefaultJobs, RedisSaves, RedisRestarts
  <2> QED
    BY <1>1, <2>1, <2>2, <2>3 DEF RetentionNext
<1> QED
  BY <1>1, RetentionInvInit, RetentionInvStep, PTL DEF RetentionSpec, PruneFollowsConfig

-----------------------------------------------------------------------------
(* Health: what holds of every state.                                      *)

LEMMA ReadyMeans ==
  ASSUME NEW s \in Services
  PROVE  s \in Ready <=> state[s] = "running" /\ health[s] \in {None, "healthy"}
BY DEF Ready, serviceReady, Existing

\* The two who look at the same rows agree, and none is passed that is not ready.
LEMMA GateAndDoctorAgree ==
  ASSUME NEW rows \in PsRows
  PROVE  /\ describeUnreadyServices(rows) = {} <=> checkContainerHealth(rows) = "pass"
         /\ describeUnreadyServices(rows) = {} => Ready = Services
         /\ checkContainerHealth(rows) \in {"pass", "warn", "fail"}
<1> DEFINE missing == Services \ rows
           unhealthy == {s \in rows : ~(state[s] = "running" /\ health[s] \in {None, "healthy"})}
<1>1. rows \subseteq Services
  BY DEF PsRows, Existing
<1>2. Services # {}
  BY HealthAssumption
<1>3. describeUnreadyServices(rows) = {} <=> missing = {} /\ unhealthy = {}
  BY <1>1 DEF describeUnreadyServices, serviceReady
<1>4. missing = {} => rows # {}
  BY <1>2
<1>5. missing = {} /\ unhealthy = {} => missing \cup unhealthy # Services
  BY <1>2
<1>6. checkContainerHealth(rows) =
        CASE rows = {} -> "fail"
          [] missing = {} /\ unhealthy = {} -> "pass"
          [] missing \cup unhealthy = Services -> "fail"
          [] OTHER -> "warn"
  BY DEF checkContainerHealth
<1>7. describeUnreadyServices(rows) = {} => Ready = Services
  BY <1>1, <1>3, ReadyMeans DEF Ready
<1> HIDE DEF missing, unhealthy
<1> QED
  BY <1>3, <1>4, <1>5, <1>6, <1>7

\* An answer that names nobody fails too.
LEMMA NobodyFails == checkContainerHealth({}) = "fail"
<1>1. Services # {}
  BY HealthAssumption
<1> QED
  BY <1>1 DEF checkContainerHealth

LEMMA DisksAgreeHolds == DisksAgree
BY DEF DisksAgree, classifyDiskSpace, checkDisk, DefaultThresholds, Disk

LEMMA VerdictsAgreeHolds == VerdictsAgree
<1>1. ASSUME NEW rows \in PsRows, describeUnreadyServices(rows) = {}, NEW s \in Shown
      PROVE  mapContainerState(s) = "running"
  <2>1. s \in Ready
    BY <1>1, GateAndDoctorAgree, HealthAssumption
  <2>2. state[s] = "running" /\ health[s] \in {None, "healthy"}
    BY <2>1, ReadyMeans, HealthAssumption
  <2> QED
    BY <2>2 DEF mapContainerState, None
<1>2. ASSUME NEW rows \in PsRows, Up = {}
      PROVE  checkContainerHealth(rows) = "fail"
  <2>1. rows \subseteq Services
    BY DEF PsRows, Existing
  <2>2. \A s \in Services : state[s] # "running"
    BY <1>2 DEF Up
  <2>3. {s \in rows : ~(state[s] = "running" /\ health[s] \in {None, "healthy"})} = rows
    BY <2>1, <2>2
  <2>4. (Services \ rows) \cup rows = Services /\ (rows = {} \/ rows # {})
    BY <2>1
  <2> QED
    BY <2>3, <2>4 DEF checkContainerHealth
<1> QED
  BY <1>1, <1>2, GateAndDoctorAgree, DisksAgreeHolds DEF VerdictsAgree, classifyStackUp

-----------------------------------------------------------------------------
(* Health: the histories.                                                  *)

\* A container that answers runs; one that is checked has a verdict as long as it
\* runs, and no good one, nor an answer, before its first answer.
Verdicts ==
  \A s \in Services :
    /\ serves[s] => state[s] = "running"
    /\ s \in Checked => /\ state[s] = "running" => health[s] # None
                        /\ serves[s] \/ health[s] = "healthy" => s \in answered

\* The outage is of containers that are not ready, and once the doctor has asked
\* Docker for the containers (check 11) it has shown something of it.
Outages ==
  /\ outage \cap Ready = {}
  /\ doctor.next \in 12..17 /\ outage # {} => doctor.failed \/ doctor.warned

\* An update that waits has a probe left.
ProbesLeft == update.pc \in {"recreate", "wait"} => update.probes < MaxProbes

HealthInv == HealthTypeOK /\ Verdicts /\ GateFindsHung /\ Outages /\ ProbesLeft

LEMMA HealthInvInit == HealthInit => HealthInv
<1> SUFFICES ASSUME HealthInit PROVE HealthInv
  OBVIOUS
<1>1. HealthTypeOK
  BY HealthAssumption DEF HealthInit, HealthTypeOK
<1>2. Verdicts
  BY DEF HealthInit, Verdicts, None
<1>3. GateFindsHung /\ Outages /\ ProbesLeft
  BY DEF HealthInit, GateFindsHung, Outages, ProbesLeft
<1> QED
  BY <1>1, <1>2, <1>3 DEF HealthInv

\* A step of Docker with one container.
LEMMA BecomesStep ==
  ASSUME HealthInv, NEW s \in Services,
         NEW newState \in {"missing", "exited", "restarting", "running"},
         NEW newHealth \in {None, "starting", "healthy", "unhealthy"},
         NEW answers \in BOOLEAN,
         Becomes(s, newState, newHealth, answers),
         answers => newState = "running",
         s \in Checked /\ newState = "running" => newHealth # None,
         s \in Checked /\ newHealth = "healthy" => s \in answered \/ answers
  PROVE  HealthInv'
<1>0. HealthTypeOK
  BY DEF HealthInv
<1>1. HealthTypeOK'
  BY <1>0 DEF HealthTypeOK, Becomes, Witness
<1>2. /\ state'[s] = newState /\ health'[s] = newHealth /\ serves'[s] = answers
      /\ \A r \in Services \ {s} :
           state'[r] = state[r] /\ health'[r] = health[r] /\ serves'[r] = serves[r]
  BY <1>0 DEF HealthTypeOK, Becomes
<1>3. answered' = answered \cup {r \in Checked : serves'[r]} /\ outage' = outage \ Ready'
      /\ UNCHANGED <<update, doctor>>
  BY DEF Becomes, Witness
<1>4. Verdicts'
  BY <1>2, <1>3 DEF HealthInv, Verdicts
<1>5. GateFindsHung' /\ Outages' /\ ProbesLeft'
  BY <1>3 DEF HealthInv, GateFindsHung, Outages, ProbesLeft
<1> QED
  BY <1>1, <1>4, <1>5 DEF HealthInv

LEMMA DockerStep ==
  ASSUME HealthInv, NEW s \in Services,
         \/ ProcessAnswers(s) \/ ProcessHangs(s) \/ ProcessExits(s) \/ DockerRestarts(s)
         \/ HealthCheck(s) \/ OperatorStops(s) \/ OperatorRemoves(s) \/ OperatorStarts(s)
  PROVE  HealthInv'
<1>0. /\ health[s] \in {None, "starting", "healthy", "unhealthy"} /\ serves[s] \in BOOLEAN
      /\ serves[s] => state[s] = "running"
      /\ s \in Checked /\ state[s] = "running" => health[s] # None
      /\ s \in Checked /\ (serves[s] \/ health[s] = "healthy") => s \in answered
  BY DEF HealthInv, HealthTypeOK, Verdicts
<1>1. Starting(s) \in {None, "starting"} /\ (s \in Checked => Starting(s) = "starting")
      /\ None # "starting" /\ None # "healthy"
  BY DEF Starting, None
<1>2. CASE ProcessAnswers(s)
  BY <1>0, <1>2, BecomesStep DEF ProcessAnswers
<1>3. CASE ProcessHangs(s)
  BY <1>0, <1>3, BecomesStep DEF ProcessHangs
<1>4. CASE ProcessExits(s)
  BY <1>1, <1>4, BecomesStep DEF ProcessExits
<1>5. CASE DockerRestarts(s)
  BY <1>1, <1>5, BecomesStep DEF DockerRestarts
<1>6. CASE HealthCheck(s)
  <2>1. PICK h \in {"healthy", "unhealthy"} : h = IF serves[s] THEN "healthy" ELSE "unhealthy"
    OBVIOUS
  <2>2. state[s] = "running" /\ Becomes(s, "running", h, serves[s])
    BY <1>6, <2>1 DEF HealthCheck
  <2>3. h = "healthy" => serves[s]
    BY <2>1
  <2> QED
    BY <1>0, <2>2, <2>3, BecomesStep DEF None
<1>7. CASE OperatorStops(s)
  BY <1>1, <1>7, BecomesStep DEF OperatorStops
<1>8. CASE OperatorRemoves(s)
  BY <1>1, <1>8, BecomesStep DEF OperatorRemoves
<1>9. CASE OperatorStarts(s)
  BY <1>1, <1>9, BecomesStep DEF OperatorStarts
<1> QED
  BY <1>2, <1>3, <1>4, <1>5, <1>6, <1>7, <1>8, <1>9

LEMMA ComposeUpStep ==
  ASSUME HealthInv, ComposeUp
  PROVE  HealthInv'
<1>0. HealthTypeOK /\ update.pc = "recreate"
  BY DEF HealthInv, ComposeUp
<1>1. PICK made \in SUBSET Services :
        /\ state' = [s \in Services |-> IF s \in made THEN "running" ELSE state[s]]
        /\ health' = [s \in Services |-> IF s \in made THEN Starting(s) ELSE health[s]]
        /\ serves' = [s \in Services |-> s \notin made /\ serves[s]]
        /\ \/ update' = [update EXCEPT !.pc = "died"]
           \/ made = Services /\ update' = [update EXCEPT !.pc = "wait"]
        /\ answered' = answered \ made
        /\ outage' = outage \ Ready'
  BY DEF ComposeUp
<1>2. \A s \in Services : Starting(s) \in {None, "starting"} /\ (s \in Checked => Starting(s) = "starting")
  BY DEF Starting
<1>3. /\ state' \in [Services -> {"missing", "exited", "restarting", "running"}]
      /\ health' \in [Services -> {None, "starting", "healthy", "unhealthy"}]
  BY <1>0, <1>1, <1>2 DEF HealthTypeOK
<1>4. serves' \in [Services -> BOOLEAN]
  BY <1>0, <1>1 DEF HealthTypeOK
<1>5. /\ update' \in [pc : {"idle", "recreate", "wait", "reconciled", "died"}, probes : 0..MaxProbes]
      /\ update'.pc \in {"wait", "died"}
  BY <1>0, <1>1 DEF HealthTypeOK
<1>6. HealthTypeOK'
  BY <1>0, <1>1, <1>3, <1>4, <1>5 DEF HealthTypeOK, ComposeUp
<1>7. ASSUME NEW s \in Services
      PROVE  /\ serves'[s] => state'[s] = "running"
             /\ s \in Checked => /\ state'[s] = "running" => health'[s] # None
                                 /\ serves'[s] \/ health'[s] = "healthy" => s \in answered'
  <2>1. CASE s \in made
    BY <1>1, <1>2, <2>1 DEF None
  <2>2. CASE s \notin made
    <3>1. state'[s] = state[s] /\ health'[s] = health[s] /\ (serves'[s] => serves[s])
      BY <1>1, <2>2
    <3>2. s \in answered => s \in answered'
      BY <1>1, <2>2
    <3> QED
      BY <3>1, <3>2 DEF HealthInv, Verdicts
  <2> QED
    BY <2>1, <2>2
<1>8. Verdicts'
  BY <1>7 DEF Verdicts
<1>9. GateFindsHung' /\ Outages'
  BY <1>1, <1>5 DEF HealthInv, GateFindsHung, Outages, ComposeUp
<1>10. ProbesLeft'
  BY <1>0, <1>1 DEF HealthInv, HealthTypeOK, ProbesLeft
<1> QED
  BY <1>6, <1>8, <1>9, <1>10 DEF HealthInv

\* A gate that opens has found everybody ready, and so answering once.
LEMMA ProbeStep ==
  ASSUME HealthInv, Probe
  PROVE  HealthInv'
<1>0. HealthTypeOK /\ update.pc = "wait" /\ UNCHANGED <<state, health, serves, answered, doctor, outage>>
  BY DEF HealthInv, Probe
<1>1. PICK rows \in PsRows \cup {{}} :
        \/ /\ describeUnreadyServices(rows) = {}
           /\ update' = [update EXCEPT !.pc = "reconciled"]
        \/ /\ describeUnreadyServices(rows) # {}
           /\ update' = [pc |-> IF update.probes + 1 = MaxProbes THEN "died" ELSE "wait",
                         probes |-> update.probes + 1]
  BY DEF Probe
<1>2. CASE describeUnreadyServices(rows) = {}
  <2>1. update' \in [pc : {"idle", "recreate", "wait", "reconciled", "died"}, probes : 0..MaxProbes]
    BY <1>0, <1>1, <1>2 DEF HealthTypeOK
  <2>2. \A s \in Services : state[s] = "running" /\ health[s] \in {None, "healthy"}
    BY <1>2 DEF describeUnreadyServices, serviceReady
  <2>3. Checked \subseteq answered
    BY <2>2, HealthAssumption DEF HealthInv, Verdicts
  <2>4. update'.pc = "reconciled"
    BY <1>0, <1>1, <1>2 DEF HealthTypeOK
  <2> QED
    BY <1>0, <2>1, <2>3, <2>4
       DEF HealthInv, ProbesLeft, HealthTypeOK, Verdicts, GateFindsHung, Outages, Ready, serviceReady, Existing
<1>3. CASE describeUnreadyServices(rows) # {}
  <2>1. PICK p : p = IF update.probes + 1 = MaxProbes THEN "died" ELSE "wait"
    OBVIOUS
  <2>2. update' = [pc |-> p, probes |-> update.probes + 1]
    BY <1>1, <1>3, <2>1
  <2>3. update.probes \in 0..MaxProbes /\ update.probes < MaxProbes
    BY <1>0 DEF HealthInv, HealthTypeOK, ProbesLeft
  <2>4. update.probes + 1 \in 0..MaxProbes /\ (p = "wait" => update.probes + 1 < MaxProbes)
        /\ p \in {"died", "wait"}
    BY <2>1, <2>3, HealthAssumption
  <2> QED
    BY <1>0, <2>2, <2>4
       DEF HealthInv, ProbesLeft, HealthTypeOK, Verdicts, GateFindsHung, Outages, Ready, serviceReady, Existing
<1> QED
  BY <1>2, <1>3

\* A check of the doctor: the eleventh looks at the containers.
LEMMA DoctorStep ==
  ASSUME HealthInv, DoctorStarts \/ RunCheck \/ CheckThrows
  PROVE  HealthInv'
<1>0. HealthTypeOK /\ Outages /\ UNCHANGED <<state, health, serves, update, answered>>
  BY DEF HealthInv, DoctorStarts, RunCheck, CheckThrows
<1>1. Ready' = Ready
  BY <1>0 DEF Ready, serviceReady, Existing
<1>2. SUFFICES /\ doctor' \in [next : 0..17, failed : BOOLEAN, warned : BOOLEAN]
               /\ outage' \subseteq Services
               /\ Outages'
  BY <1>0 DEF HealthInv, HealthTypeOK, Verdicts, GateFindsHung, ProbesLeft
<1>3. CASE DoctorStarts
  BY <1>1, <1>3 DEF DoctorStarts, Outages
<1>4. CASE RunCheck
  <2>1. PICK severity \in CHECKS[doctor.next] :
          doctor' = [doctor EXCEPT !.next = @ + 1,
                                   !.failed = @ \/ severity = "fail",
                                   !.warned = @ \/ severity = "warn"]
    BY <1>4 DEF RunCheck
  <2>2. doctor.next \in 1..16 /\ outage' = outage
    BY <1>4 DEF RunCheck
  <2>3. /\ doctor' \in [next : 0..17, failed : BOOLEAN, warned : BOOLEAN]
        /\ doctor'.next = doctor.next + 1
        /\ doctor.failed => doctor'.failed
        /\ doctor.warned => doctor'.warned
        /\ severity = "fail" => doctor'.failed
        /\ severity = "warn" => doctor'.warned
    <3>1. doctor.failed \in BOOLEAN /\ doctor.warned \in BOOLEAN
      BY <1>0 DEF HealthTypeOK
    <3>2. PICK f \in BOOLEAN : f = (doctor.failed \/ severity = "fail")
      OBVIOUS
    <3>3. PICK w \in BOOLEAN : w = (doctor.warned \/ severity = "warn")
      OBVIOUS
    <3>4. doctor' = [doctor EXCEPT !.next = @ + 1, !.failed = f, !.warned = w]
      BY <2>1, <3>2, <3>3
    <3>5. /\ doctor' \in [next : 0..17, failed : BOOLEAN, warned : BOOLEAN]
          /\ doctor'.next = doctor.next + 1 /\ doctor'.failed = f /\ doctor'.warned = w
      <4>1. doctor \in [next : 0..17, failed : BOOLEAN, warned : BOOLEAN] /\ doctor.next + 1 \in 0..17
        BY <1>0, <2>2 DEF HealthTypeOK
      <4>2. PICK d : d = [doctor EXCEPT !.next = doctor.next + 1]
        OBVIOUS
      <4>3. d \in [next : 0..17, failed : BOOLEAN, warned : BOOLEAN] /\ d.next = doctor.next + 1
        BY <4>1, <4>2
      <4>4. PICK e : e = [d EXCEPT !.failed = f]
        OBVIOUS
      <4>5. e \in [next : 0..17, failed : BOOLEAN, warned : BOOLEAN]
            /\ e.next = doctor.next + 1 /\ e.failed = f
        BY <4>3, <4>4
      <4>6. doctor' = [e EXCEPT !.warned = w]
        BY <3>4, <4>1, <4>2, <4>4
      <4> QED
        BY <4>5, <4>6
    <3>6. (doctor.failed => f) /\ (severity = "fail" => f)
      BY <3>1, <3>2
    <3>7. (doctor.warned => w) /\ (severity = "warn" => w)
      BY <3>1, <3>3
    <3> QED
      BY <3>5, <3>6, <3>7
  <2>4. ASSUME doctor.next = 11, outage # {}
        PROVE  severity \in {"warn", "fail"}
    <3>1. CHECKS[11] = {checkContainerHealth(rows) : rows \in PsRows \cup {{}}}
      BY DEF CHECKS
    <3>2. PICK rows \in PsRows \cup {{}} : severity = checkContainerHealth(rows)
      BY <2>1, <2>4, <3>1
    <3>3. Ready # Services
      BY <1>0, <2>4 DEF HealthTypeOK, Outages
    <3> QED
      BY <3>2, <3>3, GateAndDoctorAgree, NobodyFails
  <2>5. Outages'
    BY <1>0, <1>1, <2>2, <2>3, <2>4 DEF Outages
  <2> QED
    BY <1>0, <2>2, <2>3, <2>5 DEF HealthTypeOK
<1>5. CASE CheckThrows
  <2>1. doctor.next \in {5, 12} /\ outage' = outage
    BY <1>5 DEF CheckThrows, Throwing
  <2>2. /\ doctor' \in [next : 0..17, failed : BOOLEAN, warned : BOOLEAN]
        /\ doctor'.failed = TRUE
    <3>1. doctor' = [doctor EXCEPT !.next = @ + 1, !.failed = TRUE]
      BY <1>5 DEF CheckThrows
    <3>2. doctor \in [next : 0..17, failed : BOOLEAN, warned : BOOLEAN] /\ doctor.next + 1 \in 0..17
      BY <1>0, <2>1 DEF HealthTypeOK
    <3>3. PICK d : d = [doctor EXCEPT !.next = doctor.next + 1]
      OBVIOUS
    <3>4. d \in [next : 0..17, failed : BOOLEAN, warned : BOOLEAN]
      BY <3>2, <3>3
    <3>5. doctor' = [d EXCEPT !.failed = TRUE]
      BY <3>1, <3>2, <3>3
    <3> QED
      BY <3>4, <3>5
  <2> QED
    BY <1>0, <1>1, <2>1, <2>2 DEF HealthTypeOK, Outages
<1> QED
  BY <1>3, <1>4, <1>5

LEMMA PreflightStep ==
  ASSUME HealthInv, Preflight
  PROVE  HealthInv'
<1>1. PICK enough \in {classifyDiskSpace(m, DefaultThresholds) : m \in Disk} :
        update' = [pc |-> IF enough THEN "recreate" ELSE "died", probes |-> 0]
  BY DEF Preflight
<1>2. PICK p : p = IF enough THEN "recreate" ELSE "died"
  OBVIOUS
<1>3. update' = [pc |-> p, probes |-> 0] /\ p \in {"recreate", "died"}
  BY <1>1, <1>2
<1>4. UNCHANGED <<state, health, serves, answered, doctor, outage>>
  BY DEF Preflight
<1>5. update' \in [pc : {"idle", "recreate", "wait", "reconciled", "died"}, probes : 0..MaxProbes]
      /\ ProbesLeft' /\ GateFindsHung'
  BY <1>3, HealthAssumption DEF ProbesLeft, GateFindsHung
<1>6. Ready' = Ready
  BY <1>4 DEF Ready, serviceReady, Existing
<1> QED
  BY <1>4, <1>5, <1>6 DEF HealthInv, HealthTypeOK, Verdicts, Outages

LEMMA HealthInvStep == HealthInv /\ [HealthNext]_healthVars => HealthInv'
<1> SUFFICES ASSUME HealthInv, [HealthNext]_healthVars PROVE HealthInv'
  OBVIOUS
<1>1. CASE UNCHANGED healthVars
  <2>1. Ready' = Ready
    BY <1>1 DEF healthVars, Ready, serviceReady, Existing
  <2> QED
    BY <1>1, <2>1 DEF healthVars, HealthInv, HealthTypeOK, Verdicts, GateFindsHung, Outages, ProbesLeft
<1>2. CASE HealthNext
  BY <1>2, DockerStep, PreflightStep, ComposeUpStep, ProbeStep, DoctorStep DEF HealthNext
<1> QED
  BY <1>1, <1>2

\* What the operator is told of the stack is true of it: the gate of `ct update`,
\* the doctor and the dashboard judge the same containers alike; the gate opens
\* only once every checked container has answered; and an outage as long as the
\* doctor's run never goes without a WARN.
THEOREM HealthSeenHolds == HealthSpec => []HealthSeen
<1>1. HealthInv => HealthSeen
  BY VerdictsAgreeHolds DEF HealthInv, HealthTypeOK, Outages, HealthSeen, OutageNoticed
<1> QED
  BY <1>1, HealthInvInit, HealthInvStep, PTL DEF HealthSpec

-----------------------------------------------------------------------------
(* The migration of `.env`: lines found, put in, taken out and replaced.   *)

\* Of any positions one is the first.
LEMMA LeastIndex ==
  ASSUME NEW I \in SUBSET Nat, I # {}
  PROVE  /\ Min(I) \in I
         /\ \A j \in I : Min(I) <= j
<1>1. PICK m \in I : \A j \in I : ~(<<j, m>> \in OpToRel(<, Nat))
  BY WFMin, NatLessThanWellFounded, Zenon
<1>2. \A j \in I : ~(j < m)
  BY <1>1 DEF OpToRel
<1>3. \A j \in I : m <= j
  BY <1>2
<1> QED BY <1>3 DEF Min

\* FirstOf is 0, or where a line in `S` stands with none before it.
LEMMA FirstFound ==
  ASSUME NEW L, NEW f \in Seq(L), NEW S
  PROVE  \/ FirstOf(f, S) = 0 /\ \A i \in 1 .. Len(f) : f[i] \notin S
         \/ /\ FirstOf(f, S) \in 1 .. Len(f) /\ f[FirstOf(f, S)] \in S
            /\ \A i \in 1 .. Len(f) : f[i] \in S => FirstOf(f, S) <= i
<1> DEFINE I == {i \in 1 .. Len(f) : f[i] \in S}
<1>1. FirstOf(f, S) = IF I # {} THEN Min(I) ELSE 0
  BY DEF FirstOf, SelectInSeq
<1>2. I \in SUBSET Nat
  OBVIOUS
<1>3. CASE I = {}
  BY <1>1, <1>3
<1>4. CASE I # {}
  <2>1. Min(I) \in I /\ \A j \in I : Min(I) <= j
    <3> HIDE DEF I
    <3> QED BY <1>2, <1>4, LeastIndex
  <2> QED BY <2>1, <1>1, <1>4
<1> QED BY <1>3, <1>4

\* And there is no other such place.
LEMMA FirstIs ==
  ASSUME NEW L, NEW f \in Seq(L), NEW S, NEW i \in 1 .. Len(f), f[i] \in S,
         \A j \in 1 .. Len(f) : f[j] \in S => i <= j
  PROVE  FirstOf(f, S) = i
BY FirstFound

Holds(f, S) == \E i \in 1 .. Len(f) : f[i] \in S

\* What the code asks and what the proofs speak of is the same.
LEMMA MentionsMeans ==
  ASSUME NEW L, NEW f \in Seq(L), NEW S
  PROVE  Mentions(f, S) <=> Holds(f, S)
BY FirstFound DEF Mentions, Holds

\* At most one line is in `S`.
Once(f, S) == \A i, j \in 1 .. Len(f) : f[i] \in S /\ f[j] \in S => i = j

\* `g` is `f` with `new` behind its line `i`.
Inserted(f, i, new, g) ==
  /\ Len(g) = Len(f) + Len(new)
  /\ \A j \in 1 .. i : g[j] = f[j]
  /\ \A j \in 1 .. Len(new) : g[i + j] = new[j]
  /\ \A j \in i + 1 .. Len(f) : g[j + Len(new)] = f[j]

\* A file cut in two with lines in between.
LEMMA InsertedIs ==
  ASSUME NEW L, NEW f \in Seq(L), NEW new \in Seq(L), NEW i \in 0 .. Len(f)
  PROVE  LET g == SubSeq(f, 1, i) \o new \o SubSeq(f, i + 1, Len(f))
         IN g \in Seq(L) /\ Inserted(f, i, new, g)
<1> DEFINE a == SubSeq(f, 1, i)
           b == SubSeq(f, i + 1, Len(f))
           g == a \o new \o b
<1>1. a \in Seq(L) /\ Len(a) = i /\ \A j \in 1 .. i : a[j] = f[j]
  OBVIOUS
<1>2. b \in Seq(L) /\ Len(b) = Len(f) - i /\ \A j \in 1 .. Len(f) - i : b[j] = f[i + j]
  OBVIOUS
<1> HIDE DEF a, b
<1>3. a \o new \in Seq(L) /\ Len(a \o new) = i + Len(new)
  BY <1>1, SMTT(30)
<1>4. \A j \in 1 .. i : (a \o new)[j] = f[j]
  BY <1>1
<1>5. \A j \in 1 .. Len(new) : (a \o new)[i + j] = new[j]
  BY <1>1
<1> DEFINE c == a \o new
<1>6. g = c \o b /\ c \in Seq(L) /\ Len(c) = i + Len(new)
  BY <1>3
<1>7. /\ \A j \in 1 .. i : c[j] = f[j]
      /\ \A j \in 1 .. Len(new) : c[i + j] = new[j]
  BY <1>4, <1>5
<1> HIDE DEF c, g
<1>8. g \in Seq(L) /\ Len(g) = Len(f) + Len(new)
  <2> b \in Seq(L) /\ c \in Seq(L)
    BY <1>2, <1>6
  <2>1. c \o b \in Seq(L) /\ Len(c \o b) = Len(c) + Len(b)
    BY ConcatProperties
  <2>2. Len(f) \in Nat /\ Len(new) \in Nat /\ i \in Nat /\ g = c \o b
    BY <1>6
  <2>3. g \in Seq(L) /\ Len(g) = Len(c) + Len(b)
    BY <2>1, <2>2
  <2>4. Len(c) = i + Len(new) /\ Len(b) = Len(f) - i
    BY <1>2, <1>6
  <2> QED BY <2>2, <2>3, <2>4
<1>9. \A j \in 1 .. Len(c) : g[j] = c[j]
  BY <1>2, <1>6
<1>10. \A j \in 1 .. i : g[j] = f[j]
  BY <1>6, <1>7, <1>9
<1>11. ASSUME NEW j \in 1 .. Len(new) PROVE g[i + j] = new[j]
  <2>1. i + j \in 1 .. Len(c)
    BY <1>6
  <2> QED BY <1>7, <1>9, <2>1
<1>12. ASSUME NEW j \in i + 1 .. Len(f) PROVE g[j + Len(new)] = f[j]
  <2>1. j - i \in 1 .. Len(b) /\ j + Len(new) = Len(c) + (j - i)
    BY <1>2, <1>6
  <2>2. g[Len(c) + (j - i)] = b[j - i]
    BY <2>1, <1>2, <1>6
  <2>3. \A k \in 1 .. Len(b) : b[k] = f[i + k]
    BY <1>2
  <2>4. b[j - i] = f[j]
    <3>1. b[j - i] = f[i + (j - i)]
      BY <2>1, <2>3
    <3>2. i + (j - i) = j
      OBVIOUS
    <3> QED BY <3>1, <3>2
  <2>5. g[j + Len(new)] = b[j - i]
    BY <2>1, <2>2
  <2> QED BY <2>4, <2>5
<1>13. Inserted(f, i, new, g)
  BY <1>8, <1>10, <1>11, <1>12 DEF Inserted
<1> QED BY <1>8, <1>13 DEF g, a, b

\* Where the lines of `g` come from.
LEMMA Origin ==
  ASSUME NEW L, NEW f \in Seq(L), NEW new \in Seq(L), NEW i \in 0 .. Len(f),
         NEW g \in Seq(L), Inserted(f, i, new, g), NEW k \in 1 .. Len(g)
  PROVE  \/ k \in 1 .. i /\ g[k] = f[k]
         \/ k \in i + 1 .. i + Len(new) /\ g[k] = new[k - i]
         \/ k - Len(new) \in i + 1 .. Len(f) /\ g[k] = f[k - Len(new)]
<1>1. Len(g) = Len(f) + Len(new) /\ Len(f) \in Nat /\ Len(new) \in Nat /\ k \in Nat
  BY DEF Inserted
<1>2. CASE k <= i
  BY <1>1, <1>2 DEF Inserted
<1>3. CASE k > i /\ k <= i + Len(new)
  <2>1. k - i \in 1 .. Len(new) /\ i + (k - i) = k
    BY <1>1, <1>3
  <2>2. g[i + (k - i)] = new[k - i]
    BY <2>1 DEF Inserted
  <2> QED BY <1>1, <1>3, <2>1, <2>2
<1>4. CASE k > i + Len(new)
  <2>1. k - Len(new) \in i + 1 .. Len(f) /\ (k - Len(new)) + Len(new) = k
    BY <1>1, <1>4
  <2> QED BY <2>1 DEF Inserted
<1> QED BY <1>1, <1>2, <1>3, <1>4

\* The file holds what it held and what is new.
LEMMA InsertedHolds ==
  ASSUME NEW L, NEW f \in Seq(L), NEW new \in Seq(L), NEW i \in 0 .. Len(f),
         NEW g \in Seq(L), Inserted(f, i, new, g), NEW S
  PROVE  Holds(g, S) <=> Holds(f, S) \/ Holds(new, S)
<1>1. ASSUME NEW k \in 1 .. Len(g), g[k] \in S PROVE Holds(f, S) \/ Holds(new, S)
  <2>1. CASE k \in 1 .. i /\ g[k] = f[k]
    BY <1>1, <2>1, SMTT(30) DEF Holds
  <2>2. CASE k \in i + 1 .. i + Len(new) /\ g[k] = new[k - i]
    <3>1. k - i \in 1 .. Len(new)
      BY <2>2
    <3> QED BY <1>1, <2>2, <3>1 DEF Holds
  <2>3. CASE k - Len(new) \in i + 1 .. Len(f) /\ g[k] = f[k - Len(new)]
    <3>1. k - Len(new) \in 1 .. Len(f)
      BY <2>3
    <3> QED BY <1>1, <2>3, <3>1 DEF Holds
  <2> QED BY <2>1, <2>2, <2>3, Origin
<1>2. ASSUME NEW k \in 1 .. Len(f), f[k] \in S PROVE Holds(g, S)
  <2>1. CASE k <= i
    <3>1. k \in 1 .. Len(g) /\ g[k] = f[k]
      BY <2>1 DEF Inserted
    <3> QED BY <1>2, <3>1 DEF Holds
  <2>2. CASE k > i
    <3>1. k \in i + 1 .. Len(f) /\ Len(new) \in Nat
      BY <2>2
    <3>2. k + Len(new) \in 1 .. Len(g) /\ g[k + Len(new)] = f[k]
      BY <3>1 DEF Inserted
    <3> QED BY <3>2, <1>2, <3>1 DEF Holds
  <2> QED BY <2>1, <2>2
<1>3. ASSUME NEW k \in 1 .. Len(new), new[k] \in S PROVE Holds(g, S)
  <2>1. i + k \in 1 .. Len(g) /\ g[i + k] = new[k]
    BY DEF Inserted
  <2> QED BY <1>3, <2>1 DEF Holds
<1> QED BY <1>1, <1>2, <1>3 DEF Holds

\* What was there once, or not at all and is new once, is there once.
LEMMA InsertedOnce ==
  ASSUME NEW L, NEW f \in Seq(L), NEW new \in Seq(L), NEW i \in 0 .. Len(f),
         NEW g \in Seq(L), Inserted(f, i, new, g), NEW S,
         \/ Once(f, S) /\ ~Holds(new, S)
         \/ ~Holds(f, S) /\ Once(new, S)
  PROVE  Once(g, S)
<1> SUFFICES ASSUME NEW j \in 1 .. Len(g), NEW k \in 1 .. Len(g), g[j] \in S, g[k] \in S
             PROVE  j = k
  BY DEF Once
<1> DEFINE Old(n) == \/ n \in 1 .. i /\ g[n] = f[n]
                     \/ n - Len(new) \in i + 1 .. Len(f) /\ g[n] = f[n - Len(new)]
           New(n) == n \in i + 1 .. i + Len(new) /\ g[n] = new[n - i]
<1>1. (Old(j) \/ New(j)) /\ (Old(k) \/ New(k))
  BY Origin
<1>2. CASE Once(f, S) /\ ~Holds(new, S)
  <2>1. ASSUME NEW n \in 1 .. Len(g), New(n), g[n] \in S PROVE FALSE
    <3>1. n - i \in 1 .. Len(new)
      BY <2>1
    <3> QED BY <1>2, <2>1, <3>1 DEF Holds
  <2>2. Old(j) /\ Old(k)
    BY <1>1, <2>1
  <2>3. ASSUME NEW n \in 1 .. Len(g), Old(n), g[n] \in S
        PROVE  \/ n \in 1 .. i /\ n \in 1 .. Len(f) /\ f[n] \in S
               \/ n - Len(new) \in i + 1 .. Len(f) /\ n - Len(new) \in 1 .. Len(f) /\ f[n - Len(new)] \in S
    BY <2>3, SMTT(30)
  <2> DEFINE From(n) == IF n \in 1 .. i THEN n ELSE n - Len(new)
  <2>4. ASSUME NEW n \in 1 .. Len(g), Old(n), g[n] \in S
        PROVE  From(n) \in 1 .. Len(f) /\ f[From(n)] \in S /\ (n \in 1 .. i <=> From(n) \in 1 .. i)
    <3>1. Len(new) \in Nat
      OBVIOUS
    <3> QED BY <2>3, <2>4, <3>1
  <2>5. From(j) = From(k)
    <3> HIDE DEF From, Old
    <3> QED BY <1>2, <2>2, <2>4 DEF Once
  <2>6. j \in 1 .. i <=> k \in 1 .. i
    <3> HIDE DEF From, Old
    <3> QED BY <2>2, <2>4, <2>5
  <2> QED BY <2>5, <2>6
<1>3. CASE ~Holds(f, S) /\ Once(new, S)
  <2>1. ASSUME NEW n \in 1 .. Len(g), Old(n), g[n] \in S PROVE FALSE
    BY <1>3, <2>1 DEF Holds
  <2>2. New(j) /\ New(k)
    BY <1>1, <2>1
  <2>3. j - i \in 1 .. Len(new) /\ k - i \in 1 .. Len(new) /\ new[j - i] \in S /\ new[k - i] \in S
    BY <2>2, SMTT(30)
  <2>4. j - i = k - i
    BY <1>3, <2>3 DEF Once
  <2> QED BY <2>4
<1> QED BY <1>2, <1>3

\* The first line of a kind stays the first if it stands above what is new.
LEMMA InsertedFirst ==
  ASSUME NEW L, NEW f \in Seq(L), NEW new \in Seq(L), NEW i \in 0 .. Len(f),
         NEW g \in Seq(L), Inserted(f, i, new, g), NEW S, FirstOf(f, S) \in 1 .. i
  PROVE  FirstOf(g, S) = FirstOf(f, S) /\ g[FirstOf(g, S)] = f[FirstOf(f, S)]
<1> DEFINE d == FirstOf(f, S)
<1>1. d \in 1 .. Len(f) /\ f[d] \in S /\ \A j \in 1 .. Len(f) : f[j] \in S => d <= j
  BY FirstFound
<1> HIDE DEF d
<1>2. d \in 1 .. i
  BY DEF d
<1>3. d \in 1 .. Len(g) /\ g[d] = f[d] /\ Len(new) \in Nat
  BY <1>1, <1>2 DEF Inserted
<1>4. ASSUME NEW j \in 1 .. Len(g), g[j] \in S PROVE d <= j
  <2>1. CASE j <= i
    <3>1. j \in 1 .. Len(f) /\ g[j] = f[j]
      BY <2>1 DEF Inserted
    <3> QED BY <1>1, <1>4, <3>1
  <2>2. CASE j > i
    BY <1>2, <2>2
  <2> QED BY <2>1, <2>2
<1>5. FirstOf(g, S) = d
  BY <1>1, <1>3, <1>4, FirstIs
<1> QED BY <1>3, <1>5 DEF d

\* There is one way to put lines at one place.
LEMMA InsertedSame ==
  ASSUME NEW L, NEW f \in Seq(L), NEW new \in Seq(L), NEW i \in 0 .. Len(f),
         NEW g \in Seq(L), Inserted(f, i, new, g), NEW h \in Seq(L), Inserted(f, i, new, h)
  PROVE  g = h
<1>1. Len(g) = Len(h)
  BY DEF Inserted
<1>2. ASSUME NEW k \in 1 .. Len(g) PROVE g[k] = h[k]
  <2>1. CASE k \in 1 .. i /\ g[k] = f[k]
    BY <2>1 DEF Inserted
  <2>2. CASE k \in i + 1 .. i + Len(new) /\ g[k] = new[k - i]
    <3>1. k - i \in 1 .. Len(new) /\ i + (k - i) = k
      BY <2>2
    <3>2. h[i + (k - i)] = new[k - i]
      BY <3>1 DEF Inserted
    <3> QED BY <2>2, <3>1, <3>2
  <2>3. CASE k - Len(new) \in i + 1 .. Len(f) /\ g[k] = f[k - Len(new)]
    <3>1. (k - Len(new)) + Len(new) = k
      OBVIOUS
    <3>2. h[(k - Len(new)) + Len(new)] = f[k - Len(new)]
      BY <2>3 DEF Inserted
    <3>3. h[k] = f[k - Len(new)]
      BY <3>1, <3>2, Zenon
    <3> QED BY <2>3, <3>3
  <2>4. \/ k \in 1 .. i /\ g[k] = f[k]
        \/ k \in i + 1 .. i + Len(new) /\ g[k] = new[k - i]
        \/ k - Len(new) \in i + 1 .. Len(f) /\ g[k] = f[k - Len(new)]
    BY Origin
  <2> QED BY <2>1, <2>2, <2>3, <2>4
<1> QED BY <1>1, <1>2, SeqEqual

LEMMA FirstIsZero ==
  ASSUME NEW L, NEW f \in Seq(L), NEW S
  PROVE  FirstOf(f, S) = 0 <=> ~Holds(f, S)
BY FirstFound DEF Holds

\* A line taken out could be put back.
LEMMA Removed ==
  ASSUME NEW L, NEW f \in Seq(L), NEW i \in 1 .. Len(f)
  PROVE  /\ RemoveAt(f, i) \in Seq(L)
         /\ i - 1 \in 0 .. Len(RemoveAt(f, i))
         /\ <<f[i]>> \in Seq(L)
         /\ Inserted(RemoveAt(f, i), i - 1, <<f[i]>>, f)
<1> DEFINE a == SubSeq(f, 1, i - 1)
           b == SubSeq(f, i + 1, Len(f))
           g == a \o b
<1>1. a \in Seq(L) /\ Len(a) = i - 1 /\ \A j \in 1 .. i - 1 : a[j] = f[j]
  OBVIOUS
<1>2. b \in Seq(L) /\ Len(b) = Len(f) - i /\ \A j \in 1 .. Len(f) - i : b[j] = f[i + j]
  OBVIOUS
<1> HIDE DEF a, b
<1>3. g \in Seq(L) /\ Len(g) = Len(a) + Len(b)
      /\ \A j \in 1 .. Len(a) + Len(b) : g[j] = IF j <= Len(a) THEN a[j] ELSE b[j - Len(a)]
  BY <1>1, <1>2, ConcatProperties
<1> HIDE DEF g
<1>4. Len(g) = Len(f) - 1
  <2>1. Len(g) = Len(a) + Len(b) /\ Len(a) = i - 1 /\ Len(b) = Len(f) - i
    BY <1>1, <1>2, <1>3
  <2>2. Len(f) \in Nat /\ i \in Nat
    OBVIOUS
  <2> QED BY <2>1, <2>2
<1>5. ASSUME NEW j \in 1 .. i - 1 PROVE f[j] = g[j]
  <2>1. j \in 1 .. Len(a) + Len(b) /\ j <= Len(a)
    BY <1>1, <1>2
  <2>2. g[j] = a[j]
    BY <1>3, <2>1
  <2> QED BY <1>1, <2>2
<1>6. ASSUME NEW j \in i .. Len(g) PROVE f[j + 1] = g[j]
  <2>1. g[j] = b[j - Len(a)]
    BY <1>1, <1>2, <1>3, <1>4
  <2>2. j - Len(a) = j - (i - 1) /\ j - (i - 1) \in 1 .. Len(f) - i /\ i + (j - (i - 1)) = j + 1
    BY <1>1, <1>4
  <2>3. b[j - (i - 1)] = f[i + (j - (i - 1))]
    BY <1>2, <2>2
  <2> QED BY <2>1, <2>2, <2>3
<1>7. <<f[i]>> \in Seq(L) /\ Len(<<f[i]>>) = 1 /\ <<f[i]>>[1] = f[i]
  OBVIOUS
<1>8. Inserted(g, i - 1, <<f[i]>>, f)
  <2>1. Len(f) = Len(g) + Len(<<f[i]>>)
    BY <1>4, <1>7
  <2>2. \A j \in 1 .. Len(<<f[i]>>) : f[(i - 1) + j] = <<f[i]>>[j]
    BY <1>7
  <2>3. \A j \in (i - 1) + 1 .. Len(g) : f[j + Len(<<f[i]>>)] = g[j]
    BY <1>6, <1>7
  <2> QED BY <2>1, <2>2, <2>3, <1>5 DEF Inserted
<1>9. i - 1 \in 0 .. Len(g)
  BY <1>4
<1> QED BY <1>3, <1>7, <1>8, <1>9 DEF RemoveAt, g, a, b

\* What is found once in a file is not found once that line is taken out, and
\* what is found at most once stays so.
LEMMA RemovedOnce ==
  ASSUME NEW L, NEW g \in Seq(L), NEW i \in 0 .. Len(g), NEW l \in L, NEW f \in Seq(L),
         Inserted(g, i, <<l>>, f), NEW S, Once(f, S)
  PROVE  Once(g, S) /\ (l \in S => ~Holds(g, S))
<1> DEFINE To(j) == IF j <= i THEN j ELSE j + 1
<1>1. ASSUME NEW j \in 1 .. Len(g) PROVE To(j) \in 1 .. Len(f) /\ f[To(j)] = g[j] /\ To(j) # i + 1
  <2>1. Len(f) = Len(g) + 1
    BY DEF Inserted
  <2>2. CASE j <= i
    BY <2>1, <2>2 DEF Inserted
  <2>3. CASE j > i
    <3>1. f[j + Len(<<l>>)] = g[j]
      BY <2>3 DEF Inserted
    <3> QED BY <2>1, <2>3, <3>1
  <2> QED BY <2>2, <2>3
<1>2. \A j, k \in 1 .. Len(g) : To(j) = To(k) => j = k
  OBVIOUS
<1>3. i + 1 \in 1 .. Len(f) /\ f[i + 1] = l
  <2>1. Len(f) = Len(g) + 1 /\ 1 \in 1 .. Len(<<l>>) /\ <<l>>[1] = l
    BY DEF Inserted
  <2>2. f[i + 1] = <<l>>[1]
    BY <2>1 DEF Inserted
  <2> QED BY <2>1, <2>2
<1> HIDE DEF To
<1> QED BY <1>1, <1>2, <1>3 DEF Once, Holds

\* Two files in which the same lines are in `S`.
Alike(f, g, S) ==
  Len(g) = Len(f) /\ \A k \in 1 .. Len(f) : g[k] \in S <=> f[k] \in S

LEMMA AlikeKept ==
  ASSUME NEW L, NEW f \in Seq(L), NEW g \in Seq(L), NEW S, Alike(f, g, S)
  PROVE  /\ Holds(g, S) <=> Holds(f, S)
         /\ Once(g, S) <=> Once(f, S)
         /\ FirstOf(g, S) = FirstOf(f, S)
<1>1. Holds(g, S) <=> Holds(f, S)
  BY DEF Alike, Holds
<1>2. Once(g, S) <=> Once(f, S)
  BY DEF Alike, Once
<1>3. CASE Holds(f, S)
  <2>1. FirstOf(f, S) \in 1 .. Len(f) /\ f[FirstOf(f, S)] \in S
        /\ \A j \in 1 .. Len(f) : f[j] \in S => FirstOf(f, S) <= j
    BY <1>3, FirstFound DEF Holds
  <2> QED BY <1>1, <1>2, <2>1, FirstIs DEF Alike
<1>4. CASE ~Holds(f, S)
  BY <1>1, <1>2, <1>4, FirstIsZero
<1> QED BY <1>3, <1>4

\* The lines of any file, migrated or not; those the phases look for.
EnvLine == Lines \cup Added

Legacy == {"APP_URL=${DOMAIN}"}
Preferred == {"STRATEGY=prefer_ipv4"}
Timeout == {"TIMEOUT=2s"}
Delay == {"DELAY=100ms"}

\* A file in which nothing the phases rewrite stands twice.
WellFormed(f) ==
  f \in Seq(EnvLine) /\ Once(f, PanelLines) /\ Once(f, Legacy) /\ Once(f, Preferred)

\* Nothing to do for the first phase, for the second, the third and the fourth.
Derived(f) ==
  \/ Holds(f, PanelLines)
  \/ FirstOf(f, DomainLines) = 0
  \/ f[FirstOf(f, DomainLines)] = "DOMAIN="

Placed(f) ==
  \/ FirstOf(f, PanelLines) = 0
  \/ FirstOf(f, RefLines) = 0
  \/ FirstOf(f, PanelLines) <= FirstOf(f, RefLines)
  \/ FirstOf(f, DomainLines) # 0 /\ FirstOf(f, PanelLines) = FirstOf(f, DomainLines) + 1

Corrected(f) == ~Holds(f, Legacy)

DirectSet(f) ==
  /\ ~Holds(f, Preferred)
  /\ Holds(f, StrategyLines) /\ Holds(f, Timeout) /\ Holds(f, Delay)

\* One update leaves nothing to do but for the second phase, the next one nothing at all.
MigrationInv ==
  /\ updates \in 0 .. 3 /\ WellFormed(file)
  /\ updates > 0 => Derived(file) /\ Corrected(file) /\ DirectSet(file)
  /\ updates > 1 => Placed(file)

LEMMA SingleLine ==
  ASSUME NEW l, NEW S
  PROVE  Once(<<l>>, S) /\ (Holds(<<l>>, S) <=> l \in S)
BY DEF Once, Holds

LEMMA EmptyHolds == ASSUME NEW S PROVE ~Holds(<<>>, S)
BY DEF Holds

LEMMA TwoLines ==
  ASSUME NEW l, NEW m, NEW S
  PROVE  /\ l \notin S => Once(<<l, m>>, S)
         /\ Holds(<<l, m>>, S) <=> l \in S \/ m \in S
BY DEF Once, Holds

LEMMA ShortFiles ==
  ASSUME NEW L, NEW l \in L, NEW m \in L
  PROVE  <<l>> \in Seq(L) /\ <<l, m>> \in Seq(L)
OBVIOUS

\* Lines behind DOMAIN.
LEMMA BehindDomain ==
  ASSUME NEW L, NEW f \in Seq(L), NEW new \in Seq(L)
  PROVE  LET i == FirstOf(f, DomainLines)
             g == InsertAfterDomain(f, new)
         IN /\ g \in Seq(L)
            /\ i = 0 => g = f
            /\ i # 0 => i \in 1 .. Len(f) /\ Inserted(f, i, new, g)
<1> DEFINE i == FirstOf(f, DomainLines)
<1>1. i = 0 \/ i \in 1 .. Len(f)
  BY FirstFound
<1> HIDE DEF i
<1>2. CASE i = 0
  BY <1>2 DEF InsertAfterDomain, i
<1>3. CASE i \in 1 .. Len(f)
  <2>1. i \in 0 .. Len(f) /\ i # 0
    BY <1>3
  <2> DEFINE g == SubSeq(f, 1, i) \o new \o SubSeq(f, i + 1, Len(f))
  <2>2. InsertAfterDomain(f, new) = g
    BY <2>1 DEF InsertAfterDomain, i
  <2>3. g \in Seq(L) /\ Inserted(f, i, new, g)
    BY <2>1, InsertedIs
  <2> HIDE DEF g
  <2> QED BY <1>3, <2>1, <2>2, <2>3 DEF i
<1> QED BY <1>1, <1>2, <1>3

\* The first occurrence of a line replaced.
LEMMA ReplacedIs ==
  ASSUME NEW L, NEW f \in Seq(L), NEW old \in L, NEW new \in L
  PROVE  LET g == ReplaceFirstLine(f, old, new)
         IN /\ g \in Seq(L)
            /\ Len(g) = Len(f)
            /\ ~Holds(f, {old}) => g = f
            /\ Holds(f, {old}) =>
                 \E i \in 1 .. Len(f) : f[i] = old /\ g = [f EXCEPT ![i] = new]
BY FirstFound DEF ReplaceFirstLine, Holds

\* Where neither line counts, or both do, nothing changes; where only the old one
\* does, and was there once, it is gone.
LEMMA ReplacedAlike ==
  ASSUME NEW L, NEW f \in Seq(L), NEW old \in L, NEW new \in L, NEW S,
         old \in S <=> new \in S
  PROVE  Alike(f, ReplaceFirstLine(f, old, new), S)
<1> DEFINE g == ReplaceFirstLine(f, old, new)
<1>1. CASE ~Holds(f, {old})
  BY <1>1, ReplacedIs DEF Alike
<1>2. CASE Holds(f, {old})
  <2>1. PICK i \in 1 .. Len(f) : f[i] = old /\ g = [f EXCEPT ![i] = new]
    BY <1>2, ReplacedIs
  <2>2. Len(g) = Len(f)
    BY <2>1
  <2>3. \A k \in 1 .. Len(f) : g[k] \in S <=> f[k] \in S
    BY <2>1
  <2> HIDE DEF g
  <2>4. Alike(f, g, S)
    BY <2>2, <2>3 DEF Alike
  <2> QED BY <2>4 DEF g
<1> QED BY <1>1, <1>2

LEMMA ReplacedGone ==
  ASSUME NEW L, NEW f \in Seq(L), NEW old \in L, NEW new \in L, new # old, Once(f, {old})
  PROVE  ~Holds(ReplaceFirstLine(f, old, new), {old})
<1> DEFINE g == ReplaceFirstLine(f, old, new)
<1>1. CASE ~Holds(f, {old})
  BY <1>1, ReplacedIs
<1>2. CASE Holds(f, {old})
  <2>1. PICK i \in 1 .. Len(f) : f[i] = old /\ g = [f EXCEPT ![i] = new]
    BY <1>2, ReplacedIs
  <2>2. Len(g) = Len(f)
    BY <2>1
  <2>3. \A k \in 1 .. Len(f) : g[k] # old
    BY <2>1 DEF Once
  <2> HIDE DEF g
  <2>4. ~Holds(g, {old})
    BY <2>2, <2>3 DEF Holds
  <2> QED BY <2>4 DEF g
<1> QED BY <1>1, <1>2

\* Lines at the end.
LEMMA Appended ==
  ASSUME NEW L, NEW f \in Seq(L), NEW new \in Seq(L)
  PROVE  f \o new \in Seq(L) /\ Len(f) \in 0 .. Len(f) /\ Inserted(f, Len(f), new, f \o new)
<1>1. /\ f \o new \in Seq(L) /\ Len(f \o new) = Len(f) + Len(new)
      /\ \A j \in 1 .. Len(f) + Len(new) :
           (f \o new)[j] = IF j <= Len(f) THEN f[j] ELSE new[j - Len(f)]
  BY ConcatProperties
<1> DEFINE g == f \o new
<1>2. \A j \in 1 .. Len(f) : g[j] = f[j]
  BY <1>1
<1>3. ASSUME NEW j \in 1 .. Len(new) PROVE g[Len(f) + j] = new[j]
  <2>1. Len(f) + j \in 1 .. Len(f) + Len(new) /\ ~(Len(f) + j <= Len(f)) /\ (Len(f) + j) - Len(f) = j
    OBVIOUS
  <2> QED BY <1>1, <2>1
<1> HIDE DEF g
<1>4. Inserted(f, Len(f), new, g)
  BY <1>1, <1>2, <1>3 DEF Inserted, g
<1> QED BY <1>1, <1>4 DEF g

LEMMA LinesOfPhases ==
  /\ {"# note", "PANEL_DOMAIN=derived", "APP_URL=${DOMAIN}", "APP_URL=${PANEL_DOMAIN}",
      "STRATEGY=prefer_ipv4", "STRATEGY=ipv4_only", "TIMEOUT=2s", "DELAY=100ms"} \subseteq EnvLine
  /\ PanelLines \subseteq EnvLine
BY DEF EnvLine, Lines, KeyLines, Added, PanelLines, StrategyLines

\* The four phases: what each brings about, what it leaves as it was, and that it
\* does nothing where there is nothing to do.
LEMMA BackfillPanel ==
  ASSUME NEW f, WellFormed(f)
  PROVE  LET g == backfillPanelDomain(f)
         IN /\ WellFormed(g) /\ Derived(g)
            /\ Corrected(f) => Corrected(g)
            /\ DirectSet(f) => DirectSet(g)
            /\ Derived(f) => g = f
<1> USE DEF WellFormed
<1> DEFINE i == FirstOf(f, DomainLines)
           new == <<"# note", "PANEL_DOMAIN=derived">>
           g == backfillPanelDomain(f)
<1>1. Mentions(f, PanelLines) <=> Holds(f, PanelLines)
  BY MentionsMeans
<1>2. CASE Derived(f)
  <2>1. g = f
    BY <1>1, <1>2 DEF backfillPanelDomain, Derived
  <2> HIDE DEF g
  <2> QED BY <1>2, <2>1 DEF g
<1>3. CASE ~Derived(f)
  <2>1. ~Holds(f, PanelLines) /\ i # 0
    BY <1>3 DEF Derived
  <2>2. g = InsertAfterDomain(f, new)
    BY <1>1, <1>3 DEF backfillPanelDomain, Derived
  <2>3. new \in Seq(EnvLine)
    <3>1. "# note" \in EnvLine /\ "PANEL_DOMAIN=derived" \in EnvLine
      BY LinesOfPhases
    <3> QED BY <3>1, ShortFiles, Zenon
  <2> HIDE DEF g, i, new
  <2>4. g \in Seq(EnvLine) /\ i \in 0 .. Len(f) /\ Inserted(f, i, new, g)
    <3>1. g \in Seq(EnvLine) /\ i \in 1 .. Len(f) /\ Inserted(f, i, new, g)
      BY <2>1, <2>2, <2>3, BehindDomain DEF i
    <3> QED BY <3>1
  <2>5. ASSUME NEW S, "# note" \notin S, "PANEL_DOMAIN=derived" \notin S
        PROVE  (Holds(g, S) <=> Holds(f, S)) /\ (Once(f, S) => Once(g, S))
    <3>1. ~Holds(new, S)
      BY <2>5, TwoLines DEF new
    <3> QED BY <2>3, <2>4, <3>1, InsertedHolds, InsertedOnce
  <2>6. Holds(g, PanelLines) /\ Once(g, PanelLines)
    <3>1. Holds(new, PanelLines) /\ Once(new, PanelLines)
      <4>1. "# note" \notin PanelLines /\ "PANEL_DOMAIN=derived" \in PanelLines
        BY DEF PanelLines
      <4> QED BY <4>1, TwoLines DEF new
    <3> QED BY <2>1, <2>3, <2>4, <3>1, InsertedHolds, InsertedOnce
  <2>7. Once(g, Legacy) /\ Once(g, Preferred) /\ (Corrected(f) => Corrected(g))
    BY <2>5 DEF Legacy, Preferred, Corrected
  <2>8. DirectSet(f) => DirectSet(g)
    BY <2>5 DEF DirectSet, Preferred, StrategyLines, Timeout, Delay
  <2> QED BY <1>3, <2>4, <2>6, <2>7, <2>8 DEF Derived, g
<1> QED BY <1>2, <1>3

\* A definition that stands behind DOMAIN, below a reference above it, goes where it was.
LEMMA RelocateKeeps ==
  ASSUME NEW f, WellFormed(f), Placed(f)
  PROVE  relocatePanelDomain(f) = f
<1> USE DEF WellFormed
<1> DEFINE def == FirstOf(f, PanelLines)
           use == FirstOf(f, RefLines)
           dom == FirstOf(f, DomainLines)
<1>1. CASE def = 0 \/ use = 0 \/ def <= use
  BY <1>1 DEF relocatePanelDomain
<1>2. CASE ~(def = 0 \/ use = 0 \/ def <= use)
  <2> DEFINE g == RemoveAt(f, def)
             h == InsertAfterDomain(g, <<f[def]>>)
  <2>1. relocatePanelDomain(f) = h
    BY <1>2 DEF relocatePanelDomain
  <2>2. dom # 0 /\ def = dom + 1
    BY <1>2 DEF Placed
  <2>3. def \in 1 .. Len(f) /\ dom \in 1 .. Len(f) /\ f[dom] \in DomainLines
        /\ \A j \in 1 .. Len(f) : f[j] \in DomainLines => dom <= j
    BY <1>2, <2>2, FirstFound
  <2> HIDE DEF def, dom, use
  <2>4. /\ g \in Seq(EnvLine) /\ def - 1 \in 0 .. Len(g) /\ <<f[def]>> \in Seq(EnvLine)
        /\ Inserted(g, def - 1, <<f[def]>>, f)
    BY <2>3, Removed
  <2> HIDE DEF g
  <2>5. def - 1 = dom /\ dom \in 1 .. Len(g)
    BY <2>2, <2>3, <2>4
  <2>6. g[dom] = f[dom]
    BY <2>4, <2>5 DEF Inserted
  <2>7. ASSUME NEW j \in 1 .. Len(g), g[j] \in DomainLines PROVE dom <= j
    <3>1. CASE j <= dom
      <4>1. j \in 1 .. def - 1 /\ j \in 1 .. Len(f)
        BY <2>3, <2>5, <3>1
      <4>2. f[j] = g[j]
        BY <2>4, <4>1 DEF Inserted
      <4> QED BY <2>3, <2>7, <4>1, <4>2
    <3> QED BY <2>3, <3>1
  <2>8. FirstOf(g, DomainLines) = dom
    BY <2>3, <2>4, <2>5, <2>6, <2>7, FirstIs
  <2>9. h \in Seq(EnvLine) /\ Inserted(g, dom, <<f[def]>>, h)
    BY <2>3, <2>4, <2>8, BehindDomain, SMTT(30)
  <2> HIDE DEF h
  <2>10. h = f
    <3>1. Inserted(g, dom, <<f[def]>>, f) /\ dom \in 0 .. Len(g)
      BY <2>4, <2>5
    <3> QED BY <2>4, <2>9, <3>1, InsertedSame
  <2> QED BY <2>1, <2>10
<1> QED BY <1>1, <1>2

\* A definition that is moved goes behind DOMAIN, or is lost with it.
LEMMA Relocates ==
  ASSUME NEW f, WellFormed(f), Derived(f)
  PROVE  LET h == relocatePanelDomain(f)
         IN /\ WellFormed(h) /\ Derived(h) /\ Placed(h)
            /\ Corrected(f) => Corrected(h)
            /\ DirectSet(f) => DirectSet(h)
<1> USE DEF WellFormed
<1> DEFINE def == FirstOf(f, PanelLines)
           use == FirstOf(f, RefLines)
<1>1. CASE def = 0 \/ use = 0 \/ def <= use
  <2>1. relocatePanelDomain(f) = f
    BY <1>1 DEF relocatePanelDomain
  <2> QED BY <1>1, <2>1 DEF Placed
<1>2. CASE ~(def = 0 \/ use = 0 \/ def <= use)
  <2> DEFINE g == RemoveAt(f, def)
             l == f[def]
             h == InsertAfterDomain(g, <<l>>)
             dom == FirstOf(g, DomainLines)
  <2>1. relocatePanelDomain(f) = h
    BY <1>2 DEF relocatePanelDomain
  <2>2. def \in 1 .. Len(f) /\ l \in PanelLines /\ l \in EnvLine
    BY <1>2, FirstFound
  <2> HIDE DEF def, use
  <2>3. /\ g \in Seq(EnvLine) /\ def - 1 \in 0 .. Len(g) /\ <<l>> \in Seq(EnvLine)
        /\ Inserted(g, def - 1, <<l>>, f)
    BY <2>2, Removed
  <2> HIDE DEF g, l
  <2>4. ~Holds(g, PanelLines)
    BY <2>2, <2>3, RemovedOnce
  <2>5. ASSUME NEW S, S \cap PanelLines = {}
        PROVE  (Holds(g, S) <=> Holds(f, S)) /\ (Once(f, S) => Once(g, S))
    <3>1. l \notin S
      BY <2>2, <2>5
    <3>2. ~Holds(<<l>>, S)
      BY <3>1, SingleLine
    <3>3. Holds(g, S) <=> Holds(f, S)
      <4>1. f \in Seq(EnvLine)
        OBVIOUS
      <4>2. Holds(f, S) <=> Holds(g, S) \/ Holds(<<l>>, S)
        BY <2>3, <4>1, InsertedHolds, ZenonT(40)
      <4> QED BY <3>2, <4>2
    <3>4. Once(f, S) => Once(g, S)
      BY <2>2, <2>3, RemovedOnce
    <3> QED BY <3>3, <3>4
  <2>6. /\ h \in Seq(EnvLine)
        /\ dom = 0 => h = g
        /\ dom # 0 => dom \in 1 .. Len(g) /\ Inserted(g, dom, <<l>>, h)
    BY <2>3, BehindDomain
  <2> HIDE DEF h, dom
  <2>7. CASE dom = 0
    <3>1. h = g
      BY <2>6, <2>7
    <3>2. FirstOf(h, PanelLines) = 0 /\ Once(h, PanelLines) /\ FirstOf(h, DomainLines) = 0
      BY <2>3, <2>4, <2>7, <3>1, FirstIsZero DEF Holds, Once, dom
    <3>3. Once(h, Legacy) /\ Once(h, Preferred) /\ (Corrected(f) => Corrected(h))
      <4>1. Legacy \cap PanelLines = {} /\ Preferred \cap PanelLines = {}
        BY DEF Legacy, Preferred, PanelLines
      <4> QED BY <2>5, <3>1, <4>1 DEF Corrected
    <3>4. DirectSet(f) => DirectSet(h)
      <4>1. /\ Preferred \cap PanelLines = {} /\ StrategyLines \cap PanelLines = {}
            /\ Timeout \cap PanelLines = {} /\ Delay \cap PanelLines = {}
        BY DEF Preferred, StrategyLines, Timeout, Delay, PanelLines
      <4> QED BY <2>5, <3>1, <4>1 DEF DirectSet
    <3> QED BY <2>1, <2>6, <3>2, <3>3, <3>4 DEF Derived, Placed
  <2>8. CASE dom # 0
    <3>1. dom \in 1 .. Len(g) /\ dom \in 0 .. Len(g) /\ Inserted(g, dom, <<l>>, h)
      BY <2>6, <2>8
    <3>2. ASSUME NEW S, S \cap PanelLines = {}
          PROVE  (Holds(h, S) <=> Holds(f, S)) /\ (Once(f, S) => Once(h, S))
      <4>1. l \notin S
        BY <2>2, <3>2
      <4>2. ~Holds(<<l>>, S)
        BY <4>1, SingleLine
      <4>3. (Holds(h, S) <=> Holds(g, S)) /\ (Once(g, S) => Once(h, S))
        BY <2>3, <2>6, <3>1, <4>2, InsertedHolds, InsertedOnce
      <4>4. (Holds(g, S) <=> Holds(f, S)) /\ (Once(f, S) => Once(g, S))
        BY <2>5, <3>2
      <4> QED BY <4>3, <4>4
    <3>3. Holds(h, PanelLines) /\ Once(h, PanelLines)
      <4>1. Holds(<<l>>, PanelLines) /\ Once(<<l>>, PanelLines)
        BY <2>2, SingleLine
      <4> QED BY <2>3, <2>4, <2>6, <3>1, <4>1, InsertedHolds, InsertedOnce
    <3>4. FirstOf(h, DomainLines) = dom
      <4>1. FirstOf(g, DomainLines) \in 1 .. dom
        BY <3>1 DEF dom
      <4> DEFINE nl == <<l>>
      <4>2. nl \in Seq(EnvLine) /\ dom \in 0 .. Len(g) /\ Inserted(g, dom, nl, h)
        BY <2>3, <3>1
      <4>3. g \in Seq(EnvLine) /\ h \in Seq(EnvLine)
        BY <2>3, <2>6
      <4> HIDE DEF nl
      <4>4. FirstOf(h, DomainLines) = FirstOf(g, DomainLines)
        BY <4>1, <4>2, <4>3, InsertedFirst
      <4> QED BY <4>4 DEF dom
    <3>5. dom + 1 \in 1 .. Len(h) /\ h[dom + 1] = l
      <4>1. Len(<<l>>) = 1 /\ <<l>>[1] = l
        OBVIOUS
      <4>2. Len(h) = Len(g) + 1
        BY <3>1, <4>1 DEF Inserted
      <4>3. h[dom + 1] = <<l>>[1]
        BY <3>1, <4>1 DEF Inserted
      <4> QED BY <3>1, <4>1, <4>2, <4>3
    <3>6. FirstOf(h, PanelLines) = dom + 1
      <4>1. \A j \in 1 .. Len(h) : h[j] \in PanelLines => j = dom + 1
        BY <2>2, <3>3, <3>5 DEF Once
      <4>2. \A j \in 1 .. Len(h) : h[j] \in PanelLines => dom + 1 <= j
        BY <4>1, <3>5
      <4> QED BY <2>2, <2>6, <3>5, <4>2, FirstIs
    <3>7. Once(h, Legacy) /\ Once(h, Preferred) /\ (Corrected(f) => Corrected(h))
      <4>1. Legacy \cap PanelLines = {} /\ Preferred \cap PanelLines = {}
        BY DEF Legacy, Preferred, PanelLines
      <4> QED BY <3>2, <4>1 DEF Corrected
    <3>8. DirectSet(f) => DirectSet(h)
      <4>1. /\ Preferred \cap PanelLines = {} /\ StrategyLines \cap PanelLines = {}
            /\ Timeout \cap PanelLines = {} /\ Delay \cap PanelLines = {}
        BY DEF Preferred, StrategyLines, Timeout, Delay, PanelLines
      <4> QED BY <3>2, <4>1 DEF DirectSet
    <3>9. Placed(h)
      BY <2>8, <3>4, <3>6 DEF Placed
    <3> QED BY <2>1, <2>6, <3>3, <3>7, <3>8, <3>9 DEF Derived
  <2> QED BY <2>7, <2>8
<1> QED BY <1>1, <1>2

\* What APP_URL refers to is PANEL_DOMAIN afterwards.
LEMMA FixUrl ==
  ASSUME NEW f, WellFormed(f), Derived(f)
  PROVE  LET g == fixLegacyAppUrl(f)
         IN /\ WellFormed(g) /\ Derived(g) /\ Corrected(g)
            /\ DirectSet(f) => DirectSet(g)
            /\ Corrected(f) => g = f
<1> USE DEF WellFormed
<1> DEFINE old == "APP_URL=${DOMAIN}"
           new == "APP_URL=${PANEL_DOMAIN}"
           g == fixLegacyAppUrl(f)
<1>1. g = ReplaceFirstLine(f, old, new) /\ old \in EnvLine /\ new \in EnvLine /\ old # new
      /\ Legacy = {old}
  BY LinesOfPhases DEF fixLegacyAppUrl, Legacy
<1>2. /\ old \notin PanelLines /\ new \notin PanelLines
      /\ old \notin DomainLines /\ new \notin DomainLines
      /\ old \notin {"DOMAIN="} /\ new \notin {"DOMAIN="}
      /\ old \notin Preferred /\ new \notin Preferred
      /\ old \notin StrategyLines /\ new \notin StrategyLines
      /\ old \notin Timeout /\ new \notin Timeout
      /\ old \notin Delay /\ new \notin Delay
  BY DEF PanelLines, DomainLines, Preferred, StrategyLines, Timeout, Delay
<1> HIDE DEF old, new, g
<1>3. g \in Seq(EnvLine) /\ (~Holds(f, {old}) => g = f)
  BY <1>1, ReplacedIs
<1>4. ASSUME NEW S, old \notin S, new \notin S
      PROVE  /\ Alike(f, g, S) /\ (Holds(g, S) <=> Holds(f, S))
             /\ Once(g, S) <=> Once(f, S)
             /\ FirstOf(g, S) = FirstOf(f, S)
  <2>1. Alike(f, g, S)
    BY <1>1, <1>4, ReplacedAlike
  <2> QED BY <1>3, <2>1, AlikeKept
<1>5. Corrected(g)
  BY <1>1, ReplacedGone DEF Corrected
<1>6. Once(g, Legacy)
  BY <1>5 DEF Once, Holds, Corrected
<1>7. Derived(g)
  <2>1. Holds(g, PanelLines) <=> Holds(f, PanelLines)
    BY <1>2, <1>4
  <2>2. FirstOf(g, DomainLines) = FirstOf(f, DomainLines)
    BY <1>2, <1>4
  <2>3. Alike(f, g, {"DOMAIN="})
    BY <1>2, <1>4
  <2>4. FirstOf(f, DomainLines) = 0 \/ FirstOf(f, DomainLines) \in 1 .. Len(f)
    BY FirstFound
  <2> QED BY <2>1, <2>2, <2>3, <2>4 DEF Derived, Alike
<1>8. DirectSet(f) => DirectSet(g)
  BY <1>2, <1>4 DEF DirectSet
<1>9. Once(g, PanelLines) /\ Once(g, Preferred)
  BY <1>2, <1>4
<1>10. Corrected(f) => g = f
  BY <1>1, <1>3 DEF Corrected
<1> QED BY <1>3, <1>5, <1>6, <1>7, <1>8, <1>9, <1>10 DEF g

\* The same of lines at the end.
LEMMA AppendedHolds ==
  ASSUME NEW L, NEW f \in Seq(L), NEW new \in Seq(L), NEW S
  PROVE  /\ f \o new \in Seq(L)
         /\ Holds(f \o new, S) <=> Holds(f, S) \/ Holds(new, S)
<1> DEFINE g == f \o new
           n == Len(f)
<1>1. g \in Seq(L) /\ n \in 0 .. Len(f) /\ Inserted(f, n, new, g)
  BY Appended
<1> HIDE DEF g, n
<1>2. Holds(g, S) <=> Holds(f, S) \/ Holds(new, S)
  BY <1>1, InsertedHolds, Zenon
<1> QED BY <1>1, <1>2 DEF g

LEMMA AppendedOnce ==
  ASSUME NEW L, NEW f \in Seq(L), NEW new \in Seq(L), NEW S, ~Holds(new, S), Once(f, S)
  PROVE  Once(f \o new, S)
<1> DEFINE g == f \o new
           n == Len(f)
<1>1. g \in Seq(L) /\ n \in 0 .. Len(f) /\ Inserted(f, n, new, g)
  BY Appended
<1> HIDE DEF g, n
<1>2. Once(g, S)
  BY <1>1, InsertedOnce
<1> QED BY <1>2 DEF g

LEMMA AppendedFirst ==
  ASSUME NEW L, NEW f \in Seq(L), NEW new \in Seq(L), NEW S, ~Holds(new, S)
  PROVE  /\ FirstOf(f \o new, S) = FirstOf(f, S)
         /\ FirstOf(f, S) # 0 => (f \o new)[FirstOf(f, S)] = f[FirstOf(f, S)]
<1> DEFINE g == f \o new
           n == Len(f)
<1>1. g \in Seq(L) /\ n \in 0 .. Len(f) /\ Inserted(f, n, new, g)
  BY Appended
<1>2. FirstOf(f, S) # 0 => FirstOf(f, S) \in 1 .. n
  BY FirstFound
<1> HIDE DEF g, n
<1>3. ASSUME FirstOf(f, S) # 0
      PROVE  FirstOf(g, S) = FirstOf(f, S) /\ g[FirstOf(f, S)] = f[FirstOf(f, S)]
  <2>1. FirstOf(f, S) \in 1 .. n
    BY <1>2, <1>3
  <2>2. FirstOf(g, S) = FirstOf(f, S) /\ g[FirstOf(g, S)] = f[FirstOf(f, S)]
    BY <1>1, <2>1, InsertedFirst
  <2> QED BY <2>2
<1>4. ASSUME FirstOf(f, S) = 0 PROVE FirstOf(g, S) = 0
  <2>1. ~Holds(f, S)
    BY <1>4, FirstIsZero
  <2>2. ~Holds(g, S)
    BY <1>1, <2>1, InsertedHolds
  <2> QED BY <1>1, <2>2, FirstIsZero
<1> QED BY <1>3, <1>4 DEF g

\* A default is given where the key is missing, and only there.
LEMMA DefaultIs ==
  ASSUME NEW L, NEW f \in Seq(L), NEW K, NEW l \in L, l \in K
  PROVE  LET d == DefaultFor(f, K, l)
         IN /\ d \in Seq(L)
            /\ \A S : l \notin S => ~Holds(d, S)
            /\ Holds(f, K) \/ Holds(d, K)
            /\ Holds(f, K) => d = <<>>
<1>1. Mentions(f, K) <=> Holds(f, K)
  BY MentionsMeans
<1>2. <<>> \in Seq(L) /\ <<l>> \in Seq(L)
  OBVIOUS
<1>3. CASE Holds(f, K)
  <2>1. DefaultFor(f, K, l) = <<>>
    BY <1>1, <1>3 DEF DefaultFor
  <2> QED BY <1>2, <1>3, <2>1, EmptyHolds
<1>4. CASE ~Holds(f, K)
  <2>1. DefaultFor(f, K, l) = <<l>>
    BY <1>1, <1>4 DEF DefaultFor
  <2> QED BY <1>2, <1>4, <2>1, SingleLine
<1> QED BY <1>3, <1>4

LEMMA BackfillDirect ==
  ASSUME NEW f, WellFormed(f), Derived(f), Corrected(f)
  PROVE  LET h == backfillSingboxDirectDefaults(f)
         IN /\ WellFormed(h) /\ Derived(h) /\ Corrected(h) /\ DirectSet(h)
            /\ DirectSet(f) => h = f
<1> USE DEF WellFormed
<1> DEFINE old == "STRATEGY=prefer_ipv4"
           new == "STRATEGY=ipv4_only"
           note == "# note"
           time == "TIMEOUT=2s"
           del == "DELAY=100ms"
           g == ReplaceFirstLine(f, old, new)
           a == DefaultFor(g, StrategyLines, new)
           b == DefaultFor(g, Timeout, time)
           c == DefaultFor(g, Delay, del)
           missing == a \o b \o c
           h == backfillSingboxDirectDefaults(f)
<1>1. h = IF missing = <<>> THEN g ELSE g \o <<note>> \o missing
  BY DEF backfillSingboxDirectDefaults, Timeout, Delay
<1>2. /\ old \in EnvLine /\ new \in EnvLine /\ note \in EnvLine /\ time \in EnvLine /\ del \in EnvLine
      /\ old # new /\ Preferred = {old}
  BY LinesOfPhases DEF Preferred
<1>3. /\ old \in StrategyLines /\ new \in StrategyLines /\ time \in Timeout /\ del \in Delay
      /\ old \notin PanelLines /\ old \notin DomainLines /\ old \notin {"DOMAIN="}
      /\ old \notin Legacy /\ old \notin Timeout /\ old \notin Delay
      /\ \A l \in {new, note, time, del} :
           /\ l \notin PanelLines /\ l \notin DomainLines /\ l \notin {"DOMAIN="}
           /\ l \notin Legacy /\ l \notin Preferred
      /\ new \notin Timeout /\ new \notin Delay
  BY DEF StrategyLines, Timeout, Delay, PanelLines, DomainLines, Legacy, Preferred
<1> HIDE DEF old, new, note, time, del, g, h
<1>4. g \in Seq(EnvLine) /\ (~Holds(f, {old}) => g = f)
  BY <1>2, ReplacedIs DEF g
<1>5. ASSUME NEW S, old \in S <=> new \in S
      PROVE  /\ Alike(f, g, S) /\ (Holds(g, S) <=> Holds(f, S))
             /\ Once(g, S) <=> Once(f, S)
             /\ FirstOf(g, S) = FirstOf(f, S)
  <2>1. Alike(f, g, S)
    BY <1>2, <1>5, ReplacedAlike DEF g
  <2> QED BY <1>4, <2>1, AlikeKept
<1>6. ~Holds(g, Preferred)
  BY <1>2, ReplacedGone DEF g
<1>7. Derived(g)
  <2>1. Holds(g, PanelLines) <=> Holds(f, PanelLines)
    BY <1>3, <1>5
  <2>2. FirstOf(g, DomainLines) = FirstOf(f, DomainLines)
    BY <1>3, <1>5
  <2>3. Alike(f, g, {"DOMAIN="})
    BY <1>3, <1>5
  <2>4. FirstOf(f, DomainLines) = 0 \/ FirstOf(f, DomainLines) \in 1 .. Len(f)
    BY FirstFound
  <2> QED BY <2>1, <2>2, <2>3, <2>4 DEF Derived, Alike
<1>8. ~Holds(g, Legacy) /\ Once(g, PanelLines) /\ Once(g, Legacy)
  BY <1>3, <1>5 DEF Corrected
<1>9. /\ a \in Seq(EnvLine) /\ b \in Seq(EnvLine) /\ c \in Seq(EnvLine)
      /\ \A S : new \notin S => ~Holds(a, S)
      /\ \A S : time \notin S => ~Holds(b, S)
      /\ \A S : del \notin S => ~Holds(c, S)
      /\ Holds(g, StrategyLines) \/ Holds(a, StrategyLines)
      /\ Holds(g, Timeout) \/ Holds(b, Timeout)
      /\ Holds(g, Delay) \/ Holds(c, Delay)
      /\ Holds(g, StrategyLines) /\ Holds(g, Timeout) /\ Holds(g, Delay) =>
           a = <<>> /\ b = <<>> /\ c = <<>>
  <2>1. LET d == DefaultFor(g, StrategyLines, new)
        IN /\ d \in Seq(EnvLine)
           /\ \A S : new \notin S => ~Holds(d, S)
           /\ Holds(g, StrategyLines) \/ Holds(d, StrategyLines)
           /\ Holds(g, StrategyLines) => d = <<>>
    BY <1>2, <1>3, <1>4, DefaultIs
  <2>2. LET d == DefaultFor(g, Timeout, time)
        IN /\ d \in Seq(EnvLine)
           /\ \A S : time \notin S => ~Holds(d, S)
           /\ Holds(g, Timeout) \/ Holds(d, Timeout)
           /\ Holds(g, Timeout) => d = <<>>
    BY <1>2, <1>3, <1>4, DefaultIs
  <2>3. LET d == DefaultFor(g, Delay, del)
        IN /\ d \in Seq(EnvLine)
           /\ \A S : del \notin S => ~Holds(d, S)
           /\ Holds(g, Delay) \/ Holds(d, Delay)
           /\ Holds(g, Delay) => d = <<>>
    BY <1>2, <1>3, <1>4, DefaultIs
  <2> QED BY <2>1, <2>2, <2>3
<1>10. DirectSet(f) => h = f
  <2> SUFFICES ASSUME DirectSet(f) PROVE h = f
    OBVIOUS
  <2>1. g = f
    BY <1>2, <1>4 DEF DirectSet
  <2>2. a = <<>> /\ b = <<>> /\ c = <<>>
    BY <1>9, <2>1 DEF DirectSet
  <2>3. <<>> \o <<>> \o <<>> = <<>>
    OBVIOUS
  <2>4. missing = <<>>
    BY <2>2, <2>3, Zenon
  <2> HIDE DEF missing
  <2> QED BY <1>1, <2>1, <2>4
<1> HIDE DEF a, b, c
<1>11. /\ missing \in Seq(EnvLine)
       /\ \A S : Holds(missing, S) <=> Holds(a, S) \/ Holds(b, S) \/ Holds(c, S)
  <2> DEFINE ab == a \o b
  <2>1. ab \in Seq(EnvLine) /\ \A S : Holds(ab, S) <=> Holds(a, S) \/ Holds(b, S)
    BY <1>9, AppendedHolds, Zenon
  <2> HIDE DEF ab
  <2>2. ab \o c \in Seq(EnvLine) /\ \A S : Holds(ab \o c, S) <=> Holds(ab, S) \/ Holds(c, S)
    BY <1>9, <2>1, AppendedHolds, Zenon
  <2> QED BY <2>1, <2>2 DEF ab
<1> HIDE DEF missing
<1>12. CASE missing = <<>>
  <2>1. h = g
    BY <1>1, <1>12
  <2>2. ~Holds(a, StrategyLines) /\ ~Holds(b, Timeout) /\ ~Holds(c, Delay)
    BY <1>11, <1>12, EmptyHolds
  <2>3. DirectSet(g)
    BY <1>6, <1>9, <2>2 DEF DirectSet
  <2>4. Once(g, Preferred)
    BY <1>6 DEF Once, Holds
  <2> QED BY <1>4, <1>7, <1>8, <1>10, <2>1, <2>3, <2>4 DEF Corrected, h
<1>13. CASE missing # <<>>
  <2> DEFINE gn == g \o <<note>>
             nl == <<note>>
  <2>1. h = gn \o missing
    BY <1>1, <1>13
  <2>2. <<note>> \in Seq(EnvLine)
    BY <1>2, ShortFiles, Zenon
  <2>3. ASSUME NEW S
        PROVE  /\ gn \in Seq(EnvLine)
               /\ Holds(gn, S) <=> Holds(g, S) \/ Holds(<<note>>, S)
               /\ ~Holds(<<note>>, S) =>
                    /\ Once(g, S) => Once(gn, S)
                    /\ FirstOf(gn, S) = FirstOf(g, S)
                    /\ FirstOf(g, S) # 0 => gn[FirstOf(g, S)] = g[FirstOf(g, S)]
    <3>1. nl \in Seq(EnvLine) /\ gn = g \o nl
      BY <2>2
    <3> HIDE DEF gn, nl
    <3>2. /\ gn \in Seq(EnvLine)
          /\ Holds(gn, S) <=> Holds(g, S) \/ Holds(nl, S)
          /\ ~Holds(nl, S) =>
               /\ Once(g, S) => Once(gn, S)
               /\ FirstOf(gn, S) = FirstOf(g, S)
               /\ FirstOf(g, S) # 0 => gn[FirstOf(g, S)] = g[FirstOf(g, S)]
      <4>1. gn \in Seq(EnvLine) /\ (Holds(gn, S) <=> Holds(g, S) \/ Holds(nl, S))
        BY <1>4, <3>1, AppendedHolds
      <4>2. ~Holds(nl, S) /\ Once(g, S) => Once(gn, S)
        BY <1>4, <3>1, AppendedOnce
      <4>3. ~Holds(nl, S) =>
              /\ FirstOf(gn, S) = FirstOf(g, S)
              /\ FirstOf(g, S) # 0 => gn[FirstOf(g, S)] = g[FirstOf(g, S)]
        BY <1>4, <3>1, AppendedFirst
      <4> QED BY <4>1, <4>2, <4>3
    <3> QED BY <3>2 DEF nl
  <2> HIDE DEF gn
  <2>4. gn \in Seq(EnvLine)
    BY <2>3
  <2>5. ASSUME NEW S
        PROVE  /\ h \in Seq(EnvLine)
               /\ Holds(h, S) <=> Holds(gn, S) \/ Holds(missing, S)
               /\ ~Holds(missing, S) =>
                    /\ Once(gn, S) => Once(h, S)
                    /\ FirstOf(h, S) = FirstOf(gn, S)
                    /\ FirstOf(gn, S) # 0 => h[FirstOf(gn, S)] = gn[FirstOf(gn, S)]
    <3>1. h \in Seq(EnvLine) /\ (Holds(h, S) <=> Holds(gn, S) \/ Holds(missing, S))
      BY <1>11, <2>1, <2>4, AppendedHolds
    <3>2. ~Holds(missing, S) /\ Once(gn, S) => Once(h, S)
      BY <1>11, <2>1, <2>4, AppendedOnce
    <3>3. ~Holds(missing, S) =>
            /\ FirstOf(h, S) = FirstOf(gn, S)
            /\ FirstOf(gn, S) # 0 => h[FirstOf(gn, S)] = gn[FirstOf(gn, S)]
      BY <1>11, <2>1, <2>4, AppendedFirst
    <3> QED BY <3>1, <3>2, <3>3
  <2>6. ASSUME NEW S, new \notin S, note \notin S, time \notin S, del \notin S
        PROVE  /\ Holds(h, S) <=> Holds(g, S)
               /\ Once(g, S) => Once(h, S)
               /\ FirstOf(h, S) = FirstOf(g, S)
               /\ FirstOf(g, S) # 0 => h[FirstOf(g, S)] = g[FirstOf(g, S)]
    <3>1. ~Holds(missing, S)
      BY <1>9, <1>11, <2>6
    <3>2. ~Holds(<<note>>, S)
      BY <2>6, SingleLine
    <3> QED BY <2>3, <2>5, <3>1, <3>2
  <2>7. DirectSet(h)
    <3>1. ~Holds(h, Preferred)
      BY <1>3, <1>6, <2>6
    <3>2. Holds(h, StrategyLines) /\ Holds(h, Timeout) /\ Holds(h, Delay)
      BY <1>9, <1>11, <2>3, <2>5
    <3> QED BY <3>1, <3>2 DEF DirectSet
  <2>8. Derived(h)
    BY <1>3, <1>7, <2>6 DEF Derived
  <2>9. Corrected(h) /\ Once(h, PanelLines) /\ Once(h, Legacy)
    BY <1>3, <1>8, <2>6 DEF Corrected
  <2>10. Once(h, Preferred)
    BY <2>7 DEF DirectSet, Once, Holds
  <2> QED BY <1>10, <2>5, <2>7, <2>8, <2>9, <2>10 DEF h
<1> QED BY <1>12, <1>13

\* What one update makes of a file.
LEMMA Migrates ==
  ASSUME NEW f, WellFormed(f)
  PROVE  LET g == migrateEnv(f)
         IN /\ WellFormed(g) /\ Derived(g) /\ Corrected(g) /\ DirectSet(g)
            /\ Derived(f) /\ Corrected(f) /\ DirectSet(f) => Placed(g)
            /\ Derived(f) /\ Corrected(f) /\ DirectSet(f) /\ Placed(f) => g = f
<1> DEFINE a == backfillPanelDomain(f)
           b == relocatePanelDomain(a)
           c == fixLegacyAppUrl(b)
           d == backfillSingboxDirectDefaults(c)
<1>1. migrateEnv(f) = d
  BY DEF migrateEnv
<1>2. /\ WellFormed(a) /\ Derived(a)
      /\ Corrected(f) => Corrected(a)
      /\ DirectSet(f) => DirectSet(a)
      /\ Derived(f) => a = f
  BY BackfillPanel
<1> HIDE DEF a
<1>3. /\ WellFormed(b) /\ Derived(b) /\ Placed(b)
      /\ Corrected(a) => Corrected(b)
      /\ DirectSet(a) => DirectSet(b)
      /\ Placed(a) => b = a
  BY <1>2, Relocates, RelocateKeeps
<1> HIDE DEF b
<1>4. /\ WellFormed(c) /\ Derived(c) /\ Corrected(c)
      /\ DirectSet(b) => DirectSet(c)
      /\ Corrected(b) => c = b
  BY <1>3, FixUrl
<1> HIDE DEF c
<1>5. /\ WellFormed(d) /\ Derived(d) /\ Corrected(d) /\ DirectSet(d)
      /\ DirectSet(c) => d = c
  BY <1>4, BackfillDirect
<1> HIDE DEF d
<1> QED BY <1>1, <1>2, <1>3, <1>4, <1>5

\* No key twice: at most one line of each kind.
LEMMA FirstWellFormed == EnvFileInit => WellFormed(file)
<1> SUFFICES ASSUME EnvFileInit PROVE WellFormed(file)
  OBVIOUS
<1>1. PICK n \in 0 .. MaxLines : file \in [1 .. n -> Lines]
  BY DEF EnvFileInit
<1>2. file \in Seq(Lines) /\ DOMAIN file = 1 .. Len(file) /\ Len(file) \in Nat
  BY <1>1
<1>3. file \in Seq(EnvLine)
  BY <1>2 DEF EnvLine
<1>4. ASSUME NEW K \in KeyLines PROVE Once(file, K)
  <2> SUFFICES ASSUME NEW i \in 1 .. Len(file), NEW j \in 1 .. Len(file),
                      file[i] \in K, file[j] \in K, i # j
               PROVE  FALSE
    BY DEF Once
  <2> DEFINE I == {k \in DOMAIN file : file[k] \in K}
  <2>1. Cardinality(I) <= 1
    BY DEF EnvFileInit
  <2>2. {i, j} \subseteq I /\ IsFiniteSet(I)
    <3>1. IsFiniteSet(1 .. Len(file))
      BY <1>2, FS_Interval
    <3>2. I \subseteq 1 .. Len(file)
      BY <1>2
    <3>3. IsFiniteSet(I)
      BY <3>1, <3>2, FS_Subset
    <3> QED BY <1>2, <3>3
  <2> HIDE DEF I
  <2>3. Cardinality({i, j}) = 2 /\ Cardinality(I) \in Nat
    <3>1. IsFiniteSet({i}) /\ Cardinality({i}) = 1
      BY FS_Singleton
    <3>2. j \notin {i} /\ {i} \cup {j} = {i, j}
      OBVIOUS
    <3>3. Cardinality({i} \cup {j}) = 2
      <4>1. Cardinality({i} \cup {j}) = Cardinality({i}) + 1
        BY <3>1, <3>2, FS_AddElement, Zenon
      <4> QED BY <3>1, <4>1
    <3> QED BY <2>2, <3>2, <3>3, FS_CardinalityType
  <2>4. Cardinality({i, j}) <= Cardinality(I)
    BY <2>2, FS_Subset
  <2> QED BY <2>1, <2>3, <2>4
<1>5. ASSUME NEW K \in KeyLines, NEW S, S \subseteq K PROVE Once(file, S)
  BY <1>4, <1>5 DEF Once
<1>6. Once(file, Legacy)
  <2>1. {"APP_URL=${DOMAIN}", "APP_URL=${PANEL_DOMAIN}"} \in KeyLines
    BY DEF KeyLines
  <2> QED BY <1>5, <2>1 DEF Legacy
<1>7. Once(file, Preferred)
  <2>1. StrategyLines \in KeyLines
    BY DEF KeyLines
  <2>2. Preferred \subseteq StrategyLines
    BY DEF Preferred, StrategyLines
  <2> QED BY <1>5, <2>1, <2>2
<1>8. Once(file, PanelLines)
  <2>1. {"PANEL_DOMAIN=own"} \in KeyLines
    BY DEF KeyLines
  <2>2. Once(file, {"PANEL_DOMAIN=own"})
    BY <1>4, <2>1
  <2>3. \A l \in Lines : l \in PanelLines => l = "PANEL_DOMAIN=own"
    BY DEF Lines, KeyLines, PanelLines, DomainLines, StrategyLines
  <2>4. \A k \in 1 .. Len(file) : file[k] \in Lines
    BY <1>2
  <2>5. \A k \in 1 .. Len(file) : file[k] \in PanelLines => file[k] \in {"PANEL_DOMAIN=own"}
    BY <2>3, <2>4
  <2> QED BY <2>2, <2>5 DEF Once
<1> QED BY <1>3, <1>6, <1>7, <1>8 DEF WellFormed

LEMMA MigrationInit == EnvFileInit => MigrationInv
BY FirstWellFormed DEF EnvFileInit, MigrationInv

LEMMA MigrationStep == MigrationInv /\ [EnvFileNext]_envFileVars => MigrationInv'
<1> SUFFICES ASSUME MigrationInv, [EnvFileNext]_envFileVars PROVE MigrationInv'
  OBVIOUS
<1>1. CASE migrateEnvFile
  <2>1. updates' = updates + 1 /\ updates \in 0 .. 2 /\ file' = migrateEnv(file)
    BY <1>1 DEF migrateEnvFile, MigrationInv
  <2>2. WellFormed(file') /\ Derived(file') /\ Corrected(file') /\ DirectSet(file')
    BY <2>1, Migrates DEF MigrationInv
  <2>3. updates > 0 => Placed(file')
    BY <2>1, Migrates DEF MigrationInv
  <2> QED BY <2>1, <2>2, <2>3 DEF MigrationInv
<1>2. CASE UNCHANGED envFileVars
  BY <1>2 DEF envFileVars, MigrationInv
<1> QED BY <1>1, <1>2 DEF EnvFileNext

LEMMA MigrationInvariance == EnvFileSpec => []MigrationInv
BY MigrationInit, MigrationStep, PTL DEF EnvFileSpec

\* The lines of `.env` remain lines the migration knows, however long the file is.
THEOREM EnvFileTypeCorrect == EnvFileSpec => []EnvFileTypeOK
<1>1. MigrationInv => EnvFileTypeOK
  BY DEF MigrationInv, WellFormed, EnvFileTypeOK, EnvLine
<1> QED BY <1>1, MigrationInvariance, PTL

LEMMA SettledResolves ==
  ASSUME WellFormed(file), Derived(file), Placed(file) PROVE EnvResolves
<1> DEFINE dom == FirstOf(file, DomainLines)
           use == FirstOf(file, RefLines)
           def == FirstOf(file, PanelLines)
<1>1. ASSUME dom # 0, file[dom] # "DOMAIN=", use > dom PROVE def \in 1 .. use
  <2>1. dom \in Nat /\ use \in Nat /\ def \in Nat
    BY FirstFound DEF WellFormed
  <2>2. Holds(file, PanelLines)
    BY <1>1 DEF Derived
  <2>3. def # 0
    BY <2>2, FirstIsZero DEF WellFormed
  <2>4. use # 0
    BY <1>1, <2>1
  <2>5. def <= use \/ def = dom + 1
    BY <2>3, <2>4 DEF Placed
  <2> QED BY <1>1, <2>1, <2>3, <2>5
<1> QED BY <1>1 DEF EnvResolves

\* However many lines the file has and whatever it says, as long as it gives no key
\* twice: from the second update on the migration leaves it as it is, with PANEL_DOMAIN
\* above what refers to it.
THEOREM EnvSettlesHolds == EnvFileSpec => EnvSettles
<1>1. MigrationInv /\ [EnvFileNext]_envFileVars
        => [updates >= 2 => file' = file /\ EnvResolves]_envFileVars
  <2> SUFFICES ASSUME MigrationInv, EnvFileNext, updates >= 2
               PROVE  file' = file /\ EnvResolves
    OBVIOUS
  <2>1. updates > 1 /\ updates > 0
    BY DEF MigrationInv
  <2>2. WellFormed(file) /\ Derived(file) /\ Corrected(file) /\ DirectSet(file) /\ Placed(file)
    BY <2>1 DEF MigrationInv
  <2>3. file' = file
    BY <2>2, Migrates DEF EnvFileNext, migrateEnvFile
  <2> QED BY <2>2, <2>3, SettledResolves
<1> QED BY <1>1, MigrationInvariance, PTL DEF EnvFileSpec, EnvSettles

-----------------------------------------------------------------------------
(* The host: each of its parts does what its own specification lets it do. *)

LEMMA HostInit ==
  Init => SettingsInit /\ RetentionInit /\ EnvFileInit /\ BundleInit /\ HealthInit
BY DEF Init

LEMMA HostStep ==
  [Next]_hostVars =>
    /\ [SettingsNext]_settingsVars /\ [RetentionNext]_retentionVars
    /\ [EnvFileNext]_envFileVars /\ [BundleNext]_bundleVars /\ [HealthNext]_healthVars
<1>1. CASE InSettings(SettingsNext)
  BY <1>1 DEF InSettings, AtRest
<1>2. CASE InJobs(RetentionNext)
  BY <1>2 DEF InJobs, AtRest
<1>3. CASE InFile(EnvFileNext)
  BY <1>3 DEF InFile, AtRest
<1>4. CASE InImages(BundleNext)
  BY <1>4 DEF InImages, AtRest
<1>5. CASE InHealth(HealthNext)
  BY <1>5 DEF InHealth, AtRest
<1>6. CASE UNCHANGED hostVars
  BY <1>6 DEF hostVars
<1> QED BY <1>1, <1>2, <1>3, <1>4, <1>5, <1>6 DEF Next

LEMMA HostIsItsParts ==
  Spec => SettingsSpec /\ RetentionSpec /\ EnvFileSpec /\ BundleSpec /\ HealthSpec
BY HostInit, HostStep, PTL
   DEF Spec, SettingsSpec, RetentionSpec, EnvFileSpec, BundleSpec, HealthSpec

\* All variables of what runs on the host keep their types, whichever part moves, for
\* any contents of `.env`, retentions, lines, images, releases and containers.
THEOREM HostTypeCorrect == Spec => []TypeOK
<1>1. RetentionInv => RetentionTypeOK
  BY DEF RetentionInv
<1>2. HealthInv => HealthTypeOK
  BY DEF HealthInv
<1>3. RetentionSpec => []RetentionTypeOK
  BY <1>1, RetentionInvInit, RetentionInvStep, PTL DEF RetentionSpec
<1>4. HealthSpec => []HealthTypeOK
  BY <1>2, HealthInvInit, HealthInvStep, PTL DEF HealthSpec
<1>5. SettingsTypeOK /\ RetentionTypeOK /\ EnvFileTypeOK /\ BundleTypeOK /\ HealthTypeOK
        => TypeOK
  BY DEF TypeOK
<1> QED
  BY <1>3, <1>4, <1>5, HostIsItsParts, SettingsTypeCorrect, EnvFileTypeCorrect,
     BundleTypeCorrect, PTL

\* What is proved of the parts holds of the host: after an undisturbed deploy all
\* copies of the settings agree, but for a Caddy an install left running, the audit
\* log is pruned as configured, the migration of `.env` settles,
\* fetch_image_bundle.sh exits with success only with every image of its release,
\* and an outage is seen.
THEOREM HostCorrect ==
  Spec => []DeployAgrees /\ PruneFollowsConfig /\ EnvSettles /\ KeepsPromise /\ []HealthSeen
BY HostIsItsParts, DeployAgreesHolds, PruneFollowsConfigHolds, EnvSettlesHolds,
   FetchKeepsPromise, HealthSeenHolds, PTL
=============================================================================
