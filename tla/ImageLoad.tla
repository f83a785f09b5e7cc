----------------------------- MODULE ImageLoad -----------------------------
(***************************************************************************)
(* What a caller of fetch_image_bundle.sh may rely on: it exits 0 only     *)
(* with every image of the release it was started for, and until then it   *)
(* moves images to that release, one at a time, or leaves them.            *)
(***************************************************************************)
CONSTANTS Images, Releases, Missing

VARIABLES
    images,     \* the release the :latest tag of each image is of, or Missing
    want,       \* the release being loaded
    load        \* "idle", "busy", or how it ended: "loaded", "failed"

loadVars == <<images, want, load>>

LoadInit ==
    /\ images \in [Images -> Releases \cup {Missing}]
    /\ want \in Releases
    /\ load = "idle"

Begin ==
    /\ load = "idle" /\ load' = "busy"
    /\ want' \in Releases
    /\ UNCHANGED images

LoadImage(i) ==
    /\ load = "busy"
    /\ images' = [images EXCEPT ![i] = want]
    /\ UNCHANGED <<want, load>>

Succeed ==
    /\ load = "busy" /\ load' = "loaded"
    /\ \A i \in Images : images[i] = want
    /\ UNCHANGED <<images, want>>

Fail ==
    /\ load = "busy" /\ load' = "failed"
    /\ UNCHANGED <<images, want>>

\* The script returns or is killed; Docker may finish an image it was given whole.
End ==
    /\ load # "idle" /\ load' = "idle"
    /\ \/ UNCHANGED images
       \/ load = "busy" /\ \E i \in Images : images' = [images EXCEPT ![i] = want]
    /\ UNCHANGED want

\* Docker prunes an image while nothing is being loaded.
Vanish(i) ==
    /\ load = "idle"
    /\ images' = [images EXCEPT ![i] = Missing]
    /\ UNCHANGED <<want, load>>

LoadNext ==
    \/ Begin \/ Succeed \/ Fail \/ End
    \/ \E i \in Images : LoadImage(i) \/ Vanish(i)

LoadSpec == LoadInit /\ [][LoadNext]_loadVars
=============================================================================
