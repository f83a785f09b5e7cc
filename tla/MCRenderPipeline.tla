-------------------------- MODULE MCRenderPipeline --------------------------
(***************************************************************************)
(* From the panel to the client: the render pipeline alone; the same       *)
(* followed by a client; the clocks that judge a manifest; and the keys it *)
(* carries.  Each is checked alone, with the others at rest.               *)
(***************************************************************************)
EXTENDS ClientView, Freshness, RealityKeys, TLC

\* A curve of 88 points; its base point has order 11.
MCBasePoint == <<2, 11>>

VARIABLE part

MCVars == <<part, clientVars, freshVars, keyVars>>

\* What is at rest has a single first state.
MCInit ==
  /\ part \in {"renders", "client", "clocks", "keys"}
  /\ ClientInit
  /\ FreshnessInit /\ (part # "clocks" => server = 0 /\ phone = 0)
  /\ KeysInit

InRenders ==
  part = "renders" /\ Next /\ UNCHANGED <<part, client, freshVars, keyVars>>

\* Bounds of the client's part: one account at a time, and a request fewer.
InClient ==
  /\ part = "client" /\ ClientNext
  /\ Cardinality({a \in Accounts : account'[a] # NoRow}) <= 1
  /\ requests' < MaxRequests
  /\ UNCHANGED <<part, freshVars, keyVars>>

InClocks == part = "clocks" /\ FreshnessNext /\ UNCHANGED <<part, clientVars, keyVars>>
InKeys   == part = "keys" /\ KeysNext /\ UNCHANGED <<part, clientVars, freshVars>>

MCNext == InRenders \/ InClient \/ InClocks \/ InKeys

MCSpec == MCInit /\ [][MCNext]_MCVars

Symmetry == Permutations(Accounts) \cup Permutations(Uuids) \cup Permutations(Jobs)
=============================================================================
