----------------------------- MODULE LiveConfig -----------------------------
(***************************************************************************)
(* What the data plane promises to its clients, whatever processes it is   *)
(* made of: versions of a config are offered one after the other, and the  *)
(* live server is down, or up on a version that is offered by now and not  *)
(* older than the one it was up on before.                                 *)
(***************************************************************************)
EXTENDS Naturals

VARIABLES
  offered,  \* the newest version; 0 is none
  live      \* [up, ver]: is a server up, and the version it is or was up on

vars == <<offered, live>>

TypeOK == offered \in Nat /\ live \in [up : BOOLEAN, ver : Nat]

Init ==
  /\ offered \in {0, 1}
  /\ live = [up |-> FALSE, ver |-> 0]

Offer ==
  /\ offered' = offered + 1
  /\ UNCHANGED live

GoUp ==
  /\ ~live.up
  /\ \E v \in live.ver..offered : v > 0 /\ live' = [up |-> TRUE, ver |-> v]
  /\ UNCHANGED offered

GoDown ==
  /\ live.up
  /\ live' = [up |-> FALSE, ver |-> live.ver]
  /\ UNCHANGED offered

Next == Offer \/ GoUp \/ GoDown

Spec == Init /\ [][Next]_vars
=============================================================================
