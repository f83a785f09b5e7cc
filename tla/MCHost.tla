------------------------------- MODULE MCHost -------------------------------
(***************************************************************************)
(* The small instance on which Host is checked: two contents of `.env`, a  *)
(* click and a command as model values, an archive of one and one of two   *)
(* parts.                                                                  *)
(***************************************************************************)
EXTENDS Host, TLC

CONSTANTS d1, d2, k1, k2, click, command

\* An `.env` before and after its domain and its key pair were changed.
Envs == {[panel |-> d1, key |-> k1], [panel |-> d2, key |-> k2]}

\* An archive in one piece, then in two.
PartsOf == 1 :> 1 @@ 2 :> 2
=============================================================================
