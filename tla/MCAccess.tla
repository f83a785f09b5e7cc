------------------------------ MODULE MCAccess ------------------------------
(***************************************************************************)
(* The small instance on which Access is checked: its e-mails, addresses,  *)
(* attempts, users, sign-ins, forms and commands as model values.          *)
(***************************************************************************)
EXTENDS Access

CONSTANTS a1, a2, i1, i2, p1, p2, u1, r1, r2, f1, f2, c1, c2
=============================================================================
