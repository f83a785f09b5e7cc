------------------------------- MODULE Access -------------------------------
(***************************************************************************)
(* Who may enter the panel, and what it shows them: the counters of the    *)
(* sign-in form, the sessions behind it, the setup of the first owner, the *)
(* two-factor panel of the page /me, and the buttons of a user.  They      *)
(* share no state, so each moves alone, with the others at rest.           *)
(***************************************************************************)
EXTENDS LoginThrottle, SignIn, FirstOwner, TwoFactorPanel, RowActions

VARIABLE door

accessVars == <<door, throttleVars, sessionVars, setupVars, panelVars, rowVars>>

\* What is at rest has a single first state.
Init == /\ door \in {"form", "session", "setup", "me", "user"}
        /\ ThrottleInit /\ SessionInit /\ SetupInit /\ PanelInit
        /\ RowInit /\ (door # "user" => user = "active")

AtForm(A) ==
  door = "form" /\ A /\ UNCHANGED <<door, sessionVars, setupVars, panelVars, rowVars>>
AtSession(A) ==
  door = "session" /\ A /\ UNCHANGED <<door, throttleVars, setupVars, panelVars, rowVars>>
AtSetup(A) ==
  door = "setup" /\ A /\ UNCHANGED <<door, throttleVars, sessionVars, panelVars, rowVars>>
AtMe(A) ==
  door = "me" /\ A /\ UNCHANGED <<door, throttleVars, sessionVars, setupVars, rowVars>>
AtUser(A) ==
  door = "user" /\ A /\ UNCHANGED <<door, throttleVars, sessionVars, setupVars, panelVars>>

Next ==
  \/ AtForm(ThrottleNext) \/ AtSession(SessionNext) \/ AtSetup(SetupNext)
  \/ AtMe(PanelNext) \/ AtUser(RowNext)

\* Only time is sure to pass.
Spec == Init /\ [][Next]_accessVars /\ WF_accessVars(AtForm(ThrottleTick))

\* The types of whatever is at the door, and of what rests meanwhile.
TypeOK == ThrottleTypeOK /\ SessionTypeOK /\ SetupTypeOK /\ PanelTypeOK /\ RowTypeOK
=============================================================================
