------------------------------- MODULE SignIn -------------------------------
(***************************************************************************)
(* Signing in to the panel: the two forms, Better Auth behind them, the    *)
(* rows of `session`, the two gates every API request passes, and what an  *)
(* administrator does to the user meanwhile.  The counters of the form are *)
(* in LoginThrottle: here an attempt may simply be refused.                *)
(*                                                                         *)
(* A password is the number of times it was set.  An era of a user ends    *)
(* when the password is set or the user disabled.  req[p] is a request of  *)
(* the API between two of its awaits.  Better Auth is a library: a sign-in *)
(* reads and compares the hash, then inserts a session after the hook of   *)
(* auth.ts, or, with a second factor, hands out a cookie that one code     *)
(* turns into a session.                                                   *)
(***************************************************************************)
EXTENDS Naturals, FiniteSets

CONSTANTS Users,      \* rows of `user`
          Requests,   \* requests in flight at once
          MaxEras,    \* bound: eras of a user
          MaxIssued   \* bound: sessions and second-factor cookies issued

ASSUME SignInAssumption == MaxEras \in Nat \ {0} /\ MaxIssued \in Nat

Wrong == 0   \* a password that was never this user's

VARIABLES
    row,        \* `user` with its credential; `era` and `soft` are history
    session,    \* rows of `session`
    partial,    \* cookies of sign-ins that wait for a second factor
    issued,     \* tokens and cookies issued so far
    req         \* the request each process is handling

sessionVars == <<row, session, partial, issued, req>>

Idle == [st |-> "idle"]

\* A sign-in; `era` is the one its password was proved in, 0 before that.
SigningIn(st, u, pw, era, code) ==
    [st |-> st, user |-> u, pw |-> pw, era |-> era, code |-> code]

SignIns == [st : {"check", "hook", "insert"}, user : Users,
            pw : 0..MaxEras, era : 0..MaxEras, code : BOOLEAN]

(* `soft` is the last era that began, or in which the flag was lifted,     *)
(* otherwise than by the user's answer to a reset.                         *)
SessionTypeOK ==
    /\ row \in [Users -> [pw : 1..MaxEras, era : 1..MaxEras, soft : 1..MaxEras,
                          must : BOOLEAN, active : BOOLEAN, totp : BOOLEAN]]
    /\ issued \in 0..MaxIssued
    /\ session \in SUBSET [id : 1..issued, user : Users, era : 1..MaxEras, late : BOOLEAN]
    /\ partial \in SUBSET [id : 1..issued, user : Users, era : 1..MaxEras]
    /\ \A s, t \in session : s.id = t.id => s = t
    /\ req \in [Requests -> {Idle} \cup SignIns \cup [st : {"own"}, user : Users, id : 1..issued]]

SessionInit ==
    /\ row = [u \in Users |-> [pw |-> 1, era |-> 1, soft |-> 1, must |-> FALSE,
                               active |-> TRUE, totp |-> FALSE]]
    /\ session = {} /\ partial = {} /\ issued = 0
    /\ req = [p \in Requests |-> Idle]

SessionsOf(u) == {s \in session : s.user = u}

\* getCurrentSession, and the gate behind it for all but three paths.
requireSession(s) == row[s.user].active
Admitted(s)       == requireSession(s) /\ ~row[s.user].must

-----------------------------------------------------------------------------
(* Signing in, by POST /login or past it by /api/auth/sign-in/email.       *)

PostLogin(p, u, pw) ==
    /\ req[p] = Idle
    /\ req' = [req EXCEPT ![p] = SigningIn("check", u, pw, 0, FALSE)]
    /\ UNCHANGED <<row, session, partial, issued>>

\* A wrong password, or a refusal by Better Auth's own limit.
SignInFails(p) ==
    /\ req[p].st = "check"
    /\ req' = [req EXCEPT ![p] = Idle]
    /\ UNCHANGED <<row, session, partial, issued>>

\* The hash is read, and the password matches it.
VerifyPassword(p) ==
    LET u == req[p].user
    IN  /\ req[p].st = "check"
        /\ req[p].pw = row[u].pw
        /\ req' = [req EXCEPT ![p].st = "hook", ![p].era = row[u].era]
        /\ UNCHANGED <<row, session, partial, issued>>

\* POST /two-factor with the right code; the cookie is used up.
PostTwoFactor(p, c) ==
    /\ req[p] = Idle
    /\ partial' = partial \ {c}
    /\ req' = [req EXCEPT ![p] = SigningIn("hook", c.user, Wrong, c.era, TRUE)]
    /\ UNCHANGED <<row, session, issued>>

\* session.create.before: a user who is not active gets no session.
SessionHook(p) ==
    /\ req[p].st = "hook"
    /\ req' = [req EXCEPT ![p] =
                 IF row[@.user].active THEN [@ EXCEPT !.st = "insert"] ELSE Idle]
    /\ UNCHANGED <<row, session, partial, issued>>

(* The INSERT.  With a second factor enabled the plugin takes the session  *)
(* back and leaves a cookie, unless this is the second step.  `late` is    *)
(* history: an era has ended since the password was proved.                *)
InsertSession(p) ==
    LET r == req[p]
    IN  /\ r.st = "insert"
        /\ issued < MaxIssued
        /\ issued' = issued + 1
        /\ IF row[r.user].totp /\ ~r.code
           THEN /\ partial' = partial \cup
                     {[id |-> issued + 1, user |-> r.user, era |-> r.era]}
                /\ UNCHANGED session
           ELSE /\ session' = session \cup
                     {[id |-> issued + 1, user |-> r.user, era |-> r.era,
                       late |-> r.era # row[r.user].era]}
                /\ UNCHANGED partial
        /\ req' = [req EXCEPT ![p] = Idle]
        /\ UNCHANGED row

\* Signed out, idle for seven days, or thirty days old.
SessionEnds(s) ==
    /\ session' = session \ {s}
    /\ UNCHANGED <<row, partial, issued, req>>

\* The API exits in the middle of what it was doing; rows and cookies stay.
ApiRestart ==
    /\ req' = [p \in Requests |-> Idle]
    /\ UNCHANGED <<row, session, partial, issued>>

-----------------------------------------------------------------------------
(* What becomes of the user meanwhile.  The methods of the store are in    *)
(* AdminUsers in detail; their statements up to the DELETE of the sessions *)
(* follow each other without an await.                                     *)

\* MUTANT: a reset leaves the sessions alone.
resetPassword_only(u) ==
    /\ row[u].era < MaxEras
    /\ row' = [row EXCEPT ![u].pw = @ + 1, ![u].era = @ + 1, ![u].must = TRUE]
    /\ UNCHANGED <<session, partial, issued, req>>

resetPassword(u) ==
    /\ row[u].era < MaxEras
    /\ row' = [row EXCEPT ![u].pw = @ + 1, ![u].era = @ + 1, ![u].must = TRUE]
    /\ session' = session \ SessionsOf(u)
    /\ UNCHANGED <<partial, issued, req>>

disableUser(u) ==
    /\ row[u].active
    /\ row[u].era < MaxEras
    /\ row' = [row EXCEPT ![u].active = FALSE, ![u].era = @ + 1, ![u].soft = row[u].era + 1]
    /\ session' = session \ SessionsOf(u)
    /\ UNCHANGED <<partial, issued, req>>

enableUser(u) ==
    /\ ~row[u].active
    /\ row' = [row EXCEPT ![u].active = TRUE]
    /\ UNCHANGED <<session, partial, issued, req>>

\* PATCH of the flag alone, by an administrator.
updateUserMust(u, b) ==
    /\ row' = [row EXCEPT ![u].must = b, ![u].soft = IF b THEN @ ELSE row[u].era]
    /\ UNCHANGED <<session, partial, issued, req>>

\* POST /api/me/password: the session and the current password are checked,
PostOwnPassword(p, s) ==
    /\ req[p] = Idle
    /\ requireSession(s)
    /\ req' = [req EXCEPT ![p] = [st |-> "own", user |-> s.user, id |-> s.id]]
    /\ UNCHANGED <<row, session, partial, issued>>

\* and two hashes later the new one is written; the own session is kept.
changeOwnPassword(p) ==
    LET u   == req[p].user
        new == row[u].era + 1
        own == {s \in SessionsOf(u) : s.id = req[p].id}
    IN  /\ req[p].st = "own"
        /\ new <= MaxEras
        /\ row' = [row EXCEPT ![u].pw = @ + 1, ![u].era = new, ![u].soft = new,
                              ![u].must = FALSE]
        /\ session' = (session \ SessionsOf(u)) \cup {[s EXCEPT !.era = new] : s \in own}
        /\ req' = [req EXCEPT ![p] = Idle]
        /\ UNCHANGED <<partial, issued>>

\* /api/auth/two-factor, from a session of the user's own.
SetTwoFactor(s) ==
    /\ requireSession(s)
    /\ row' = [row EXCEPT ![s.user].totp = ~@]
    /\ UNCHANGED <<session, partial, issued, req>>

SessionNext ==
    \/ \E p \in Requests, u \in Users : \E pw \in 0..row[u].pw : PostLogin(p, u, pw)
    \/ \E p \in Requests : \/ SignInFails(p) \/ VerifyPassword(p) \/ SessionHook(p)
                        \/ InsertSession(p) \/ changeOwnPassword(p)
    \/ \E p \in Requests, c \in partial : PostTwoFactor(p, c)
    \/ \E p \in Requests, s \in session : PostOwnPassword(p, s)
    \/ \E s \in session : SessionEnds(s) \/ SetTwoFactor(s)
    \/ \E u \in Users : resetPassword(u) \/ disableUser(u) \/ enableUser(u)
    \/ \E u \in Users, b \in BOOLEAN : updateUserMust(u, b)
    \/ ApiRestart

SessionSpec == SessionInit /\ [][SessionNext]_sessionVars

-----------------------------------------------------------------------------
(* A session whose password was proved in an earlier era was between that  *)
(* proof and its INSERT, or at its second factor, when the era ended: a    *)
(* reset, a change or a disable leaves no session that was there before.   *)
StaleSessionWasInFlight ==
    \A s \in session : s.era = row[s.user].era \/ s.late

(* A sign-in that a reset overtook gets a session nobody deletes, and the  *)
(* forced rotation is what holds it: it is let through only once the user  *)
(* has changed the password again, was disabled, or the flag was lifted.   *)
RotationHoldsTheLate ==
    \A s \in session : Admitted(s) => s.era = row[s.user].era \/ s.era < row[s.user].soft

(* A password that was replaced lets nobody in: the sessions it had are    *)
(* gone, and one that was under way gets no further than the rotation.     *)
OldPasswordsHeld == StaleSessionWasInFlight /\ RotationHoldsTheLate
=============================================================================
