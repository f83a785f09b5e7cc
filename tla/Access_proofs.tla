---------------------------- MODULE Access_proofs ----------------------------
(***************************************************************************)
(* Who may enter the panel and what its pages then say, for any users,     *)
(* requests, forms, commands and bounds: what a password that was replaced *)
(* still opens, how owners come into being, whether the buttons of a user  *)
(* and the two-factor wizard tell the truth, and how often a password may  *)
(* be guessed; and so of Access, in which all of them are together.        *)
(***************************************************************************)
EXTENDS Access, FiniteSetTheorems, SequenceTheorems, TLAPS

(***************************************************************************)
(* Sessions.                                                               *)
(***************************************************************************)

\* Whoever proved a password in era e is held by the forced rotation, or is of the
\* present era, or of one before the user was let in anew.
Held(u, e) ==
  /\ e \in 1 .. row[u].era
  /\ row[u].must \/ e = row[u].era \/ e < row[u].soft

RowsCount  == \A u \in Users : row[u].pw <= row[u].era /\ row[u].soft <= row[u].era
AllHeld ==
  /\ \A s \in session : Held(s.user, s.era)
  /\ \A c \in partial : Held(c.user, c.era)
  /\ \A p \in Requests : req[p].st \in {"hook", "insert"} => Held(req[p].user, req[p].era)

SessionInv == SessionTypeOK /\ RowsCount /\ AllHeld /\ StaleSessionWasInFlight

RowSet == [pw : 1..MaxEras, era : 1..MaxEras, soft : 1..MaxEras,
           must : BOOLEAN, active : BOOLEAN, totp : BOOLEAN]

\* No change of a row lets in whoever was held before it.
RowsKept ==
  /\ row' \in [Users -> RowSet]
  /\ RowsCount'
  /\ \A u \in Users, e \in Nat : Held(u, e) => Held(u, e)'

LEMMA OneRowKept ==
  ASSUME SessionTypeOK, RowsCount, NEW u \in Users,
         row' \in [Users -> RowSet], \A v \in Users : v # u => row'[v] = row[v],
         row'[u].pw <= row'[u].era, row'[u].soft <= row'[u].era, row[u].era <= row'[u].era,
         \A e \in 1 .. row[u].era : row[u].must \/ e = row[u].era \/ e < row[u].soft
           => row'[u].must \/ e = row'[u].era \/ e < row'[u].soft
  PROVE  RowsKept
<1>1. RowsCount'
  BY DEF RowsCount
<1>2. row[u].era \in 1..MaxEras /\ row'[u].era \in 1..MaxEras
  BY DEF SessionTypeOK, RowSet
<1>3. ASSUME NEW v \in Users, NEW e \in Nat, Held(v, e)
      PROVE  Held(v, e)'
  <2>1. CASE v = u
    BY <1>2, <1>3, <2>1, SignInAssumption DEF Held
  <2>2. CASE v # u
    BY <1>3, <2>2 DEF Held
  <2> QED
    BY <2>1, <2>2
<1> QED
  BY <1>1, <1>3 DEF RowsKept

LEMMA ResetKept ==
  ASSUME SessionTypeOK, RowsCount, NEW u \in Users, resetPassword(u)
  PROVE  RowsKept /\ \A v \in Users : v # u => row'[v] = row[v]
<1>1. row \in [Users -> RowSet] /\ row[u].pw <= row[u].era /\ row[u].soft <= row[u].era
  BY DEF SessionTypeOK, RowSet, RowsCount
<1>2. row' = [row EXCEPT ![u].pw = @ + 1, ![u].era = @ + 1, ![u].must = TRUE] /\ row[u].era < MaxEras
  BY DEF resetPassword
<1>3. row' \in [Users -> RowSet] /\ \A v \in Users : v # u => row'[v] = row[v]
  BY <1>1, <1>2, SignInAssumption DEF RowSet
<1>4. row'[u].pw = row[u].pw + 1 /\ row'[u].era = row[u].era + 1 /\ row'[u].soft = row[u].soft /\ row'[u].must
  BY <1>1, <1>2 DEF RowSet
<1>5. row[u].pw \in Nat /\ row[u].era \in Nat /\ row[u].soft \in Nat
  BY <1>1, SignInAssumption DEF RowSet
<1> QED
  BY <1>1, <1>3, <1>4, <1>5, OneRowKept

LEMMA DisableKept ==
  ASSUME SessionTypeOK, RowsCount, NEW u \in Users, disableUser(u)
  PROVE  RowsKept /\ \A v \in Users : v # u => row'[v] = row[v]
<1>1. row \in [Users -> RowSet] /\ row[u].pw <= row[u].era /\ row[u].soft <= row[u].era
  BY DEF SessionTypeOK, RowSet, RowsCount
<1>2. /\ row' = [row EXCEPT ![u].active = FALSE, ![u].era = @ + 1, ![u].soft = row[u].era + 1]
      /\ row[u].era < MaxEras
  BY DEF disableUser
<1>3. row' \in [Users -> RowSet] /\ \A v \in Users : v # u => row'[v] = row[v]
  BY <1>1, <1>2, SignInAssumption DEF RowSet
<1>4. row'[u].pw = row[u].pw /\ row'[u].era = row[u].era + 1 /\ row'[u].soft = row[u].era + 1
  BY <1>1, <1>2 DEF RowSet
<1>5. row[u].pw \in Nat /\ row[u].era \in Nat /\ row[u].soft \in Nat
  BY <1>1, SignInAssumption DEF RowSet
<1>6. \A e \in 1 .. row[u].era : e < row'[u].soft
  BY <1>4, <1>5
<1> QED
  BY <1>1, <1>3, <1>4, <1>5, <1>6, OneRowKept

LEMMA EnableKept ==
  ASSUME SessionTypeOK, RowsCount, NEW u \in Users, enableUser(u)
  PROVE  RowsKept /\ \A v \in Users : row'[v].era = row[v].era
<1>1. row \in [Users -> RowSet] /\ row[u].pw <= row[u].era /\ row[u].soft <= row[u].era
  BY DEF SessionTypeOK, RowSet, RowsCount
<1>2. row' = [row EXCEPT ![u].active = TRUE]
  BY DEF enableUser
<1>3. row' \in [Users -> RowSet] /\ \A v \in Users : v # u => row'[v] = row[v]
  BY <1>1, <1>2 DEF RowSet
<1>4. row'[u].pw = row[u].pw /\ row'[u].era = row[u].era /\ row'[u].soft = row[u].soft
  BY <1>1, <1>2 DEF RowSet
<1>a. row'[u].must = row[u].must
  BY <1>1, <1>2 DEF RowSet
<1>5. row[u].pw \in Nat /\ row[u].era \in Nat /\ row[u].soft \in Nat
  BY <1>1, SignInAssumption DEF RowSet
<1> QED
  BY <1>1, <1>3, <1>4, <1>a, <1>5, OneRowKept

LEMMA MustKept ==
  ASSUME SessionTypeOK, RowsCount, NEW u \in Users, NEW b \in BOOLEAN, updateUserMust(u, b)
  PROVE  RowsKept /\ \A v \in Users : row'[v].era = row[v].era
<1>1. row \in [Users -> RowSet] /\ row[u].pw <= row[u].era /\ row[u].soft <= row[u].era
  BY DEF SessionTypeOK, RowSet, RowsCount
<1>2. row' = [row EXCEPT ![u].must = b, ![u].soft = IF b THEN @ ELSE row[u].era]
  BY DEF updateUserMust
<1>3. row' \in [Users -> RowSet] /\ \A v \in Users : v # u => row'[v] = row[v]
  BY <1>1, <1>2, ZenonT(60) DEF RowSet
<1>4. /\ row'[u].pw = row[u].pw /\ row'[u].era = row[u].era
      /\ row'[u].soft = IF b THEN row[u].soft ELSE row[u].era
  BY <1>1, <1>2 DEF RowSet
<1>a. row'[u].must = b
  BY <1>1, <1>2 DEF RowSet
<1>5. row[u].pw \in Nat /\ row[u].era \in Nat /\ row[u].soft \in Nat
  BY <1>1, SignInAssumption DEF RowSet
<1>6. \A e \in 1 .. row[u].era : row'[u].must \/ e = row'[u].era \/ e < row'[u].soft
  BY <1>4, <1>a, <1>5
<1> QED
  BY <1>1, <1>3, <1>4, <1>5, <1>6, OneRowKept

LEMMA TotpKept ==
  ASSUME SessionTypeOK, RowsCount, NEW s \in session, SetTwoFactor(s)
  PROVE  RowsKept /\ \A v \in Users : row'[v].era = row[v].era
<1> DEFINE u == s.user
<1>1. row \in [Users -> RowSet] /\ u \in Users
  BY DEF SessionTypeOK, RowSet
<1>b. row[u].pw <= row[u].era /\ row[u].soft <= row[u].era
  BY <1>1 DEF RowsCount
<1>2. row' = [row EXCEPT ![u].totp = ~@]
  BY DEF SetTwoFactor
<1>3. row' \in [Users -> RowSet] /\ \A v \in Users : v # u => row'[v] = row[v]
  BY <1>1, <1>2, ZenonT(60) DEF RowSet
<1>4. row'[u].pw = row[u].pw /\ row'[u].era = row[u].era /\ row'[u].soft = row[u].soft
  BY <1>1, <1>2 DEF RowSet
<1>a. row'[u].must = row[u].must
  BY <1>1, <1>2 DEF RowSet
<1>5. row[u].pw \in Nat /\ row[u].era \in Nat /\ row[u].soft \in Nat
  BY <1>1, SignInAssumption DEF RowSet
<1> QED
  BY <1>1, <1>b, <1>3, <1>4, <1>a, <1>5, OneRowKept

LEMMA OwnKept ==
  ASSUME SessionTypeOK, RowsCount, NEW u \in Users, row[u].era + 1 <= MaxEras,
         row' = [row EXCEPT ![u].pw = @ + 1, ![u].era = row[u].era + 1, ![u].soft = row[u].era + 1,
                            ![u].must = FALSE]
  PROVE  RowsKept /\ row'[u].era = row[u].era + 1 /\ \A v \in Users : v # u => row'[v] = row[v]
<1>1. row \in [Users -> RowSet] /\ row[u].pw <= row[u].era /\ row[u].soft <= row[u].era
  BY DEF SessionTypeOK, RowSet, RowsCount
<1>3. row' \in [Users -> RowSet] /\ \A v \in Users : v # u => row'[v] = row[v]
  BY <1>1, SignInAssumption DEF RowSet
<1>4. row'[u].pw = row[u].pw + 1 /\ row'[u].era = row[u].era + 1 /\ row'[u].soft = row[u].era + 1
  BY <1>1 DEF RowSet
<1>5. row[u].pw \in Nat /\ row[u].era \in Nat /\ row[u].soft \in Nat
  BY <1>1, SignInAssumption DEF RowSet
<1>6. \A e \in 1 .. row[u].era : e < row'[u].soft
  BY <1>4, <1>5
<1>7. /\ row'[u].pw <= row'[u].era /\ row'[u].soft <= row'[u].era
      /\ row[u].era <= row'[u].era
  BY <1>1, <1>4, <1>5
<1>8. RowsKept
  BY <1>3, <1>6, <1>7, OneRowKept, Zenon
<1> QED
  BY <1>3, <1>4, <1>8

-----------------------------------------------------------------------------
(* The requests.                                                           *)

OwnChanges(n) == [st : {"own"}, user : Users, id : 1..n]

ReqHeld(r) == r.st \in {"hook", "insert"} => Held(r.user, r.era)

LEMMA SessionTypes == SessionTypeOK <=>
  /\ row \in [Users -> RowSet]
  /\ issued \in 0..MaxIssued
  /\ session \in SUBSET [id : 1..issued, user : Users, era : 1..MaxEras, late : BOOLEAN]
  /\ partial \in SUBSET [id : 1..issued, user : Users, era : 1..MaxEras]
  /\ \A s, t \in session : s.id = t.id => s = t
  /\ req \in [Requests -> {Idle} \cup SignIns \cup OwnChanges(issued)]
BY DEF SessionTypeOK, RowSet, OwnChanges

LEMMA SigningInReq ==
  ASSUME SessionTypeOK, NEW p \in Requests, req[p].st \in {"check", "hook", "insert"}
  PROVE  /\ req[p] \in SignIns /\ req[p].user \in Users /\ req[p].pw \in 0..MaxEras
         /\ req[p].era \in 0..MaxEras /\ req[p].code \in BOOLEAN
<1>1. req[p] \in SignIns
  BY SessionTypes DEF SignIns, OwnChanges, Idle
<1> QED
  BY <1>1 DEF SignIns

LEMMA OwnReq ==
  ASSUME SessionTypeOK, NEW p \in Requests, req[p].st = "own"
  PROVE  req[p].user \in Users /\ req[p].id \in 1..issued
<1>1. req[p] \in OwnChanges(issued)
  BY SessionTypes DEF SignIns, OwnChanges, Idle
<1> QED
  BY <1>1 DEF OwnChanges

\* A step of one request, which leaves the rows alone.
LEMMA ReqStep ==
  ASSUME SessionInv, NEW p \in Requests,
         NEW r \in {Idle} \cup SignIns \cup OwnChanges(issued), ReqHeld(r),
         req' = [req EXCEPT ![p] = r], row' = row, session' \subseteq session, partial' \subseteq partial,
         issued' = issued
  PROVE  SessionInv'
<1>1. SessionTypeOK /\ RowsCount /\ AllHeld /\ StaleSessionWasInFlight
  BY DEF SessionInv
<1>2. req' \in [Requests -> {Idle} \cup SignIns \cup OwnChanges(issued)]
  BY <1>1, SessionTypes
<1>3. SessionTypeOK'
  BY <1>1, <1>2 DEF SessionTypeOK, OwnChanges
<1>4. \A q \in Requests : req'[q] = r \/ req'[q] = req[q]
  BY <1>1, SessionTypes
<1>5. RowsCount' /\ StaleSessionWasInFlight'
  BY <1>1 DEF RowsCount, StaleSessionWasInFlight
<1>6. AllHeld'
  BY <1>1, <1>4 DEF AllHeld, ReqHeld, Held
<1> QED
  BY <1>3, <1>5, <1>6 DEF SessionInv

LEMMA ReqStepsKeep ==
  ASSUME SessionInv, NEW p \in Requests,
         \/ \E u \in Users : \E pw \in 0..row[u].pw : PostLogin(p, u, pw)
         \/ SignInFails(p) \/ SessionHook(p)
         \/ \E c \in partial : PostTwoFactor(p, c)
         \/ \E s \in session : PostOwnPassword(p, s)
  PROVE  SessionInv'
<1>1. SessionTypeOK /\ RowsCount /\ AllHeld
  BY DEF SessionInv
<1>2. ReqHeld(Idle) /\ Idle \in {Idle} \cup SignIns \cup OwnChanges(issued)
  BY DEF ReqHeld, Idle
<1>3. ASSUME NEW u \in Users, NEW pw \in 0..row[u].pw, PostLogin(p, u, pw)
      PROVE  SessionInv'
  <2>1. row[u].pw \in 1..MaxEras
    BY <1>1, SessionTypes DEF RowSet
  <2>2. pw \in 0..MaxEras /\ 0 \in 0..MaxEras
    BY <2>1, SignInAssumption
  <2>3. SigningIn("check", u, pw, 0, FALSE) \in SignIns /\ ReqHeld(SigningIn("check", u, pw, 0, FALSE))
    BY <2>2 DEF SigningIn, SignIns, ReqHeld
  <2> QED
    BY <1>3, <2>3, ReqStep DEF PostLogin
<1>4. CASE SignInFails(p)
  BY <1>2, <1>4, ReqStep DEF SignInFails
<1>5. CASE SessionHook(p)
  <2>1. req[p].st = "hook" /\ req[p] \in SignIns /\ ReqHeld(req[p])
    BY <1>1, <1>5, SigningInReq DEF SessionHook, AllHeld, ReqHeld
  <2>2. PICK r : r = [req[p] EXCEPT !.st = "insert"]
    OBVIOUS
  <2>3. r \in SignIns
    BY <2>1, <2>2 DEF SignIns
  <2>4. r.user = req[p].user /\ r.era = req[p].era
    BY <2>1, <2>2 DEF SignIns
  <2>5. ReqHeld(r)
    BY <2>1, <2>4 DEF ReqHeld
  <2>6. req' = [req EXCEPT ![p] = r] \/ req' = [req EXCEPT ![p] = Idle]
    BY <1>5, <2>2 DEF SessionHook
  <2> QED
    BY <1>2, <1>5, <2>3, <2>5, <2>6, ReqStep DEF SessionHook
<1>6. ASSUME NEW c \in partial, PostTwoFactor(p, c)
      PROVE  SessionInv'
  <2>1. c.user \in Users /\ c.era \in 0..MaxEras /\ Held(c.user, c.era)
    BY <1>1, SignInAssumption, SessionTypes DEF AllHeld
  <2>2. PICK r : r = SigningIn("hook", c.user, Wrong, c.era, TRUE)
    OBVIOUS
  <2>3. r \in SignIns /\ ReqHeld(r)
    BY <2>1, <2>2, SignInAssumption DEF SigningIn, SignIns, ReqHeld, Wrong
  <2> QED
    BY <1>6, <2>2, <2>3, ReqStep DEF PostTwoFactor
<1>7. ASSUME NEW s \in session, PostOwnPassword(p, s)
      PROVE  SessionInv'
  <2>1. s.user \in Users /\ s.id \in 1..issued
    BY <1>1, SessionTypes
  <2>2. PICK r : r = [st |-> "own", user |-> s.user, id |-> s.id]
    OBVIOUS
  <2>3. r \in OwnChanges(issued) /\ ReqHeld(r)
    BY <2>1, <2>2 DEF OwnChanges, ReqHeld
  <2> QED
    BY <1>7, <2>2, <2>3, ReqStep DEF PostOwnPassword
<1> QED
  BY <1>3, <1>4, <1>5, <1>6, <1>7

LEMMA VerifyKeeps == ASSUME SessionInv, NEW p \in Requests, VerifyPassword(p) PROVE SessionInv'
<1>1. SessionTypeOK /\ req[p].st = "check"
  BY DEF SessionInv, VerifyPassword
<1>2. req[p] \in SignIns /\ req[p].user \in Users
  BY <1>1, SigningInReq
<1>3. PICK r : r = [[req[p] EXCEPT !.st = "hook"] EXCEPT !.era = row[req[p].user].era]
  OBVIOUS
<1>4. row[req[p].user].era \in 1..MaxEras
  BY <1>1, <1>2, SessionTypes DEF RowSet
<1>5. r \in SignIns /\ r.user = req[p].user /\ r.era = row[req[p].user].era
  <2>1. PICK x : x = [req[p] EXCEPT !.st = "hook"]
    OBVIOUS
  <2>2. x \in SignIns /\ x.user = req[p].user
    BY <1>2, <2>1 DEF SignIns
  <2>3. r = [x EXCEPT !.era = row[req[p].user].era]
    BY <1>3, <2>1
  <2>4. row[req[p].user].era \in 0..MaxEras
    BY <1>4, SignInAssumption
  <2> QED
    BY <2>2, <2>3, <2>4 DEF SignIns
<1>6. ReqHeld(r)
  BY <1>4, <1>5, SignInAssumption DEF ReqHeld, Held
<1>7. req' = [req EXCEPT ![p] = r]
  BY <1>1, <1>3, SessionTypes DEF VerifyPassword
<1> QED
  BY <1>5, <1>6, <1>7, ReqStep DEF VerifyPassword

\* The INSERT: what the sign-in brought to it, the session or the cookie keeps.
LEMMA InsertKeeps == ASSUME SessionInv, NEW p \in Requests, InsertSession(p) PROVE SessionInv'
<1>1. SessionTypeOK /\ RowsCount /\ AllHeld /\ StaleSessionWasInFlight /\ req[p].st = "insert"
  BY DEF SessionInv, InsertSession
<1>2. PICK u \in Users, e \in 0..MaxEras : u = req[p].user /\ e = req[p].era
  BY <1>1, SigningInReq
<1>3. Held(u, e) /\ row[u].era \in 1..MaxEras
  BY <1>1, <1>2, SessionTypes DEF AllHeld, RowSet
<1>4. e \in 1..MaxEras
  BY <1>3, SignInAssumption DEF Held
<1>5. PICK n \in 1..MaxIssued : n = issued + 1 /\ issued' = n /\ issued \in Nat
  BY <1>1, SignInAssumption, SessionTypes DEF InsertSession
<1>6. row' = row /\ req' = [req EXCEPT ![p] = Idle]
  BY DEF InsertSession
<1>7. req' \in [Requests -> {Idle} \cup SignIns \cup OwnChanges(n)] /\ \A q \in Requests : req'[q] \in {req[q], Idle}
  <2>1. req \in [Requests -> {Idle} \cup SignIns \cup OwnChanges(n)]
    <3>1. OwnChanges(issued) \subseteq OwnChanges(n)
      BY <1>5 DEF OwnChanges
    <3>2. req \in [Requests -> {Idle} \cup SignIns \cup OwnChanges(issued)]
      BY <1>1, SessionTypes
    <3> QED
      BY <3>1, <3>2
  <2> QED
    BY <1>6, <2>1
<1>8. PICK c : c = [id |-> n, user |-> u, era |-> e]
  OBVIOUS
<1>10. PICK s : s = [id |-> n, user |-> u, era |-> e, late |-> (e # row[u].era)]
  OBVIOUS
<1>11. \/ partial' = partial \cup {c} /\ session' = session
       \/ session' = session \cup {s} /\ partial' = partial
  BY <1>2, <1>5, <1>8, <1>10 DEF InsertSession
<1>12. /\ c \in [id : 1..n, user : Users, era : 1..MaxEras] /\ c.user = u /\ c.era = e
       /\ s \in [id : 1..n, user : Users, era : 1..MaxEras, late : BOOLEAN]
       /\ s.user = u /\ s.era = e /\ s.id = n /\ (s.era = row[u].era \/ s.late)
  <2>1. c \in [id : 1..n, user : Users, era : 1..MaxEras] /\ c.user = u /\ c.era = e
    BY <1>4, <1>5, <1>8
  <2>2. PICK late \in BOOLEAN : late = (e # row[u].era)
    OBVIOUS
  <2>3. s = [id |-> n, user |-> u, era |-> e, late |-> late]
    BY <1>10, <2>2
  <2>4. s \in [id : 1..n, user : Users, era : 1..MaxEras, late : BOOLEAN]
    BY <1>4, <1>5, <2>3
  <2>5. s.user = u /\ s.era = e /\ s.id = n
    BY <2>3
  <2>6. s.late = late
    BY <2>3
  <2> QED
    BY <2>1, <2>2, <2>4, <2>5, <2>6
<1>13. /\ session \subseteq [id : 1..n, user : Users, era : 1..MaxEras, late : BOOLEAN]
       /\ partial \subseteq [id : 1..n, user : Users, era : 1..MaxEras]
       /\ \A x \in session : x.id \in 1..issued
  <2>1. 1..issued \subseteq 1..n
    BY <1>5
  <2> QED
    BY <1>1, <2>1, SessionTypes
<1>14. \A x, y \in session' : x.id = y.id => x = y
  <2>1. \A x \in session : x.id # n
    BY <1>5, <1>13
  <2> QED
    BY <1>1, <1>11, <1>12, <2>1, SessionTypes
<1>15. SessionTypeOK'
  <2>1. session' \in SUBSET [id : 1..n, user : Users, era : 1..MaxEras, late : BOOLEAN]
        /\ partial' \in SUBSET [id : 1..n, user : Users, era : 1..MaxEras]
    BY <1>11, <1>12, <1>13
  <2>2. row' \in [Users -> RowSet] /\ issued' \in 0..MaxIssued
    BY <1>1, <1>5, <1>6, SignInAssumption, SessionTypes
  <2> QED
    BY <1>5, <1>7, <1>14, <2>1, <2>2 DEF SessionTypeOK, RowSet, OwnChanges
<1>16. RowsCount' /\ StaleSessionWasInFlight'
  BY <1>1, <1>6, <1>11, <1>12 DEF RowsCount, StaleSessionWasInFlight
<1>17. AllHeld'
  <2>1. \A q \in Requests : ReqHeld(req[q])
    BY <1>1 DEF AllHeld, ReqHeld
  <2>2. \A q \in Requests : ReqHeld(req[q])'
    BY <1>6, <1>7, <2>1 DEF ReqHeld, Held, Idle
  <2>3. (\A x \in session : Held(x.user, x.era))' /\ (\A x \in partial : Held(x.user, x.era))'
    BY <1>1, <1>3, <1>6, <1>11, <1>12 DEF AllHeld, Held
  <2> QED
    BY <2>2, <2>3 DEF AllHeld, ReqHeld
<1> QED
  BY <1>15, <1>16, <1>17 DEF SessionInv

\* A step that changes rows and ends sessions, and no request.
LEMMA RowStep ==
  ASSUME SessionInv, RowsKept, session' \subseteq session, UNCHANGED <<partial, issued, req>>,
         \A s \in session' : row'[s.user].era = row[s.user].era
  PROVE  SessionInv'
<1>1. SessionTypeOK /\ RowsCount /\ AllHeld /\ StaleSessionWasInFlight
  BY DEF SessionInv
<1>2. SessionTypeOK'
  BY <1>1 DEF SessionTypeOK, RowsKept, RowSet
<1>3. StaleSessionWasInFlight'
  BY <1>1 DEF StaleSessionWasInFlight
<1>4. \A u \in Users, e \in Nat : Held(u, e) => Held(u, e)'
  BY DEF RowsKept
<1>5. AllHeld'
  <2>1. /\ \A s \in session : s.user \in Users /\ s.era \in Nat
        /\ \A c \in partial : c.user \in Users /\ c.era \in Nat
    BY <1>1, SignInAssumption, SessionTypes
  <2>2. \A p \in Requests : req[p].st \in {"hook", "insert"} => req[p].user \in Users /\ req[p].era \in Nat
    BY <1>1, SignInAssumption, SigningInReq
  <2> QED
    BY <1>1, <1>4, <2>1, <2>2 DEF AllHeld
<1> QED
  BY <1>2, <1>3, <1>5 DEF SessionInv, RowsKept

LEMMA RowStepsKeep ==
  ASSUME SessionInv, \/ \E u \in Users : resetPassword(u) \/ disableUser(u) \/ enableUser(u)
                     \/ \E u \in Users, b \in BOOLEAN : updateUserMust(u, b)
                     \/ \E s \in session : SetTwoFactor(s)
  PROVE  SessionInv'
<1>1. SessionTypeOK /\ RowsCount /\ \A s \in session : s.user \in Users
  BY SessionTypes DEF SessionInv
<1>2. ASSUME NEW u \in Users, resetPassword(u)
      PROVE  SessionInv'
  BY <1>1, <1>2, ResetKept, RowStep DEF resetPassword, SessionsOf
<1>3. ASSUME NEW u \in Users, disableUser(u)
      PROVE  SessionInv'
  BY <1>1, <1>3, DisableKept, RowStep DEF disableUser, SessionsOf
<1>4. ASSUME NEW u \in Users, enableUser(u)
      PROVE  SessionInv'
  BY <1>1, <1>4, EnableKept, RowStep DEF enableUser
<1>5. ASSUME NEW u \in Users, NEW b \in BOOLEAN, updateUserMust(u, b)
      PROVE  SessionInv'
  BY <1>1, <1>5, MustKept, RowStep DEF updateUserMust
<1>6. ASSUME NEW s \in session, SetTwoFactor(s)
      PROVE  SessionInv'
  BY <1>1, <1>6, TotpKept, RowStep DEF SetTwoFactor
<1> QED
  BY <1>2, <1>3, <1>4, <1>5, <1>6

\* The user's own change lets in what it keeps: the session it was asked from.
LEMMA OwnKeeps == ASSUME SessionInv, NEW p \in Requests, changeOwnPassword(p) PROVE SessionInv'
<1>1. SessionTypeOK /\ RowsCount /\ AllHeld /\ StaleSessionWasInFlight /\ req[p].st = "own"
  BY DEF SessionInv, changeOwnPassword
<1>2. PICK u \in Users, i \in 1..issued : u = req[p].user /\ i = req[p].id
  BY <1>1, OwnReq
<1>3. PICK new \in 1..MaxEras : new = row[u].era + 1
  BY <1>1, <1>2, SignInAssumption, SessionTypes DEF changeOwnPassword, RowSet
<1>4. RowsKept /\ row'[u].era = new /\ \A v \in Users : v # u => row'[v] = row[v]
  BY <1>1, <1>2, <1>3, OwnKept DEF changeOwnPassword
<1>5. /\ session' = (session \ SessionsOf(u)) \cup {[s EXCEPT !.era = new] : s \in {x \in SessionsOf(u) : x.id = i}}
      /\ req' = [req EXCEPT ![p] = Idle] /\ UNCHANGED <<partial, issued>>
  BY <1>2, <1>3 DEF changeOwnPassword
<1>6. \A s \in session' : \/ s \in session /\ s.user # u
                          \/ \E x \in session : x.user = u /\ x.id = i /\ s = [x EXCEPT !.era = new]
  BY <1>5 DEF SessionsOf
<1>7. \A x \in session : /\ [x EXCEPT !.era = new] \in [id : 1..issued, user : Users, era : 1..MaxEras, late : BOOLEAN]
                         /\ [x EXCEPT !.era = new].id = x.id /\ [x EXCEPT !.era = new].user = x.user
                         /\ [x EXCEPT !.era = new].era = new
  <2>1. session \subseteq [id : 1..issued, user : Users, era : 1..MaxEras, late : BOOLEAN]
    BY <1>1, SessionTypes
  <2> QED
    BY <2>1
<1>8. /\ session' \subseteq [id : 1..issued, user : Users, era : 1..MaxEras, late : BOOLEAN]
      /\ \A s \in session' : s.user = u => s.era = new
      /\ \A s \in session' : s.user # u => s \in session
  BY <1>1, <1>6, <1>7, SessionTypes
<1>9. \A s, t \in session' : s.id = t.id => s = t
  BY <1>1, <1>6, <1>7, SessionTypes
<1>10. req' \in [Requests -> {Idle} \cup SignIns \cup OwnChanges(issued)] /\ \A q \in Requests : req'[q] \in {req[q], Idle}
  BY <1>1, <1>5, SessionTypes
<1>11. SessionTypeOK'
  <2>1. UNCHANGED <<partial, issued>> /\ row' \in [Users -> RowSet]
    BY <1>4, <1>5 DEF RowsKept
  <2> QED
    BY <1>1, <1>8, <1>9, <1>10, <2>1 DEF SessionTypeOK, OwnChanges, RowSet
<1>12. StaleSessionWasInFlight'
  <2>1. \A s \in session' : s.user \in Users
    BY <1>8
  <2> QED
    BY <1>1, <1>4, <1>8, <2>1 DEF StaleSessionWasInFlight
<1>13. AllHeld'
  <2>1. \A v \in Users, e \in Nat : Held(v, e) => Held(v, e)'
    BY <1>4 DEF RowsKept
  <2>2. /\ \A s \in session : s.user \in Users /\ s.era \in Nat
        /\ \A c \in partial : c.user \in Users /\ c.era \in Nat
    BY <1>1, SignInAssumption, SessionTypes
  <2>3. \A q \in Requests : req[q].st \in {"hook", "insert"} => req[q].user \in Users /\ req[q].era \in Nat
    BY <1>1, SignInAssumption, SigningInReq
  <2>4. Held(u, new)'
    BY <1>3, <1>4, SignInAssumption DEF Held
  <2>5. (\A s \in session : Held(s.user, s.era))'
    BY <1>1, <1>8, <2>1, <2>2, <2>4 DEF AllHeld
  <2>6. (\A c \in partial : Held(c.user, c.era))'
    BY <1>1, <1>5, <2>1, <2>2 DEF AllHeld
  <2>7. ASSUME NEW q \in Requests, req'[q].st \in {"hook", "insert"}
        PROVE  Held(req[q].user, req[q].era)'
    <3>1. req'[q] = req[q]
      BY <1>10, <2>7 DEF Idle
    <3>2. PICK v \in Users, e \in Nat : v = req[q].user /\ e = req[q].era
      BY <2>3, <2>7, <3>1
    <3>3. Held(v, e)
      BY <1>1, <2>7, <3>1, <3>2 DEF AllHeld
    <3>4. Held(v, e)'
      BY <2>1, <3>3
    <3> QED
      BY <3>1, <3>2, <3>4
  <2> QED
    BY <2>5, <2>6, <2>7 DEF AllHeld
<1> QED
  BY <1>4, <1>11, <1>12, <1>13 DEF SessionInv, RowsKept

LEMMA SessionInitInv == SessionInit => SessionInv
<1> SUFFICES ASSUME SessionInit
             PROVE  SessionInv
  OBVIOUS
<1>1. 1 \in 1..MaxEras
  BY SignInAssumption
<1>2. row = [u \in Users |-> [pw |-> 1, era |-> 1, soft |-> 1, must |-> FALSE, active |-> TRUE, totp |-> FALSE]]
  BY DEF SessionInit
<1>3. row \in [Users -> RowSet] /\ RowsCount
  BY <1>1, <1>2 DEF RowSet, RowsCount
<1>4. /\ issued \in 0..MaxIssued /\ session = {} /\ partial = {}
      /\ req \in [Requests -> {Idle} \cup SignIns \cup OwnChanges(issued)]
  BY SignInAssumption DEF SessionInit
<1>5. SessionTypeOK
  BY <1>3, <1>4, SessionTypes
<1>6. AllHeld /\ StaleSessionWasInFlight
  BY <1>4 DEF SessionInit, AllHeld, StaleSessionWasInFlight, Idle
<1> QED
  BY <1>3, <1>5, <1>6 DEF SessionInv

LEMMA SessionStepInv == SessionInv /\ [SessionNext]_sessionVars => SessionInv'
<1> SUFFICES ASSUME SessionInv, [SessionNext]_sessionVars
             PROVE  SessionInv'
  OBVIOUS
<1>1. SessionTypeOK /\ RowsCount /\ AllHeld /\ StaleSessionWasInFlight
  BY DEF SessionInv
<1>2. ASSUME NEW s \in session, SessionEnds(s)
      PROVE  SessionInv'
  <2>1. session' \subseteq session /\ UNCHANGED <<row, partial, issued, req>>
    BY <1>2 DEF SessionEnds
  <2>2. SessionTypeOK'
    BY <1>1, <2>1 DEF SessionTypeOK
  <2>3. RowsCount' /\ AllHeld' /\ StaleSessionWasInFlight'
    BY <1>1, <2>1 DEF RowsCount, AllHeld, Held, StaleSessionWasInFlight
  <2> QED
    BY <2>2, <2>3 DEF SessionInv
<1>3. CASE ApiRestart
  <2>1. req' = [p \in Requests |-> Idle] /\ UNCHANGED <<row, session, partial, issued>>
    BY <1>3 DEF ApiRestart
  <2>2. SessionTypeOK'
    BY <1>1, <2>1 DEF SessionTypeOK
  <2>3. RowsCount' /\ AllHeld' /\ StaleSessionWasInFlight'
    BY <1>1, <2>1 DEF RowsCount, AllHeld, Held, StaleSessionWasInFlight, Idle
  <2> QED
    BY <2>2, <2>3 DEF SessionInv
<1>4. CASE UNCHANGED sessionVars
  <2>1. UNCHANGED <<row, session, partial, issued, req>>
    BY <1>4 DEF sessionVars
  <2>2. SessionTypeOK'
    BY <1>1, <2>1 DEF SessionTypeOK
  <2>3. RowsCount' /\ AllHeld' /\ StaleSessionWasInFlight'
    BY <1>1, <2>1 DEF RowsCount, AllHeld, Held, StaleSessionWasInFlight
  <2> QED
    BY <2>2, <2>3 DEF SessionInv
<1> QED
  BY <1>2, <1>3, <1>4, ReqStepsKeep, VerifyKeeps, InsertKeeps, OwnKeeps, RowStepsKeep DEF SessionNext

\* The rows of `user` and `session` keep their types, and no two sessions have a token.
THEOREM SessionsTypeCorrect == SessionSpec => []SessionTypeOK
<1>1. SessionInv => SessionTypeOK
  BY DEF SessionInv
<1> QED
  BY <1>1, SessionInitInv, SessionStepInv, PTL DEF SessionSpec

\* A password that was replaced lets nobody in, wherever a reset, a change, a disable or a
\* lifted flag falls between the steps of a sign-in.
THEOREM OldPasswordsHeldHolds == SessionSpec => []OldPasswordsHeld
<1>1. SessionInv => OldPasswordsHeld
  BY DEF SessionInv, AllHeld, Held, OldPasswordsHeld, RotationHoldsTheLate, Admitted
<1> QED
  BY <1>1, SessionInitInv, SessionStepInv, PTL DEF SessionSpec

-----------------------------------------------------------------------------
(***************************************************************************)
(* The first owner.                                                        *)
(***************************************************************************)

\* A command that asked before there was an owner knows by now that it was overtaken.
CreatorsRaced ==
  hasOwner => \A c \in Commands : command[c].st = "creating" => command[c].raced

\* The token a file holds, or is about to hold, is in the database.
Opens(t)  == ~hasOwner /\ t \notin expired => token[t] = "open"
FilesOpen ==
  /\ material # 0 => Opens(material)
  /\ \A c \in Commands : command[c].st = "writing" => Opens(command[c].token)

SetupInv ==
  /\ SetupTypeOK /\ IsFiniteSet(owner)
  /\ CreatorsRaced /\ SecondOwnerRaced /\ FilesOpen

OwnerSet      == [id : 1..MaxOwners, token : 0..MaxTokens, raced : BOOLEAN]
Drawing(n)    == [st : {"hashing", "writing"}, token : 1..n]
Creating      == [st : {"creating"}, raced : BOOLEAN]
CommandSet(n) == {Quiet} \cup Drawing(n) \cup Creating

LEMMA SetupTypes == SetupTypeOK <=>
  /\ owner \in SUBSET OwnerSet
  /\ token \in [Tokens -> {"none", "open", "used"}]
  /\ expired \subseteq Tokens
  /\ drawn \in 0..MaxTokens
  /\ material \in 0..drawn
  /\ \A t \in Tokens : token[t] # "none" => t <= drawn
  /\ form \in [Forms -> 0..MaxTokens]
  /\ command \in [Commands -> CommandSet(drawn)]
BY DEF SetupTypeOK, OwnerSet, CommandSet, Drawing, Creating

LEMMA DrawingCommand ==
  ASSUME SetupTypeOK, NEW c \in Commands, command[c].st \in {"hashing", "writing"}
  PROVE  command[c] \in Drawing(drawn) /\ command[c].token \in 1..drawn /\ command[c].token \in Tokens
<1>1. command[c] \in Drawing(drawn)
  BY SetupTypes DEF CommandSet, Drawing, Creating, Quiet
<1> QED
  BY <1>1, FirstOwnerAssumption, SetupTypes DEF Drawing, Tokens

LEMMA CreatingCommand ==
  ASSUME SetupTypeOK, NEW c \in Commands, command[c].st = "creating"
  PROVE  command[c] \in Creating /\ command[c].raced \in BOOLEAN
<1>1. command[c] \in Creating
  BY SetupTypes DEF CommandSet, Drawing, Creating, Quiet
<1> QED
  BY <1>1 DEF Creating

\* Where no owner is made: a command moves on, or a token or the file.
LEMMA NoOwnerStep ==
  ASSUME SetupInv, SetupTypeOK', owner' = owner,
         \A c \in Commands : \/ command'[c] = command[c]
                             \/ command'[c].st = "creating" => ~hasOwner,
         FilesOpen'
  PROVE  SetupInv'
<1>1. IsFiniteSet(owner)' /\ SecondOwnerRaced'
  BY DEF SetupInv, SecondOwnerRaced
<1>2. CreatorsRaced'
  BY DEF SetupInv, CreatorsRaced, hasOwner
<1> QED
  BY <1>1, <1>2 DEF SetupInv

LEMMA DrawKeeps == ASSUME SetupInv, NEW c \in Commands, createBootstrapToken(c) PROVE SetupInv'
<1>1. SetupTypeOK /\ FilesOpen /\ ~hasOwner
  BY DEF SetupInv, createBootstrapToken
<1>2. PICK n \in 1..MaxTokens : n = drawn + 1 /\ drawn' = n /\ drawn \in Nat
  BY <1>1, FirstOwnerAssumption, SetupTypes DEF createBootstrapToken
<1>3. token' = [t \in Tokens |-> IF token[t] = "used" \/ t \in expired THEN "none" ELSE token[t]]
  BY DEF createBootstrapToken
<1>4. UNCHANGED <<owner, expired, material, form>>
  BY DEF createBootstrapToken
<1>5. PICK r : r = [st |-> "hashing", token |-> n]
  OBVIOUS
<1>6. r \in Drawing(n) /\ r.st = "hashing"
  BY <1>2, <1>5 DEF Drawing
<1>7. CommandSet(drawn) \subseteq CommandSet(n)
  BY <1>2 DEF CommandSet, Drawing
<1>8. command' = [command EXCEPT ![c] = r]
  BY <1>2, <1>5 DEF createBootstrapToken
<1>9. command' \in [Commands -> CommandSet(n)] /\ \A d \in Commands : command'[d] = command[d] \/ command'[d] = r
  BY <1>1, <1>6, <1>7, <1>8, SetupTypes DEF CommandSet
<1>10. SetupTypeOK'
  <2>1. token' \in [Tokens -> {"none", "open", "used"}]
    BY <1>1, <1>3, SetupTypes
  <2>2. \A t \in Tokens : token'[t] # "none" => t <= drawn'
    BY <1>1, <1>2, <1>3, SetupTypes DEF Tokens
  <2>3. material' \in 0..drawn' /\ drawn' \in 0..MaxTokens
    BY <1>1, <1>2, <1>4, FirstOwnerAssumption, SetupTypes
  <2> QED
    BY <1>1, <1>2, <1>4, <1>9, <2>1, <2>2, <2>3 DEF SetupTypeOK, CommandSet, Drawing, Creating
<1>11. \A t \in Tokens : Opens(t) => Opens(t)'
  BY <1>1, <1>3, <1>4 DEF Opens, hasOwner
<1>12. FilesOpen'
  <2>1. material # 0 => material \in Tokens
    BY <1>1, FirstOwnerAssumption, SetupTypes DEF Tokens
  <2>2. material' # 0 => Opens(material)'
    BY <1>1, <1>4, <1>11, <2>1 DEF FilesOpen
  <2>3. ASSUME NEW d \in Commands, command'[d].st = "writing"
        PROVE  Opens(command[d].token)'
    <3>1. command'[d] = command[d]
      BY <1>6, <1>9, <2>3
    <3>2. PICK t \in Tokens : t = command[d].token
      BY <1>1, <2>3, <3>1, DrawingCommand
    <3>3. Opens(t)'
      BY <1>1, <1>11, <2>3, <3>1, <3>2 DEF FilesOpen
    <3> QED
      BY <3>1, <3>2, <3>3
  <2> QED
    BY <2>2, <2>3 DEF FilesOpen
<1> QED
  BY <1>4, <1>6, <1>9, <1>10, <1>12, NoOwnerStep

LEMMA InsertTokenKeeps == ASSUME SetupInv, NEW c \in Commands, InsertToken(c) PROVE SetupInv'
<1>1. SetupTypeOK /\ FilesOpen /\ command[c].st = "hashing"
  BY DEF SetupInv, InsertToken
<1>2. PICK n \in 1..drawn : n = command[c].token /\ n \in Tokens
  BY <1>1, DrawingCommand
<1>3. token' = [token EXCEPT ![n] = "open"] /\ UNCHANGED <<owner, expired, drawn, material, form>>
  BY <1>2 DEF InsertToken
<1>4. PICK r : r = [command[c] EXCEPT !.st = "writing"]
  OBVIOUS
<1>5. r \in Drawing(drawn) /\ r.st = "writing" /\ r.token = n
  BY <1>1, <1>2, <1>4, DrawingCommand DEF Drawing
<1>6. command' = [command EXCEPT ![c] = r]
  BY <1>4 DEF InsertToken
<1>7. command' \in [Commands -> CommandSet(drawn)] /\ \A d \in Commands : command'[d] = command[d] \/ command'[d] = r
  BY <1>1, <1>5, <1>6, SetupTypes DEF CommandSet
<1>8. SetupTypeOK'
  <2>1. token' \in [Tokens -> {"none", "open", "used"}] /\ \A t \in Tokens : token'[t] # "none" => t <= drawn
    BY <1>1, <1>2, <1>3, SetupTypes
  <2> QED
    BY <1>1, <1>3, <1>7, <2>1 DEF SetupTypeOK, CommandSet, Drawing, Creating
<1>9. \A t \in Tokens : Opens(t) => Opens(t)'
  BY <1>1, <1>3, SetupTypes DEF Opens, hasOwner
<1>10. Opens(n)'
  BY <1>1, <1>2, <1>3, SetupTypes DEF Opens
<1>11. FilesOpen'
  <2>1. material # 0 => material \in Tokens
    BY <1>1, FirstOwnerAssumption, SetupTypes DEF Tokens
  <2>2. material' # 0 => Opens(material)'
    BY <1>1, <1>3, <1>9, <2>1 DEF FilesOpen
  <2>3. ASSUME NEW d \in Commands, command'[d].st = "writing"
        PROVE  Opens(command[d].token)'
    <3>1. CASE command'[d] = r
      BY <1>5, <1>10, <3>1
    <3>2. CASE command'[d] = command[d]
      <4>1. PICK t \in Tokens : t = command[d].token
        BY <1>1, <2>3, <3>2, DrawingCommand
      <4>2. Opens(t)'
        BY <1>1, <1>9, <2>3, <3>2, <4>1 DEF FilesOpen
      <4> QED
        BY <3>2, <4>1, <4>2
    <3> QED
      BY <1>7, <3>1, <3>2
  <2> QED
    BY <2>2, <2>3 DEF FilesOpen
<1> QED
  BY <1>3, <1>5, <1>7, <1>8, <1>11, NoOwnerStep

LEMMA WriteFileKeeps == ASSUME SetupInv, NEW c \in Commands, writeBootstrapMaterial(c) PROVE SetupInv'
<1>1. SetupTypeOK /\ FilesOpen /\ command[c].st = "writing"
  BY DEF SetupInv, writeBootstrapMaterial
<1>2. PICK n \in 1..drawn : n = command[c].token
  BY <1>1, DrawingCommand
<1>3. /\ material' = n /\ UNCHANGED <<owner, token, expired, drawn, form>>
      /\ command' = [command EXCEPT ![c] = Quiet]
  BY <1>2 DEF writeBootstrapMaterial
<1>4. command' \in [Commands -> CommandSet(drawn)] /\ \A d \in Commands : command'[d] = command[d] \/ command'[d] = Quiet
  BY <1>1, <1>3, SetupTypes DEF CommandSet
<1>5. SetupTypeOK'
  <2>1. material' \in 0..drawn
    BY <1>2, <1>3
  <2> QED
    BY <1>1, <1>3, <1>4, <2>1 DEF SetupTypeOK, CommandSet, Drawing, Creating
<1>6. FilesOpen'
  BY <1>1, <1>2, <1>3, <1>4 DEF FilesOpen, Opens, hasOwner, Quiet
<1> QED
  BY <1>3, <1>4, <1>5, <1>6, NoOwnerStep DEF Quiet

LEMMA OtherStepsKeep ==
  ASSUME SetupInv,
         \/ \E c \in Commands : CreateOwnerAsks(c) \/ CommandEnds(c)
         \/ \E f \in Forms : SetupRefused(f) \/ \E t \in 1..drawn : PostSetup(f, t)
         \/ \E t \in Tokens : TokenExpires(t)
         \/ UNCHANGED setupVars
  PROVE  SetupInv'
<1>1. SetupTypeOK /\ FilesOpen
  BY DEF SetupInv
<1>2. ASSUME NEW c \in Commands, CreateOwnerAsks(c) \/ CommandEnds(c)
      PROVE  SetupInv'
  <2>1. PICK r \in {Quiet} \cup Creating :
          /\ command' = [command EXCEPT ![c] = r] /\ r.st # "writing" /\ (r.st = "creating" => ~hasOwner)
          /\ UNCHANGED <<owner, token, expired, drawn, material, form>>
    <3>1. CASE CommandEnds(c)
      <4>1. Quiet.st = "idle"
        BY DEF Quiet
      <4> WITNESS Quiet \in {Quiet} \cup Creating
      <4> QED
        BY <3>1, <4>1 DEF CommandEnds
    <3>2. CASE CreateOwnerAsks(c)
      <4>1. PICK r : r = [st |-> "creating", raced |-> FALSE]
        OBVIOUS
      <4>2. r \in Creating /\ r.st = "creating"
        BY <4>1 DEF Creating
      <4> QED
        BY <3>2, <4>1, <4>2 DEF CreateOwnerAsks
    <3> QED
      BY <1>2, <3>1, <3>2
  <2>2. /\ command' \in [Commands -> CommandSet(drawn)]
        /\ \A d \in Commands : command'[d] = command[d] \/ command'[d] = r
    BY <1>1, <2>1, SetupTypes DEF CommandSet
  <2>3. SetupTypeOK'
    BY <1>1, <2>1, <2>2 DEF SetupTypeOK, CommandSet, Drawing, Creating
  <2>4. FilesOpen'
    BY <1>1, <2>1, <2>2 DEF FilesOpen, Opens, hasOwner
  <2> QED
    BY <2>1, <2>2, <2>3, <2>4, NoOwnerStep
<1>3. ASSUME NEW f \in Forms, SetupRefused(f) \/ \E t \in 1..drawn : PostSetup(f, t)
      PROVE  SetupInv'
  <2>1. PICK t \in 0..MaxTokens :
          form' = [form EXCEPT ![f] = t] /\ UNCHANGED <<owner, token, expired, drawn, material, command>>
    BY <1>1, <1>3, FirstOwnerAssumption, SetupTypes DEF SetupRefused, PostSetup
  <2>2. SetupTypeOK'
    BY <1>1, <2>1 DEF SetupTypeOK
  <2>3. FilesOpen'
    BY <1>1, <2>1 DEF FilesOpen, Opens, hasOwner
  <2> QED
    BY <2>1, <2>2, <2>3, NoOwnerStep
<1>4. ASSUME NEW t \in Tokens, TokenExpires(t)
      PROVE  SetupInv'
  <2>1. expired' = expired \cup {t} /\ UNCHANGED <<owner, token, drawn, material, form, command>>
    BY <1>4 DEF TokenExpires
  <2>2. SetupTypeOK'
    BY <1>1, <2>1 DEF SetupTypeOK
  <2>3. FilesOpen'
    BY <1>1, <2>1 DEF FilesOpen, Opens, hasOwner
  <2> QED
    BY <2>1, <2>2, <2>3, NoOwnerStep
<1>5. CASE UNCHANGED setupVars
  <2>1. UNCHANGED <<owner, token, expired, drawn, material, form, command>>
    BY <1>5 DEF setupVars
  <2>2. SetupTypeOK'
    BY <1>1, <2>1 DEF SetupTypeOK
  <2>3. FilesOpen'
    BY <1>1, <2>1 DEF FilesOpen, Opens, hasOwner
  <2> QED
    BY <2>1, <2>2, <2>3, NoOwnerStep
<1> QED
  BY <1>2, <1>3, <1>4, <1>5

\* An owner is made.  Every command that had asked before has now been overtaken.
LEMMA OwnerStep ==
  ASSUME SetupInv, NEW t \in 0..MaxTokens, NEW raced \in BOOLEAN, NewOwner(t, raced),
         hasOwner => t = 0 /\ raced,
         \A c \in Commands : command'[c] = Raced(c) \/ command'[c] = Quiet,
         owner' \in SUBSET OwnerSet => SetupTypeOK'
  PROVE  SetupInv'
<1>1. PICK o : o = [id |-> Cardinality(owner) + 1, token |-> t, raced |-> raced]
  OBVIOUS
<1>2. owner' = owner \cup {o} /\ Cardinality(owner) < MaxOwners
  BY <1>1 DEF NewOwner
<1>3. Cardinality(owner) \in Nat /\ IsFiniteSet(owner)'
  BY <1>2, FS_CardinalityType, FS_AddElement DEF SetupInv
<1>4. o \in OwnerSet /\ o.token = t /\ o.raced = raced
  BY <1>1, <1>2, <1>3, FirstOwnerAssumption DEF OwnerSet
<1>5. SetupTypeOK'
  BY <1>2, <1>4, SetupTypes DEF SetupInv
<1>6. SecondOwnerRaced'
  <2>1. CASE owner = {}
    <3>1. o \in owner' \cup {[id |-> 0]} /\ owner' \ {o} = {}
      BY <1>2, <2>1
    <3> QED
      BY <3>1 DEF SecondOwnerRaced
  <2>2. CASE owner # {}
    <3>1. PICK x \in owner \cup {[id |-> 0]} : \A y \in owner \ {x} : y.token = 0 /\ y.raced
      BY DEF SetupInv, SecondOwnerRaced
    <3>2. o.token = 0 /\ o.raced
      BY <1>4, <2>2 DEF hasOwner
    <3>3. x \in owner' \cup {[id |-> 0]} /\ \A y \in owner' \ {x} : y.token = 0 /\ y.raced
      BY <1>2, <3>1, <3>2
    <3> QED
      BY <3>3 DEF SecondOwnerRaced
  <2> QED
    BY <2>1, <2>2
<1>7. ASSUME NEW c \in Commands, command'[c].st = "creating"
      PROVE  command'[c].raced
  <2>1. command'[c] = Raced(c)
    BY <1>7 DEF Quiet
  <2>2. CASE command[c].st = "creating"
    <3>1. command[c] \in Creating
      BY <2>2, CreatingCommand DEF SetupInv
    <3>2. command'[c] = [command[c] EXCEPT !.raced = TRUE]
      BY <2>1, <2>2 DEF Raced
    <3> QED
      BY <3>1, <3>2 DEF Creating
  <2>3. CASE command[c].st # "creating"
    BY <1>7, <2>1, <2>3 DEF Raced
  <2> QED
    BY <2>2, <2>3
<1>8. hasOwner'
  BY <1>2 DEF hasOwner
<1>9. CreatorsRaced' /\ FilesOpen'
  BY <1>7, <1>8 DEF CreatorsRaced, FilesOpen, Opens
<1> QED
  BY <1>3, <1>5, <1>6, <1>9 DEF SetupInv

LEMMA RacedCommands ==
  ASSUME SetupTypeOK, NEW c \in Commands
  PROVE  Raced(c) \in CommandSet(drawn)
<1>1. CASE command[c].st = "creating"
  <2>1. command[c] \in Creating
    BY <1>1, CreatingCommand
  <2>2. [command[c] EXCEPT !.raced = TRUE] \in Creating
    BY <2>1 DEF Creating
  <2> QED
    BY <1>1, <2>2 DEF Raced, CommandSet
<1>2. CASE command[c].st # "creating"
  BY <1>2, SetupTypes DEF Raced
<1> QED
  BY <1>1, <1>2

LEMMA CreateOwnerKeeps == ASSUME SetupInv, NEW c \in Commands, CreateOwner(c) PROVE SetupInv'
<1>1. SetupTypeOK /\ CreatorsRaced /\ command[c].st = "creating"
  BY DEF SetupInv, CreateOwner
<1>2. PICK raced \in BOOLEAN : raced = command[c].raced
  BY <1>1, CreatingCommand
<1>3. NewOwner(0, raced) /\ UNCHANGED <<token, expired, drawn, material, form>>
  BY <1>2 DEF CreateOwner
<1>4. hasOwner => raced
  BY <1>1, <1>2 DEF CreatorsRaced
<1>5. command' = [[d \in Commands |-> Raced(d)] EXCEPT ![c] = Quiet]
  BY DEF CreateOwner
<1>6. /\ \A d \in Commands : command'[d] = Raced(d) \/ command'[d] = Quiet
      /\ command' \in [Commands -> CommandSet(drawn)]
  BY <1>1, <1>5, RacedCommands DEF CommandSet
<1>7. owner' \in SUBSET OwnerSet => SetupTypeOK'
  BY <1>1, <1>3, <1>6 DEF SetupTypeOK, CommandSet, Drawing, Creating, OwnerSet
<1>8. 0 \in 0..MaxTokens
  BY FirstOwnerAssumption
<1> QED
  BY <1>3, <1>4, <1>6, <1>7, <1>8, OwnerStep

LEMMA FirstOwnerKeeps == ASSUME SetupInv, NEW f \in Forms, createFirstOwner(f) PROVE SetupInv'
<1>1. SetupTypeOK /\ ~hasOwner
  BY DEF SetupInv, createFirstOwner
<1>2. PICK t \in Tokens : t = form[f]
  BY <1>1, FirstOwnerAssumption, SetupTypes DEF createFirstOwner, Tokens
<1>3. /\ NewOwner(t, FALSE) /\ token' = [token EXCEPT ![t] = "used"] /\ token[t] = "open"
      /\ command' = [c \in Commands |-> Raced(c)] /\ form' = [form EXCEPT ![f] = 0]
      /\ UNCHANGED <<expired, drawn, material>>
  BY <1>2 DEF createFirstOwner, consumable
<1>4. /\ \A c \in Commands : command'[c] = Raced(c)
      /\ command' \in [Commands -> CommandSet(drawn)]
  BY <1>1, <1>3, RacedCommands
<1>5. /\ token' \in [Tokens -> {"none", "open", "used"}] /\ form' \in [Forms -> 0..MaxTokens]
      /\ \A x \in Tokens : token'[x] # "none" => x <= drawn
  BY <1>1, <1>3, FirstOwnerAssumption, SetupTypes
<1>6. owner' \in SUBSET OwnerSet => SetupTypeOK'
  BY <1>1, <1>3, <1>4, <1>5 DEF SetupTypeOK, CommandSet, Drawing, Creating, OwnerSet
<1>7. t \in 0..MaxTokens
  BY FirstOwnerAssumption DEF Tokens
<1> QED
  BY <1>1, <1>3, <1>4, <1>6, <1>7, OwnerStep

LEMMA SetupInitInv == SetupInit => SetupInv
<1> SUFFICES ASSUME SetupInit
             PROVE  SetupInv
  OBVIOUS
<1>1. SetupTypeOK
  BY FirstOwnerAssumption, SetupTypes DEF SetupInit, CommandSet
<1>2. IsFiniteSet(owner)
  BY FS_EmptySet DEF SetupInit
<1>3. CreatorsRaced /\ SecondOwnerRaced /\ FilesOpen
  BY DEF SetupInit, CreatorsRaced, SecondOwnerRaced, FilesOpen, hasOwner, Quiet
<1> QED
  BY <1>1, <1>2, <1>3 DEF SetupInv

LEMMA SetupStepInv == SetupInv /\ [SetupNext]_setupVars => SetupInv'
BY DrawKeeps, InsertTokenKeeps, WriteFileKeeps, OtherStepsKeep, CreateOwnerKeeps, FirstOwnerKeeps
   DEF SetupNext

\* What the database, the file and the commands hold keeps its types.
THEOREM SetupTypeCorrect == SetupSpec => []SetupTypeOK
<1>1. SetupInv => SetupTypeOK
  BY DEF SetupInv
<1> QED
  BY <1>1, SetupInitInv, SetupStepInv, PTL DEF SetupSpec

\* The form never makes an owner beside another, and until there is one the token in the
\* file works, whatever forms and commands overlap, fail or are refused.
THEOREM FirstOwnerSafeHolds == SetupSpec => []FirstOwnerSafe
<1>1. SetupInv => FirstOwnerSafe
  <2> SUFFICES ASSUME SetupInv
               PROVE  FirstOwnerSafe
    OBVIOUS
  <2>1. MaterialWorks
    BY DEF SetupInv, MaterialWorks, FilesOpen, Opens, consumable
  <2> QED
    BY <2>1 DEF SetupInv, FirstOwnerSafe
<1> QED
  BY <1>1, SetupInitInv, SetupStepInv, PTL DEF SetupSpec
(***************************************************************************)
(* The buttons of a user.                                                  *)
(***************************************************************************)

Job == [command : RowCommands, to : Status, at : {"session", "command", "ok", "error"}]

Page == [shown : Status, pending : BOOLEAN, msg : {"none", "ok", "error"},
         timer : BOOLEAN, typed : BOOLEAN, open : BOOLEAN]

\* At most one command of the hook is on its way, and then the buttons are off.
OneCommand ==
  /\ \A i, j \in 1..Len(sent) : sent[i].command # "save" /\ sent[j].command # "save" => i = j
  /\ \A i \in 1..Len(sent) : sent[i].command # "save" => entry.pending

\* The timer is that of a success which is shown, and none runs while a command
\* is on its way; what is shown is the last answer, an error until the next command.
Messages ==
  /\ entry.pending => ~entry.timer /\ entry.msg = "none"
  /\ entry.timer => entry.msg = "ok"
  /\ ~entry.pending => /\ last = "error" => entry.msg = "error"
                       /\ entry.msg # "none" => entry.msg = last

\* A page that knows the last write shows it, or is about to be rendered anew.
ShowsKnown == entry.open /\ known /\ ~At("ok") => entry.shown = user

RowInv == RowTypeOK /\ OneCommand /\ Messages /\ ShowsKnown

LEMMA HeadIsFirst ==
  ASSUME sent \in Seq(Job), sent # <<>>
  PROVE  1 \in 1..Len(sent) /\ Head(sent) = sent[1] /\ sent[1] \in Job /\ Len(sent) \in Nat
BY EmptySeq, HeadTailProperties, LenProperties, ElementOfSeq

\* The head of the queue moves on: the commands in it stay what they are.
LEMMA ToStep ==
  ASSUME sent \in Seq(Job), sent # <<>>,
         NEW points \in SUBSET {"session", "command", "ok", "error"}, To(points)
  PROVE  /\ sent' \in Seq(Job) /\ sent' # <<>> /\ Len(sent') = Len(sent)
         /\ Head(sent').at \in points
         /\ \A i \in 1..Len(sent) : sent'[i].command = sent[i].command
<1>1. PICK point \in points : sent' = [sent EXCEPT ![1].at = point]
  BY DEF To
<1>2. PICK x : x = [sent[1] EXCEPT !.at = point]
  OBVIOUS
<1>3. x \in Job /\ x.at = point /\ x.command = sent[1].command
  BY <1>2, HeadIsFirst DEF Job
<1>4. sent' = [sent EXCEPT ![1] = x]
  BY <1>1, <1>2
<1>5. /\ sent' \in Seq(Job) /\ Len(sent') = Len(sent)
      /\ \A i \in 1..Len(sent) : sent'[i] = IF i = 1 THEN x ELSE sent[i]
  BY <1>3, <1>4, HeadIsFirst, ExceptSeq
<1>6. sent' # <<>>
  BY <1>5, HeadIsFirst, EmptySeq
<1>7. Head(sent') = sent'[1]
  BY <1>5, <1>6, HeadTailProperties
<1> QED
  BY <1>3, <1>5, <1>6, <1>7, HeadIsFirst

\* A server action more.
LEMMA SendStep ==
  ASSUME sent \in Seq(Job), NEW c \in RowCommands, NEW to \in Status, Send(c, to)
  PROVE  /\ sent' \in Seq(Job) /\ Len(sent') = Len(sent) + 1
         /\ \A i \in 1..Len(sent) : sent'[i] = sent[i]
         /\ sent'[Len(sent) + 1].command = c
         /\ Head(sent').at = IF sent = <<>> THEN "session" ELSE Head(sent).at
         /\ sent' # <<>>
<1>1. PICK x : x = [command |-> c, to |-> to, at |-> "session"]
  OBVIOUS
<1>2. x \in Job /\ x.command = c /\ x.at = "session"
  BY <1>1 DEF Job
<1>3. sent' = Append(sent, x)
  BY <1>1 DEF Send
<1>4. /\ sent' \in Seq(Job) /\ sent' # <<>> /\ Len(sent') = Len(sent) + 1
      /\ \A i \in 1..Len(sent) : sent'[i] = sent[i]
      /\ sent'[Len(sent) + 1] = x
  BY <1>2, <1>3, AppendProperties
<1>5. Head(sent') = sent'[1]
  BY <1>4, HeadTailProperties
<1>6. sent = <<>> => Len(sent) = 0
  BY EmptySeq
<1> QED
  BY <1>2, <1>4, <1>5, <1>6, HeadIsFirst

LEMMA TailStep ==
  ASSUME sent \in Seq(Job), sent # <<>>, sent' = Tail(sent)
  PROVE  /\ sent' \in Seq(Job) /\ Len(sent) \in Nat \ {0} /\ Len(sent') = Len(sent) - 1
         /\ \A i \in 1..Len(sent') : sent'[i] = sent[i + 1]
BY HeadIsFirst, HeadTailProperties, EmptySeq

LEMMA RowInvInit == RowInit => RowInv
<1> SUFFICES ASSUME RowInit PROVE RowInv
  OBVIOUS
<1>1. RowTypeOK
  BY EmptySeq DEF RowInit, RowTypeOK, Opened, Status
<1>2. Len(sent) = 0 /\ entry = Opened(user) /\ last = "none"
  BY EmptySeq DEF RowInit
<1>3. ~entry.pending /\ ~entry.timer /\ entry.msg = "none" /\ entry.shown = user
  BY <1>2 DEF Opened
<1>4. OneCommand
  BY <1>2 DEF OneCommand
<1>5. Messages
  BY <1>2, <1>3 DEF Messages
<1>6. ShowsKnown
  BY <1>3 DEF ShowsKnown
<1> QED
  BY <1>1, <1>4, <1>5, <1>6 DEF RowInv

\* What Revalidated keeps of the page.
LEMMA RevalidatedType ==
  ASSUME NEW r \in Page, user \in Status \cup {"deleted"}
  PROVE  /\ Revalidated(r) \in Page
         /\ Revalidated(r).pending = r.pending /\ Revalidated(r).msg = r.msg
         /\ Revalidated(r).timer = r.timer
         /\ Revalidated(r).open => Revalidated(r).shown = user
BY DEF Revalidated, Page, Status

LEMMA ButtonsStep ==
  ASSUME RowInv, [RowNext]_rowVars
  PROVE  RowInv'
<1>0. /\ user \in Status \cup {"deleted"} /\ entry \in Page /\ sent \in Seq(Job)
      /\ last \in {"none", "ok", "error"} /\ known \in BOOLEAN
      /\ Len(sent) \in Nat
      /\ OneCommand /\ Messages /\ ShowsKnown
  BY LenProperties DEF RowInv, RowTypeOK, Page, Job
<1>1. /\ user' \in Status \cup {"deleted"} /\ entry' \in Page /\ sent' \in Seq(Job)
      /\ last' \in {"none", "ok", "error"} /\ known' \in BOOLEAN
      /\ OneCommand' /\ Messages' /\ ShowsKnown'
      => RowInv'
  BY DEF RowInv, RowTypeOK, Page, Job
<1>2. CASE run
  <2>1. PICK c \in RowCommands \ {"save"} : Send(c, entry.shown)
    BY <1>2 DEF run, RowCommands
  <2>2. PICK x : x = clear(entry)
    OBVIOUS
  <2>3. x \in Page /\ x.msg = "none" /\ ~x.timer /\ x.shown = entry.shown /\ x.open = entry.open
    BY <1>0, <2>2 DEF Page, clear
  <2>4. entry' \in Page /\ entry'.msg = "none" /\ ~entry'.timer /\ entry'.pending
        /\ entry'.shown = entry.shown /\ entry'.open = entry.open
    BY <1>2, <2>2, <2>3 DEF run, Page
  <2>5. ~entry.pending /\ UNCHANGED <<user, last, known>> /\ entry.shown \in Status
    BY <1>0, <1>2 DEF run, Page
  <2>6. /\ sent' \in Seq(Job) /\ Len(sent') = Len(sent) + 1
        /\ \A i \in 1..Len(sent) : sent'[i] = sent[i]
        /\ Head(sent').at = IF sent = <<>> THEN "session" ELSE Head(sent).at
        /\ sent' # <<>>
    BY <1>0, <2>1, <2>5, SendStep
  <2>7. OneCommand'
    <3>1. \A i \in 1..Len(sent) : sent'[i].command = "save"
      BY <1>0, <2>5, <2>6 DEF OneCommand
    <3>2. \A i \in 1..Len(sent') : sent'[i].command # "save" => i = Len(sent')
      BY <1>0, <2>6, <3>1
    <3> QED
      BY <2>4, <3>2 DEF OneCommand
  <2>8. ShowsKnown' /\ Messages'
    BY <1>0, <2>4, <2>5, <2>6 DEF ShowsKnown, Messages, At
  <2> QED
    BY <1>0, <1>1, <2>4, <2>5, <2>6, <2>7, <2>8
<1>3. CASE TypePassword
  <2>1. entry' \in Page /\ entry'.msg = entry.msg /\ entry'.timer = entry.timer
        /\ entry'.pending = entry.pending /\ entry'.shown = entry.shown /\ entry'.open = entry.open
    BY <1>0, <1>3 DEF TypePassword, Page
  <2> QED
    BY <1>0, <1>1, <1>3, <2>1 DEF TypePassword, OneCommand, Messages, ShowsKnown, At
<1>4. CASE Save
  <2>1. PICK status \in Status : Send("save", status)
    BY <1>4 DEF Save
  <2>2. /\ sent' \in Seq(Job) /\ Len(sent') = Len(sent) + 1
        /\ \A i \in 1..Len(sent) : sent'[i] = sent[i]
        /\ sent'[Len(sent) + 1].command = "save"
        /\ Head(sent').at = IF sent = <<>> THEN "session" ELSE Head(sent).at
        /\ sent' # <<>>
    BY <1>0, <2>1, SendStep DEF RowCommands
  <2>3. OneCommand'
    <3>1. entry' = entry
      BY <1>4 DEF Save
    <3>2. \A i \in 1..Len(sent') :
             sent'[i].command # "save" => i \in 1..Len(sent) /\ sent[i].command # "save"
      BY <1>0, <2>2
    <3> QED
      BY <1>0, <3>1, <3>2 DEF OneCommand
  <2> QED
    BY <1>0, <1>1, <1>4, <2>2, <2>3 DEF Save, Messages, ShowsKnown, At
<1>5. CASE TimerFires
  <2>1. PICK x : x = [entry EXCEPT !.msg = "none"]
    OBVIOUS
  <2>2. x \in Page /\ x.msg = "none" /\ x.pending = entry.pending /\ x.shown = entry.shown /\ x.open = entry.open
    BY <1>0, <2>1 DEF Page
  <2>3. entry' = [x EXCEPT !.timer = FALSE]
    BY <1>0, <1>5, <2>1 DEF TimerFires, Page
  <2>4. entry' \in Page /\ entry'.msg = "none" /\ ~entry'.timer
        /\ entry'.pending = entry.pending /\ entry'.shown = entry.shown /\ entry'.open = entry.open
    BY <2>2, <2>3 DEF Page
  <2> QED
    BY <1>0, <1>1, <1>5, <2>4 DEF TimerFires, OneCommand, Messages, ShowsKnown, At
<1>6. CASE getSession
  <2>1. /\ sent # <<>> /\ Head(sent).at = "session" /\ To({"command", "error"})
        /\ UNCHANGED <<user, entry, last, known>>
    BY <1>6 DEF getSession, At
  <2>2. /\ sent' \in Seq(Job) /\ sent' # <<>> /\ Len(sent') = Len(sent)
        /\ \A i \in 1..Len(sent) : sent'[i].command = sent[i].command
    BY <1>0, <2>1, ToStep
  <2>3. OneCommand' /\ ShowsKnown' /\ Messages'
    BY <1>0, <2>1, <2>2 DEF OneCommand, ShowsKnown, Messages, At
  <2> QED
    BY <1>0, <1>1, <2>1, <2>2, <2>3
<1>7. CASE userCommand
  <2>1. sent # <<>> /\ Head(sent).at = "command" /\ UNCHANGED <<entry, last>>
    BY <1>7 DEF userCommand, At
  <2>2. PICK points \in {{"ok"}, {"error"}} : To(points)
    BY <1>7 DEF userCommand
  <2>3. /\ sent' \in Seq(Job) /\ sent' # <<>> /\ Len(sent') = Len(sent)
        /\ \A i \in 1..Len(sent) : sent'[i].command = sent[i].command
    BY <1>0, <2>1, <2>2, ToStep
  <2>4. user' \in Status \cup {"deleted"} /\ known' \in BOOLEAN
    <3>1. Head(sent) \in Job
      BY <1>0, <2>1, HeadIsFirst
    <3>2. After(Head(sent)) \in Status \cup {"deleted"}
      BY <1>0, <3>1 DEF After, Job, Status
    <3> QED
      BY <1>0, <1>7, <3>2 DEF userCommand
  <2>5. OneCommand' /\ Messages'
    BY <1>0, <2>1, <2>3 DEF OneCommand, Messages
  <2>6. ShowsKnown'
    <3>1. CASE UNCHANGED <<user, known>>
      BY <1>0, <2>1, <3>1 DEF ShowsKnown, At
    <3>2. CASE To({"ok"})
      <4>1. Head(sent').at = "ok"
        BY <1>0, <2>1, <3>2, ToStep
      <4>2. At("ok")'
        BY <2>3, <4>1 DEF At
      <4> QED
        BY <4>2 DEF ShowsKnown
    <3>3. CASE known' = FALSE
      BY <3>3 DEF ShowsKnown
    <3> QED
      BY <1>7, <3>1, <3>2, <3>3 DEF userCommand
  <2> QED
    BY <1>0, <1>1, <2>1, <2>3, <2>4, <2>5, <2>6
<1>8. CASE SomebodyElse
  BY <1>0, <1>1, <1>8 DEF SomebodyElse, OneCommand, Messages, ShowsKnown
<1>9. CASE RunAnswered
  <2>1. /\ sent # <<>> /\ Head(sent).at \in {"ok", "error"} /\ Head(sent).command # "save"
        /\ last' = Head(sent).at /\ UNCHANGED <<user, known>> /\ sent' = Tail(sent)
    BY <1>9 DEF RunAnswered, At
  <2>2. entry.pending /\ ~entry.timer
    BY <1>0, <2>1, HeadIsFirst DEF OneCommand, Messages
  <2>3. /\ sent' \in Seq(Job)
        /\ \A i \in 1..Len(sent') : sent'[i].command = "save"
    <3>1. /\ sent' \in Seq(Job) /\ Len(sent') = Len(sent) - 1
          /\ \A i \in 1..Len(sent') : sent'[i] = sent[i + 1]
      BY <1>0, <2>1, TailStep
    <3>2. 1 \in 1..Len(sent) /\ sent[1].command # "save"
      BY <1>0, <2>1, HeadIsFirst
    <3>3. \A i \in 1..Len(sent) : sent[i].command # "save" => i = 1
      BY <1>0, <3>2 DEF OneCommand
    <3>4. \A i \in 1..Len(sent') : i + 1 \in 1..Len(sent) /\ i + 1 # 1
      BY <1>0, <3>1
    <3> QED
      BY <3>1, <3>3, <3>4
  <2>4. OneCommand'
    BY <2>3 DEF OneCommand
  <2>5. CASE Head(sent).at = "ok"
    <3>1. PICK x : x = [entry EXCEPT !.pending = FALSE, !.msg = "ok", !.timer = TRUE, !.typed = FALSE]
      OBVIOUS
    <3>2. x \in Page /\ ~x.pending /\ x.msg = "ok"
      <4>1. PICK y : y = [entry EXCEPT !.pending = FALSE, !.msg = "ok"]
        OBVIOUS
      <4>2. y \in Page /\ ~y.pending /\ y.msg = "ok"
        BY <1>0, <4>1 DEF Page
      <4>3. x = [y EXCEPT !.timer = TRUE, !.typed = FALSE]
        BY <1>0, <3>1, <4>1 DEF Page
      <4> QED
        BY <4>2, <4>3 DEF Page
    <3>3. entry' = Revalidated(x)
      BY <1>9, <2>1, <2>5, <3>1 DEF RunAnswered, At
    <3>4. entry' \in Page /\ ~entry'.pending /\ entry'.msg = "ok" /\ (entry'.open => entry'.shown = user)
      BY <1>0, <3>2, <3>3, RevalidatedType
    <3>5. Messages' /\ ShowsKnown'
      BY <2>1, <2>5, <3>4 DEF Messages, ShowsKnown
    <3> QED
      BY <1>0, <1>1, <2>1, <2>3, <2>4, <3>4, <3>5
  <2>6. CASE Head(sent).at = "error"
    <3>1. entry' = [entry EXCEPT !.pending = FALSE, !.msg = "error"]
      BY <1>9, <2>6 DEF RunAnswered, At
    <3>2. entry' \in Page /\ ~entry'.pending /\ entry'.msg = "error" /\ ~entry'.timer
          /\ entry'.shown = entry.shown /\ entry'.open = entry.open
      BY <1>0, <2>2, <3>1 DEF Page
    <3>3. Messages' /\ ShowsKnown'
      BY <1>0, <2>1, <2>6, <3>2 DEF Messages, ShowsKnown, At
    <3> QED
      BY <1>0, <1>1, <2>1, <2>3, <2>4, <2>6, <3>2, <3>3
  <2> QED
    BY <2>1, <2>5, <2>6
<1>10. CASE SaveAnswered
  <2>1. /\ sent # <<>> /\ Head(sent).at \in {"ok", "error"} /\ Head(sent).command = "save"
        /\ UNCHANGED <<user, last, known>> /\ sent' = Tail(sent)
        /\ entry' = IF Head(sent).at = "ok" THEN Revalidated(entry) ELSE entry
    BY <1>10 DEF SaveAnswered, At
  <2>2. entry' \in Page /\ entry'.pending = entry.pending /\ entry'.msg = entry.msg
        /\ entry'.timer = entry.timer
    BY <1>0, <2>1, RevalidatedType
  <2>3. sent' \in Seq(Job) /\ OneCommand'
    <3>1. /\ sent' \in Seq(Job) /\ Len(sent') = Len(sent) - 1
          /\ \A i \in 1..Len(sent') : sent'[i] = sent[i + 1]
      BY <1>0, <2>1, TailStep
    <3>2. \A i \in 1..Len(sent') : i \in Int /\ i + 1 \in 1..Len(sent)
      BY <1>0, <3>1
    <3>3. \A i \in 1..Len(sent') : sent'[i].command # "save" =>
            i + 1 \in 1..Len(sent) /\ sent[i + 1].command # "save"
      BY <3>1, <3>2
    <3>4. \A i \in 1..Len(sent') : sent'[i].command # "save" => entry.pending
      BY <1>0, <3>3 DEF OneCommand
    <3>5. \A i, j \in 1..Len(sent') :
            sent'[i].command # "save" /\ sent'[j].command # "save" => i + 1 = j + 1
      BY <1>0, <3>3 DEF OneCommand
    <3>6. \A i, j \in 1..Len(sent') : i + 1 = j + 1 => i = j
      BY <3>2
    <3> QED
      BY <2>2, <3>1, <3>4, <3>5, <3>6 DEF OneCommand
  <2>4. Messages'
    BY <1>0, <2>1, <2>2 DEF Messages
  <2>5. ShowsKnown'
    BY <1>0, <2>1, RevalidatedType DEF ShowsKnown, At
  <2> QED
    BY <1>0, <1>1, <2>1, <2>2, <2>3, <2>4, <2>5
<1>11. CASE ReloadUser
  <2>1. /\ user \in Status /\ user' = user /\ entry' = Opened(user) /\ sent' = <<>>
        /\ last' = "none" /\ known' = TRUE
    BY <1>0, <1>11 DEF ReloadUser
  <2>2. entry' \in Page /\ ~entry'.pending /\ ~entry'.timer /\ entry'.msg = "none" /\ entry'.shown = user
    BY <2>1 DEF Opened, Page
  <2>3. sent' \in Seq(Job) /\ Len(sent') = 0
    BY <2>1, EmptySeq
  <2>4. OneCommand'
    BY <2>3 DEF OneCommand
  <2>5. Messages' /\ ShowsKnown'
    BY <2>1, <2>2 DEF Messages, ShowsKnown
  <2> QED
    BY <1>1, <2>1, <2>2, <2>3, <2>4, <2>5
<1>12. CASE UNCHANGED rowVars
  BY <1>0, <1>1, <1>12 DEF rowVars, OneCommand, Messages, ShowsKnown, At
<1> QED
  BY <1>2, <1>3, <1>4, <1>5, <1>6, <1>7, <1>8, <1>9, <1>10, <1>11, <1>12 DEF RowNext

\* The page of a user does not lie, whoever else changes the user and whatever
\* timers earlier answers have left: an error stays until the next command, a
\* success is that of the last, and then the status shown is the user's.
THEOREM RowHonestHolds == RowSpec => []RowHonest
<1>1. RowInv => RowHonest
  BY DEF RowInv, Messages, ShowsKnown, At, RowHonest
<1>2. RowInv /\ [RowNext]_rowVars => RowInv'
  BY ButtonsStep
<1> QED
  BY <1>1, <1>2, RowInvInit, PTL DEF RowSpec
(***************************************************************************)
(* The two-factor panel.                                                   *)
(***************************************************************************)

Action == [kind : Kinds, secret : 0..MaxSecrets, result : Results]

Wizard == [open : BOOLEAN, step : {"password", "scan", "done"}, secret : 0..MaxSecrets,
           pending : BOOLEAN, err : BOOLEAN, closing : BOOLEAN, late : BOOLEAN]

\* Only the first action has been at the API.
OnlyHead == \A i \in 2..Len(queue) : queue[i].result = "none"

\* The button that disables is off while its action is on its way.
OneDisable ==
  /\ \A i, j \in 1..Len(queue) : queue[i].kind = "disable" /\ queue[j].kind = "disable" => i = j
  /\ \A i \in 1..Len(queue) : queue[i].kind = "disable" => disable.pending

\* A wizard that is closed for good and not at its first step got there by an
\* answer that came when it was closed.
LateWhenClosed ==
  ~enroll.open /\ ~enroll.closing /\ enroll.step # "password" => enroll.late

\* While the other dialog is open nothing is sent for the wizard: what there is of
\* it in the queue was sent before, and /me still offers to disable.
DisableOpen ==
  disable.open =>
    /\ ~enroll.open
    /\ \/ enroll.late
       \/ page
       \/ \A i \in 1..Len(queue) : queue[i].kind = "disable"

\* When two-factor is about to be disabled, no step of the wizard relies on it, and
\* no answer will bring one first without being late.
DisableSent ==
  \A i \in 1..Len(queue) : queue[i].kind = "disable" =>
    \/ enroll.late
    \/ /\ enroll.step = "password"
       /\ \/ \A j \in 1..(i - 1) : queue[j].kind = "disable"
          \/ page /\ ~enroll.open /\ ~enroll.closing

\* The answer on its way is true of the account.
HeadServed ==
  own /\ queue # <<>> /\ Ok =>
    /\ Head(queue).kind = "enable" => Head(queue).secret = account.secret
    /\ Head(queue).kind = "verify" => account.enabled

\* And so is the wizard, but for a success on its way.
Truthful ==
  own /\ ~enroll.late /\ (queue = <<>> \/ ~Ok) =>
    /\ enroll.step = "scan" => enroll.secret = account.secret
    /\ enroll.step = "done" => account.enabled

PanelTyped ==
  /\ account \in [secret : 0..MaxSecrets, enabled : BOOLEAN]
  /\ made \in 0..MaxSecrets
  /\ page \in BOOLEAN
  /\ enroll \in Wizard
  /\ disable \in [open : BOOLEAN, pending : BOOLEAN]
  /\ queue \in Seq(Action)
  /\ own \in BOOLEAN

PanelInv ==
  /\ PanelTyped /\ OnlyHead /\ OneDisable /\ LateWhenClosed
  /\ DisableOpen /\ DisableSent /\ HeadServed /\ Truthful

LEMMA PanelTypes == PanelTyped <=> PanelTypeOK
BY DEF PanelTyped, PanelTypeOK, Action, Wizard

LEMMA QueueFacts ==
  ASSUME queue \in Seq(Action)
  PROVE  /\ Len(queue) \in Nat
         /\ queue = <<>> <=> Len(queue) = 0
         /\ queue # <<>> => /\ 1 \in 1..Len(queue) /\ Head(queue) = queue[1] /\ queue[1] \in Action
         /\ \A i \in 1..Len(queue) : queue[i] \in Action
BY EmptySeq, HeadTailProperties, LenProperties, ElementOfSeq

LEMMA FirstStepIs ==
  ASSUME NEW o \in BOOLEAN, NEW l \in BOOLEAN
  PROVE  /\ FirstStep(o, l) \in Wizard
         /\ FirstStep(o, l).open = o /\ FirstStep(o, l).late = l
         /\ FirstStep(o, l).step = "password" /\ ~FirstStep(o, l).closing
BY PanelAssumption DEF FirstStep, Wizard

LEMMA PanelInvInit == PanelInit => PanelInv
<1> SUFFICES ASSUME PanelInit PROVE PanelInv
  OBVIOUS
<1>1. queue = <<>> /\ queue \in Seq(Action) /\ Len(queue) = 0
  BY EmptySeq DEF PanelInit
<1>2. enroll \in Wizard /\ enroll.step = "password"
  BY FirstStepIs DEF PanelInit, NewEnroll
<1>3. disable \in [open : BOOLEAN, pending : BOOLEAN] /\ ~disable.open
  BY DEF PanelInit, NewDisable
<1>4. PanelTyped
  <2>1. account \in [secret : 0..MaxSecrets, enabled : BOOLEAN] /\ made \in 0..MaxSecrets
    BY PanelAssumption DEF PanelInit
  <2>2. page \in BOOLEAN /\ own \in BOOLEAN
    BY DEF PanelInit
  <2> QED
    BY <1>1, <1>2, <1>3, <2>1, <2>2 DEF PanelTyped
<1>5. OnlyHead /\ OneDisable /\ DisableSent
  BY <1>1 DEF OnlyHead, OneDisable, DisableSent
<1>6. LateWhenClosed /\ DisableOpen /\ HeadServed /\ Truthful
  BY <1>1, <1>2, <1>3 DEF LateWhenClosed, DisableOpen, HeadServed, Truthful
<1> QED
  BY <1>4, <1>5, <1>6 DEF PanelInv

\* The queue stays: what a step of the page or of another browser must keep.
LEMMA QueueStays ==
  ASSUME PanelInv, queue' = queue, PanelTyped', disable'.pending = disable.pending,
         LateWhenClosed', DisableOpen', DisableSent', HeadServed', Truthful'
  PROVE  PanelInv'
BY DEF PanelInv, OnlyHead, OneDisable

\* An action joins the queue.
LEMMA DispatchStep ==
  ASSUME queue \in Seq(Action), NEW k \in Kinds, NEW s \in 0..MaxSecrets, Dispatch(k, s)
  PROVE  /\ queue' \in Seq(Action) /\ Len(queue') = Len(queue) + 1 /\ queue' # <<>>
         /\ \A i \in 1..Len(queue) : queue'[i] = queue[i]
         /\ queue'[Len(queue) + 1].kind = k /\ queue'[Len(queue) + 1].result = "none"
         /\ queue # <<>> => Head(queue') = Head(queue)
         /\ queue = <<>> => Head(queue').result = "none"
<1>1. PICK x : x = [kind |-> k, secret |-> s, result |-> "none"]
  OBVIOUS
<1>2. x \in Action /\ x.kind = k /\ x.result = "none"
  BY <1>1 DEF Action, Results
<1>3. queue' = Append(queue, x)
  BY <1>1 DEF Dispatch
<1>4. /\ queue' \in Seq(Action) /\ queue' # <<>> /\ Len(queue') = Len(queue) + 1
      /\ \A i \in 1..Len(queue) : queue'[i] = queue[i]
      /\ queue'[Len(queue) + 1] = x
  BY <1>2, <1>3, AppendProperties
<1>5. Head(queue') = queue'[1]
  BY <1>4, HeadTailProperties
<1> QED
  BY <1>2, <1>4, <1>5, QueueFacts

\* What that means for the invariant: the wizard, not closed, sends one of its own.
LEMMA WizardSends ==
  ASSUME PanelInv, NEW k \in {"enable", "verify"}, NEW s \in 0..MaxSecrets, Dispatch(k, s),
         enroll.open,
         enroll' \in Wizard, enroll'.open, ~enroll'.closing,
         enroll'.late = enroll.late, enroll'.step = enroll.step, enroll'.secret = enroll.secret,
         UNCHANGED <<account, made, page, disable, own>>
  PROVE  PanelInv'
<1>0. queue \in Seq(Action) /\ ~disable.open
  BY DEF PanelInv, PanelTyped, DisableOpen
<1>1. /\ queue' \in Seq(Action) /\ Len(queue') = Len(queue) + 1 /\ queue' # <<>>
      /\ \A i \in 1..Len(queue) : queue'[i] = queue[i]
      /\ queue'[Len(queue) + 1].kind = k /\ queue'[Len(queue) + 1].result = "none"
      /\ queue # <<>> => Head(queue') = Head(queue)
      /\ queue = <<>> => Head(queue').result = "none"
  BY <1>0, DispatchStep DEF Kinds
<1>2. Len(queue) \in Nat
  BY <1>0, QueueFacts
<1>3. PanelTyped'
  BY <1>1 DEF PanelInv, PanelTyped
<1>4. \A i \in 1..Len(queue') : i \in 1..Len(queue) \/ i = Len(queue) + 1
  BY <1>1, <1>2
<1>5. OnlyHead'
  <2>1. \A i \in 2..Len(queue') : i \in 2..Len(queue) \/ i = Len(queue) + 1
    BY <1>1, <1>2
  <2>2. \A i \in 2..Len(queue) : i \in 1..Len(queue)
    BY <1>2
  <2> QED
    BY <1>1, <2>1, <2>2 DEF PanelInv, OnlyHead
<1>6. \A i \in 1..Len(queue') : queue'[i].kind = "disable" => i \in 1..Len(queue) /\ queue[i].kind = "disable"
  BY <1>1, <1>4
<1>7. OneDisable'
  BY <1>6 DEF PanelInv, OneDisable
<1>8. DisableSent'
  <2> SUFFICES ASSUME NEW i \in 1..Len(queue'), queue'[i].kind = "disable", ~enroll.late
               PROVE  enroll.step = "password" /\ \A j \in 1..(i - 1) : queue'[j].kind = "disable"
    BY DEF DisableSent
  <2>1. i \in 1..Len(queue) /\ queue[i].kind = "disable"
    BY <1>6
  <2>2. enroll.step = "password" /\ \A j \in 1..(i - 1) : queue[j].kind = "disable"
    BY <2>1 DEF PanelInv, DisableSent
  <2>3. \A j \in 1..(i - 1) : j \in 1..Len(queue)
    BY <1>2, <2>1
  <2> QED
    BY <1>1, <2>2, <2>3
<1>9. LateWhenClosed' /\ DisableOpen'
  BY <1>0 DEF LateWhenClosed, DisableOpen
<1>10. HeadServed' /\ Truthful'
  BY <1>1 DEF PanelInv, HeadServed, Truthful, Ok
<1> QED
  BY <1>3, <1>5, <1>7, <1>8, <1>9, <1>10 DEF PanelInv

-----------------------------------------------------------------------------
(* The user in front of the page, and another browser.                     *)

LEMMA PageStep ==
  ASSUME PanelInv, OpenEnroll \/ OpenDisable \/ close \/ ResetWizard \/ CloseDisable \/ Elsewhere
  PROVE  PanelInv'
<1>0. PanelTyped /\ queue' = queue /\ UNCHANGED page
  BY DEF PanelInv, OpenEnroll, OpenDisable, close, ResetWizard, CloseDisable, Elsewhere
<1>1. /\ Len(queue) \in Nat /\ (queue = <<>> <=> Len(queue) = 0)
      /\ enroll \in Wizard /\ disable \in [open : BOOLEAN, pending : BOOLEAN]
  BY <1>0, QueueFacts DEF PanelTyped
<1>2. CASE OpenEnroll
  <2>1. enroll' \in Wizard /\ enroll'.open /\ enroll'.step = enroll.step
        /\ enroll'.secret = enroll.secret /\ enroll'.late = enroll.late
        /\ enroll'.closing = enroll.closing
    BY <1>1, <1>2 DEF OpenEnroll, Wizard
  <2>2. ~page /\ ~disable.open /\ UNCHANGED <<account, made, page, disable, queue, own>>
    BY <1>2 DEF OpenEnroll
  <2>3. PanelTyped' /\ LateWhenClosed' /\ DisableOpen'
    BY <1>0, <2>1, <2>2 DEF PanelTyped, LateWhenClosed, DisableOpen
  <2>4. DisableSent'
    BY <2>1, <2>2 DEF PanelInv, DisableSent
  <2>5. HeadServed' /\ Truthful'
    BY <2>1, <2>2 DEF PanelInv, HeadServed, Truthful, Ok
  <2> QED
    BY <2>2, <2>3, <2>4, <2>5, QueueStays
<1>3. CASE OpenDisable
  <2>1. disable' \in [open : BOOLEAN, pending : BOOLEAN] /\ disable'.pending = disable.pending
    BY <1>1, <1>3 DEF OpenDisable
  <2>2. page /\ ~enroll.open /\ UNCHANGED <<account, made, page, enroll, queue, own>>
    BY <1>3 DEF OpenDisable
  <2>3. PanelTyped' /\ LateWhenClosed' /\ DisableOpen'
    BY <1>0, <2>1, <2>2 DEF PanelInv, PanelTyped, LateWhenClosed, DisableOpen
  <2>4. DisableSent' /\ HeadServed' /\ Truthful'
    BY <2>2 DEF PanelInv, DisableSent, HeadServed, Truthful, Ok
  <2> QED
    BY <2>1, <2>2, <2>3, <2>4, QueueStays
<1>4. CASE close
  <2>1. PICK x : x = [enroll EXCEPT !.open = FALSE]
    OBVIOUS
  <2>2. x \in Wizard /\ ~x.open /\ x.step = enroll.step /\ x.secret = enroll.secret
        /\ x.late = enroll.late
    BY <1>1, <2>1 DEF Wizard
  <2>3. enroll' = [x EXCEPT !.closing = TRUE]
    BY <1>1, <1>4, <2>1 DEF close, Wizard
  <2>4. enroll' \in Wizard /\ ~enroll'.open /\ enroll'.closing /\ enroll'.step = enroll.step
        /\ enroll'.secret = enroll.secret /\ enroll'.late = enroll.late
    BY <2>2, <2>3 DEF Wizard
  <2>5. enroll.open /\ UNCHANGED <<account, made, page, disable, queue, own>>
    BY <1>4 DEF close
  <2>6. PanelTyped' /\ LateWhenClosed' /\ DisableOpen'
    BY <1>0, <2>4, <2>5 DEF PanelInv, PanelTyped, LateWhenClosed, DisableOpen
  <2>7. DisableSent'
    BY <2>4, <2>5 DEF PanelInv, DisableSent
  <2>8. HeadServed' /\ Truthful'
    BY <2>4, <2>5 DEF PanelInv, HeadServed, Truthful, Ok
  <2> QED
    BY <2>5, <2>6, <2>7, <2>8, QueueStays
<1>5. CASE ResetWizard
  <2>1. PICK l \in BOOLEAN : l = (enroll.late /\ queue # <<>>)
    OBVIOUS
  <2>2. enroll.open \in BOOLEAN
    BY <1>1 DEF Wizard
  <2>3. enroll' = FirstStep(enroll.open, l)
    BY <1>5, <2>1 DEF ResetWizard
  <2>4. enroll' \in Wizard /\ enroll'.open = enroll.open /\ enroll'.late = l
        /\ enroll'.step = "password" /\ ~enroll'.closing
    BY <2>2, <2>3, FirstStepIs
  <2>5. enroll.closing /\ UNCHANGED <<account, made, page, disable, queue, own>>
    BY <1>5 DEF ResetWizard
  <2>6. PanelTyped' /\ LateWhenClosed'
    BY <1>0, <2>4, <2>5 DEF PanelTyped, LateWhenClosed
  <2>7. CASE queue = <<>>
    <3>1. DisableOpen' /\ DisableSent'
      BY <1>1, <2>4, <2>5, <2>7 DEF PanelInv, DisableOpen, DisableSent
    <3>2. HeadServed' /\ Truthful'
      BY <2>4, <2>5 DEF PanelInv, HeadServed, Truthful, Ok
    <3> QED
      BY <2>5, <2>6, <3>1, <3>2, QueueStays
  <2>8. CASE queue # <<>>
    <3>1. enroll.late => enroll'.late
      BY <2>1, <2>4, <2>8
    <3>2. DisableOpen' /\ DisableSent'
      BY <2>4, <2>5, <3>1 DEF PanelInv, DisableOpen, DisableSent
    <3>3. HeadServed' /\ Truthful'
      BY <2>4, <2>5 DEF PanelInv, HeadServed, Truthful, Ok
    <3> QED
      BY <2>5, <2>6, <3>2, <3>3, QueueStays
  <2> QED
    BY <2>7, <2>8
<1>6. CASE CloseDisable
  <2>1. disable' \in [open : BOOLEAN, pending : BOOLEAN] /\ disable'.pending = disable.pending
        /\ ~disable'.open
    BY <1>1, <1>6 DEF CloseDisable
  <2>2. UNCHANGED <<account, made, page, enroll, queue, own>>
    BY <1>6 DEF CloseDisable
  <2>3. PanelTyped' /\ LateWhenClosed' /\ DisableOpen'
    BY <1>0, <2>1, <2>2 DEF PanelInv, PanelTyped, LateWhenClosed, DisableOpen
  <2>4. DisableSent' /\ HeadServed' /\ Truthful'
    BY <2>2 DEF PanelInv, DisableSent, HeadServed, Truthful, Ok
  <2> QED
    BY <2>1, <2>2, <2>3, <2>4, QueueStays
<1>7. CASE Elsewhere
  <2>1. own' = FALSE /\ UNCHANGED <<page, enroll, disable, queue>>
    BY <1>7 DEF Elsewhere
  <2>2. account' \in [secret : 0..MaxSecrets, enabled : BOOLEAN] /\ made' \in 0..MaxSecrets
    <3>1. made < MaxSecrets => made + 1 \in 0..MaxSecrets
      BY <1>0, PanelAssumption DEF PanelTyped
    <3>2. [secret |-> 0, enabled |-> FALSE] \in [secret : 0..MaxSecrets, enabled : BOOLEAN]
      BY PanelAssumption
    <3>3. made < MaxSecrets => Enabled(account) \in [secret : 0..MaxSecrets, enabled : BOOLEAN]
      BY <1>0, <3>1 DEF PanelTyped, Enabled
    <3>4. [account EXCEPT !.enabled = TRUE] \in [secret : 0..MaxSecrets, enabled : BOOLEAN]
      BY <1>0 DEF PanelTyped
    <3>5. \/ made < MaxSecrets /\ made' = made + 1 /\ account' = Enabled(account)
          \/ account' = [secret |-> 0, enabled |-> FALSE] /\ made' = made
          \/ account' = [account EXCEPT !.enabled = TRUE] /\ made' = made
      BY <1>7 DEF Elsewhere
    <3>6. made \in 0..MaxSecrets
      BY <1>0 DEF PanelTyped
    <3>7. CASE made < MaxSecrets /\ made' = made + 1 /\ account' = Enabled(account)
      BY <3>1, <3>3, <3>7
    <3>8. CASE account' = [secret |-> 0, enabled |-> FALSE] /\ made' = made
      BY <3>2, <3>6, <3>8
    <3>9. CASE account' = [account EXCEPT !.enabled = TRUE] /\ made' = made
      BY <3>4, <3>6, <3>9
    <3> QED
      BY <3>5, <3>7, <3>8, <3>9
  <2>3. PanelTyped'
    BY <1>0, <2>1, <2>2 DEF PanelTyped
  <2>5. LateWhenClosed' /\ DisableOpen'
    BY <2>1 DEF PanelInv, LateWhenClosed, DisableOpen
  <2>6. DisableSent'
    BY <2>1 DEF PanelInv, DisableSent
  <2>4. HeadServed' /\ Truthful'
    BY <2>1 DEF HeadServed, Truthful
  <2> QED
    BY <2>1, <2>3, <2>4, <2>5, <2>6, QueueStays
<1> QED
  BY <1>2, <1>3, <1>4, <1>5, <1>6, <1>7

LEMMA SubmitStep ==
  ASSUME PanelInv, submitPassword \/ submitCode
  PROVE  PanelInv'
<1>0. enroll \in Wizard /\ UNCHANGED <<account, made, page, disable, own>> /\ enroll.open /\ ~enroll.closing
  BY DEF PanelInv, PanelTyped, submitPassword, submitCode
<1>1. PICK x : x = [enroll EXCEPT !.pending = TRUE]
  OBVIOUS
<1>2. x \in Wizard /\ x.open = enroll.open /\ x.closing = enroll.closing /\ x.late = enroll.late
      /\ x.step = enroll.step /\ x.secret = enroll.secret
  BY <1>0, <1>1 DEF Wizard
<1>3. enroll' = [x EXCEPT !.err = FALSE]
  BY <1>0, <1>1 DEF submitPassword, submitCode, Wizard
<1>4. enroll' \in Wizard /\ enroll'.open /\ ~enroll'.closing /\ enroll'.late = enroll.late
      /\ enroll'.step = enroll.step /\ enroll'.secret = enroll.secret
  BY <1>0, <1>2, <1>3 DEF Wizard
<1>5. PICK k \in {"enable", "verify"}, s \in {0, enroll.secret} : Dispatch(k, s)
  BY DEF submitPassword, submitCode
<1>6. s \in 0..MaxSecrets
  BY <1>0, PanelAssumption DEF Wizard
<1> QED
  BY <1>0, <1>4, <1>5, <1>6, WizardSends

LEMMA SubmitDisableStep ==
  ASSUME PanelInv, submitDisable
  PROVE  PanelInv'
<1>0. /\ PanelTyped /\ disable.open /\ ~disable.pending /\ ~enroll.closing
      /\ disable' = [disable EXCEPT !.pending = TRUE]
      /\ UNCHANGED <<account, made, page, enroll, own>>
      /\ Dispatch("disable", 0) /\ queue \in Seq(Action)
  BY DEF PanelInv, PanelTyped, submitDisable
<1>1. /\ queue' \in Seq(Action) /\ Len(queue') = Len(queue) + 1 /\ queue' # <<>>
      /\ \A i \in 1..Len(queue) : queue'[i] = queue[i]
      /\ queue'[Len(queue) + 1].kind = "disable" /\ queue'[Len(queue) + 1].result = "none"
      /\ queue # <<>> => Head(queue') = Head(queue)
      /\ queue = <<>> => Head(queue').result = "none"
  BY <1>0, DispatchStep, PanelAssumption DEF Kinds
<1>2. Len(queue) \in Nat
  BY <1>0, QueueFacts
<1>3. disable' \in [open : BOOLEAN, pending : BOOLEAN] /\ disable'.pending /\ disable'.open
  BY <1>0 DEF PanelTyped
<1>4. PanelTyped'
  BY <1>0, <1>1, <1>3 DEF PanelTyped
<1>5. \A i \in 1..Len(queue') : i \in 1..Len(queue) \/ i = Len(queue) + 1
  BY <1>1, <1>2
<1>6. OnlyHead'
  <2>1. \A i \in 2..Len(queue') : i \in 2..Len(queue) \/ i = Len(queue) + 1
    BY <1>1, <1>2
  <2>2. \A i \in 2..Len(queue) : i \in 1..Len(queue)
    BY <1>2
  <2> QED
    BY <1>1, <2>1, <2>2 DEF PanelInv, OnlyHead
<1>7. \A i \in 1..Len(queue) : queue[i].kind # "disable"
  BY <1>0 DEF PanelInv, OneDisable
<1>8. \A i \in 1..Len(queue') : queue'[i].kind = "disable" => i = Len(queue) + 1
  BY <1>1, <1>5, <1>7
<1>9. OneDisable'
  BY <1>3, <1>8 DEF OneDisable
<1>10. ~enroll.open /\ (enroll.late \/ page \/ Len(queue) = 0)
  <2>1. 1 \in 1..Len(queue) \/ Len(queue) = 0
    BY <1>2
  <2> QED
    BY <1>0, <1>7, <2>1 DEF PanelInv, DisableOpen
<1>11. enroll.late \/ enroll.step = "password"
  BY <1>0, <1>10 DEF PanelInv, LateWhenClosed
<1>12. DisableSent'
  <2> SUFFICES ASSUME NEW i \in 1..Len(queue'), queue'[i].kind = "disable", ~enroll.late
               PROVE  /\ enroll.step = "password"
                      /\ \/ \A j \in 1..(i - 1) : queue'[j].kind = "disable"
                         \/ page /\ ~enroll.open /\ ~enroll.closing
    BY <1>0 DEF DisableSent
  <2>1. CASE page
    BY <1>0, <1>10, <1>11, <2>1
  <2>2. CASE Len(queue) = 0
    <3>1. i - 1 = 0
      BY <1>8, <2>2
    <3> QED
      BY <1>11, <3>1
  <2> QED
    BY <1>10, <2>1, <2>2
<1>13. LateWhenClosed' /\ DisableOpen'
  <2>1. LateWhenClosed'
    BY <1>0 DEF PanelInv, LateWhenClosed
  <2>2. CASE Len(queue) = 0
    <3>1. \A i \in 1..Len(queue') : i = Len(queue) + 1
      BY <1>1, <2>2
    <3> QED
      BY <1>0, <1>1, <1>10, <2>1, <3>1 DEF DisableOpen
  <2> QED
    BY <1>0, <1>10, <2>1, <2>2 DEF DisableOpen
<1>14. HeadServed' /\ Truthful'
  BY <1>0, <1>1 DEF PanelInv, HeadServed, Truthful, Ok
<1> QED
  BY <1>4, <1>6, <1>9, <1>12, <1>13, <1>14 DEF PanelInv

-----------------------------------------------------------------------------
(* The API.                                                                *)

\* The first of the queue is answered: the rest of the invariant is not about
\* results, and what the wizard shows was true before.
LEMMA ServedStep ==
  ASSUME PanelInv, queue # <<>>, Head(queue).result = "none",
         NEW res \in Results, NEW sec \in 0..MaxSecrets,
         queue' = [queue EXCEPT ![1] = [Head(queue) EXCEPT !.result = res, !.secret = sec]],
         UNCHANGED <<page, enroll, disable>>,
         account' \in [secret : 0..MaxSecrets, enabled : BOOLEAN], made' \in 0..MaxSecrets,
         own' \in BOOLEAN,
         res # "ok" => UNCHANGED <<account, own>>,
         res = "ok" /\ Head(queue).kind = "enable" => sec = account'.secret,
         res = "ok" /\ Head(queue).kind = "verify" => account'.enabled
  PROVE  PanelInv'
<1>0. PanelTyped /\ queue \in Seq(Action) /\ Len(queue) \in Nat
      /\ 1 \in 1..Len(queue) /\ Head(queue) = queue[1] /\ queue[1] \in Action
  BY QueueFacts DEF PanelInv, PanelTyped
<1>1. PICK x : x = [Head(queue) EXCEPT !.result = res]
  OBVIOUS
<1>2. x \in Action /\ x.result = res /\ x.kind = Head(queue).kind
  BY <1>0, <1>1 DEF Action
<1>3. PICK y : y = [x EXCEPT !.secret = sec]
  OBVIOUS
<1>4. y \in Action /\ y.result = res /\ y.kind = Head(queue).kind /\ y.secret = sec
  BY <1>2, <1>3 DEF Action
<1>5. queue' = [queue EXCEPT ![1] = y]
  <2>1. [Head(queue) EXCEPT !.result = res, !.secret = sec] = y
    BY <1>0, <1>1, <1>3 DEF Action
  <2> QED
    BY <2>1
<1>6. /\ queue' \in Seq(Action) /\ Len(queue') = Len(queue)
      /\ \A i \in 1..Len(queue) : queue'[i] = IF i = 1 THEN y ELSE queue[i]
  BY <1>0, <1>4, <1>5, ExceptSeq
<1>7. \A i \in 1..Len(queue) : queue'[i].kind = queue[i].kind
  BY <1>0, <1>4, <1>6
<1>8. queue' # <<>> /\ Head(queue') = y
  <2>1. queue' # <<>>
    BY <1>0, <1>6, EmptySeq
  <2>2. Head(queue') = queue'[1]
    BY <1>6, <2>1, HeadTailProperties
  <2> QED
    BY <1>0, <1>6, <2>1, <2>2
<1>9. PanelTyped'
  BY <1>0, <1>6 DEF PanelTyped
<1>10. OnlyHead'
  <2>1. \A i \in 2..Len(queue) : i \in 1..Len(queue) /\ i # 1
    BY <1>0
  <2> QED
    BY <1>6, <2>1 DEF PanelInv, OnlyHead
<1>11. OneDisable'
  BY <1>6, <1>7 DEF PanelInv, OneDisable
<1>12. LateWhenClosed' /\ DisableOpen'
  BY <1>6, <1>7 DEF PanelInv, LateWhenClosed, DisableOpen
<1>13. DisableSent'
  <2>1. \A i \in 1..Len(queue) : \A j \in 1..(i - 1) : j \in 1..Len(queue)
    BY <1>0
  <2> QED
    BY <1>6, <1>7, <2>1 DEF PanelInv, DisableSent
<1>14. HeadServed'
  BY <1>4, <1>8 DEF HeadServed, Ok
<1>15. Truthful'
  <2>1. res # "ok" => UNCHANGED <<account, own>> /\ ~Ok
    BY DEF Ok
  <2>2. Ok' <=> res = "ok"
    BY <1>4, <1>8 DEF Ok
  <2> QED
    BY <1>8, <2>1, <2>2 DEF PanelInv, Truthful
<1> QED
  BY <1>9, <1>10, <1>11, <1>12, <1>13, <1>14, <1>15 DEF PanelInv

LEMMA ServeStep ==
  ASSUME PanelInv, Serve
  PROVE  PanelInv'
<1>0. /\ PanelTyped /\ queue # <<>> /\ Head(queue).result = "none"
      /\ UNCHANGED <<page, enroll, disable>>
      /\ made \in 0..MaxSecrets /\ account \in [secret : 0..MaxSecrets, enabled : BOOLEAN]
      /\ own \in BOOLEAN
  BY DEF PanelInv, PanelTyped, Serve
<1> DEFINE answer(res, sec) ==
             queue' = [queue EXCEPT ![1] = [Head(queue) EXCEPT !.result = res, !.secret = sec]]
<1>1. \/ answer("refused", 0) /\ UNCHANGED <<account, made, own>>
      \/ /\ Head(queue).kind = "enable" /\ made < MaxSecrets
         /\ account' = Enabled(account) /\ made' = made + 1 /\ own' = TRUE
         /\ answer("ok", made + 1)
      \/ /\ Head(queue).kind = "verify"
         /\ account' = [account EXCEPT !.enabled = TRUE] /\ own' = TRUE
         /\ answer("ok", 0) /\ UNCHANGED made
      \/ /\ Head(queue).kind = "disable"
         /\ account' = [secret |-> 0, enabled |-> FALSE] /\ own' = TRUE
         /\ answer("ok", 0) /\ UNCHANGED made
  BY DEF Serve
<1>2. 0 \in 0..MaxSecrets /\ "ok" \in Results /\ "refused" \in Results /\ TRUE \in BOOLEAN
  BY PanelAssumption DEF Results
<1>3. CASE answer("refused", 0) /\ UNCHANGED <<account, made, own>>
  BY <1>0, <1>2, <1>3, ServedStep
<1>4. CASE /\ Head(queue).kind = "enable" /\ made < MaxSecrets
           /\ account' = Enabled(account) /\ made' = made + 1 /\ own' = TRUE
           /\ answer("ok", made + 1)
  <2>1. made + 1 \in 0..MaxSecrets
    BY <1>0, <1>4, PanelAssumption
  <2>2. account' \in [secret : 0..MaxSecrets, enabled : BOOLEAN] /\ account'.secret = made + 1
    BY <1>0, <1>4, <2>1 DEF Enabled
  <2> QED
    BY <1>0, <1>2, <1>4, <2>1, <2>2, ServedStep
<1>5. CASE /\ Head(queue).kind = "verify"
           /\ account' = [account EXCEPT !.enabled = TRUE] /\ own' = TRUE
           /\ answer("ok", 0) /\ UNCHANGED made
  <2>1. account' \in [secret : 0..MaxSecrets, enabled : BOOLEAN] /\ account'.enabled
    BY <1>0, <1>5
  <2> QED
    BY <1>0, <1>2, <1>5, <2>1, ServedStep
<1>6. CASE /\ Head(queue).kind = "disable"
           /\ account' = [secret |-> 0, enabled |-> FALSE] /\ own' = TRUE
           /\ answer("ok", 0) /\ UNCHANGED made
  <2>1. account' \in [secret : 0..MaxSecrets, enabled : BOOLEAN]
    BY <1>2, <1>6
  <2> QED
    BY <1>0, <1>2, <1>6, <2>1, ServedStep
<1> QED
  BY <1>1, <1>3, <1>4, <1>5, <1>6

-----------------------------------------------------------------------------
(* The answers.                                                            *)

LEMMA DequeueStep ==
  ASSUME PanelInv, queue # <<>>, queue' = Tail(queue)
  PROVE  /\ queue' \in Seq(Action) /\ Len(queue) \in Nat \ {0} /\ Len(queue') = Len(queue) - 1
         /\ \A i \in 1..Len(queue') : i + 1 \in 1..Len(queue) /\ queue'[i] = queue[i + 1]
         /\ \A i \in 1..Len(queue') : queue'[i].result = "none"
         /\ OnlyHead' /\ (queue' = <<>> \/ ~Ok')
<1>1. queue \in Seq(Action)
  BY DEF PanelInv, PanelTyped
<1>2. /\ queue' \in Seq(Action) /\ Len(queue) \in Nat \ {0} /\ Len(queue') = Len(queue) - 1
      /\ \A i \in 1..Len(queue') : queue'[i] = queue[i + 1]
  BY <1>1, QueueFacts, HeadTailProperties
<1>3. \A i \in 1..Len(queue') : i + 1 \in 1..Len(queue) /\ i + 1 \in 2..Len(queue)
  BY <1>2
<1>4. \A i \in 1..Len(queue') : queue'[i].result = "none"
  BY <1>2, <1>3 DEF PanelInv, OnlyHead
<1>5. \A i \in 2..Len(queue') : i \in 1..Len(queue')
  BY <1>2
<1>6. OnlyHead'
  BY <1>4, <1>5 DEF OnlyHead
<1>7. queue' # <<>> => 1 \in 1..Len(queue') /\ Head(queue') = queue'[1]
  <2>1. queue' # <<>> => Len(queue') \in Nat \ {0} /\ Head(queue') = queue'[1]
    BY <1>2, EmptySeq, HeadTailProperties
  <2> QED
    BY <2>1
<1>8. queue' = <<>> \/ ~Ok'
  BY <1>4, <1>7 DEF Ok
<1> QED
  BY <1>2, <1>3, <1>4, <1>6, <1>8

\* A wizard's own action leaves the queue.
LEMMA WizardAnswered ==
  ASSUME PanelInv, queue # <<>>, queue' = Tail(queue), Head(queue).kind \in {"enable", "verify"},
         UNCHANGED <<account, made, disable, own>>,
         page' \in BOOLEAN, page' = page \/ enroll.open \/ enroll'.late,
         enroll' \in Wizard, enroll'.open = enroll.open, enroll'.closing = enroll.closing,
         enroll.late => enroll'.late,
         enroll'.step = enroll.step \/ enroll.open \/ enroll'.late,
         Truthful'
  PROVE  PanelInv'
<1>0. /\ queue' \in Seq(Action) /\ Len(queue) \in Nat \ {0} /\ Len(queue') = Len(queue) - 1
      /\ \A i \in 1..Len(queue') : i + 1 \in 1..Len(queue) /\ queue'[i] = queue[i + 1]
      /\ OnlyHead' /\ (queue' = <<>> \/ ~Ok')
  BY DequeueStep
<1>1. PanelTyped /\ 1 \in 1..Len(queue) /\ queue[1].kind # "disable"
  BY QueueFacts DEF PanelInv, PanelTyped
<1>2. PanelTyped'
  BY <1>0, <1>1 DEF PanelTyped
<1>3. OneDisable'
  <2>1. \A i, j \in 1..Len(queue') : queue'[i].kind = "disable" /\ queue'[j].kind = "disable" => i + 1 = j + 1
    BY <1>0 DEF PanelInv, OneDisable
  <2>2. \A i, j \in 1..Len(queue') : i + 1 = j + 1 => i = j
    BY <1>0
  <2>3. \A i \in 1..Len(queue') : queue'[i].kind = "disable" => disable.pending
    BY <1>0 DEF PanelInv, OneDisable
  <2> QED
    BY <2>1, <2>2, <2>3 DEF OneDisable
<1>4. LateWhenClosed'
  BY DEF PanelInv, LateWhenClosed
<1>5. DisableOpen'
  BY <1>1 DEF PanelInv, DisableOpen
<1>6. DisableSent'
  <2> SUFFICES ASSUME NEW i \in 1..Len(queue'), queue'[i].kind = "disable", ~enroll'.late
               PROVE  /\ enroll'.step = "password"
                      /\ \/ \A j \in 1..(i - 1) : queue'[j].kind = "disable"
                         \/ page' /\ ~enroll'.open /\ ~enroll'.closing
    BY DEF DisableSent
  <2>1. i + 1 \in 1..Len(queue) /\ queue[i + 1].kind = "disable" /\ ~enroll.late
    BY <1>0
  <2>2. ~(\A j \in 1..((i + 1) - 1) : queue[j].kind = "disable")
    <3>1. 1 \in 1..((i + 1) - 1)
      BY <1>0
    <3> QED
      BY <1>1, <3>1
  <2>3. enroll.step = "password" /\ page /\ ~enroll.open /\ ~enroll.closing
    BY <2>1, <2>2 DEF PanelInv, DisableSent
  <2> QED
    BY <2>1, <2>3
<1>7. HeadServed'
  BY <1>0 DEF HeadServed
<1> QED
  BY <1>0, <1>2, <1>3, <1>4, <1>5, <1>6, <1>7 DEF PanelInv

LEMMA RefusedWizard ==
  ASSUME NEW r \in Wizard
  PROVE  LET x == [r EXCEPT !.pending = FALSE, !.err = TRUE]
         IN  x \in Wizard /\ x.open = r.open /\ x.closing = r.closing /\ x.late = r.late
             /\ x.step = r.step /\ x.secret = r.secret
<1>1. PICK y : y = [r EXCEPT !.pending = FALSE]
  OBVIOUS
<1>2. y \in Wizard /\ y.open = r.open /\ y.closing = r.closing /\ y.late = r.late
      /\ y.step = r.step /\ y.secret = r.secret
  BY <1>1 DEF Wizard
<1>3. PICK x : x = [r EXCEPT !.pending = FALSE, !.err = TRUE]
  OBVIOUS
<1>4. x = [y EXCEPT !.err = TRUE]
  BY <1>1, <1>3 DEF Wizard
<1>5. x \in Wizard /\ x.open = r.open /\ x.closing = r.closing /\ x.late = r.late
      /\ x.step = r.step /\ x.secret = r.secret
  BY <1>2, <1>4 DEF Wizard
<1> QED
  BY <1>3, <1>5

LEMMA AdvancedWizard ==
  ASSUME enroll \in Wizard, NEW st \in {"scan", "done"}, NEW sec \in 0..MaxSecrets,
         NEW b \in BOOLEAN,
         enroll' = [enroll EXCEPT !.pending = FALSE, !.step = st, !.secret = sec, !.late = b]
  PROVE  enroll' \in Wizard /\ enroll'.open = enroll.open /\ enroll'.closing = enroll.closing
         /\ enroll'.step = st /\ enroll'.secret = sec /\ enroll'.late = b
<1>1. PICK y : y = [enroll EXCEPT !.pending = FALSE]
  OBVIOUS
<1>2. y \in Wizard /\ y.open = enroll.open /\ y.closing = enroll.closing
  BY <1>1 DEF Wizard
<1>3. PICK z : z = [y EXCEPT !.step = st]
  OBVIOUS
<1>4. z \in Wizard /\ z.open = enroll.open /\ z.closing = enroll.closing /\ z.step = st
  BY <1>2, <1>3 DEF Wizard
<1>5. PICK w : w = [z EXCEPT !.secret = sec]
  OBVIOUS
<1>6. w \in Wizard /\ w.open = enroll.open /\ w.closing = enroll.closing /\ w.step = st /\ w.secret = sec
  BY <1>4, <1>5 DEF Wizard
<1>7. enroll' = [w EXCEPT !.late = b]
  BY <1>1, <1>3, <1>5 DEF Wizard
<1> QED
  BY <1>6, <1>7 DEF Wizard

LEMMA AnswerStep ==
  ASSUME PanelInv, EnableAnswered \/ VerifyAnswered
  PROVE  PanelInv'
<1>0. /\ PanelTyped /\ enroll \in Wizard /\ queue # <<>> /\ queue' = Tail(queue)
      /\ Head(queue).kind \in {"enable", "verify"} /\ Head(queue).result # "none"
      /\ UNCHANGED <<account, made, disable, own>>
      /\ account \in [secret : 0..MaxSecrets, enabled : BOOLEAN]
      /\ Head(queue) \in Action
  BY QueueFacts DEF PanelInv, PanelTyped, EnableAnswered, VerifyAnswered, Answered
<1>1. CASE ~Ok
  <2>1. enroll' = [enroll EXCEPT !.pending = FALSE, !.err = TRUE] /\ page' = page
    BY <1>1 DEF EnableAnswered, VerifyAnswered
  <2>2. enroll' \in Wizard /\ enroll'.open = enroll.open /\ enroll'.closing = enroll.closing
        /\ enroll'.late = enroll.late /\ enroll'.step = enroll.step /\ enroll'.secret = enroll.secret
    BY <1>0, <2>1, RefusedWizard
  <2>3. Truthful'
    BY <1>0, <1>1, <2>2 DEF PanelInv, Truthful
  <2> QED
    BY <1>0, <2>1, <2>2, <2>3, WizardAnswered DEF PanelTyped
<1>2. PICK b \in BOOLEAN : b = (enroll.late \/ ~enroll.open)
  OBVIOUS
<1>3. (enroll.late => b) /\ (enroll.open \/ b)
  <2>1. enroll.late \in BOOLEAN /\ enroll.open \in BOOLEAN
    BY <1>0 DEF Wizard
  <2> QED
    BY <1>2, <2>1
<1>4. CASE Ok /\ Head(queue).kind = "enable"
  <2>1. PICK s \in 0..MaxSecrets : s = Head(queue).secret
    BY <1>0 DEF Action
  <2>2. enroll' = [enroll EXCEPT !.pending = FALSE, !.step = "scan", !.secret = s, !.late = b]
        /\ page' = page
    BY <1>2, <1>4, <2>1 DEF EnableAnswered, VerifyAnswered, Answered
  <2>3. enroll' \in Wizard /\ enroll'.open = enroll.open /\ enroll'.closing = enroll.closing
        /\ enroll'.step = "scan" /\ enroll'.secret = s /\ enroll'.late = b
    <3>1. PICK st \in {"scan", "done"} : st = "scan"
      OBVIOUS
    <3>2. enroll' = [enroll EXCEPT !.pending = FALSE, !.step = st, !.secret = s, !.late = b]
      BY <2>2, <3>1
    <3> QED
      BY <1>0, <3>1, <3>2, AdvancedWizard
  <2>4. Truthful'
    BY <1>0, <1>3, <1>4, <2>1, <2>3 DEF PanelInv, HeadServed, Truthful
  <2> QED
    BY <1>0, <1>3, <2>2, <2>3, <2>4, WizardAnswered DEF PanelTyped
<1>5. CASE Ok /\ Head(queue).kind = "verify"
  <2>1. enroll' = [enroll EXCEPT !.pending = FALSE, !.step = "done", !.secret = 0, !.late = b]
        /\ page' = account.enabled
    BY <1>2, <1>5 DEF EnableAnswered, VerifyAnswered, Answered
  <2>2. enroll' \in Wizard /\ enroll'.open = enroll.open /\ enroll'.closing = enroll.closing
        /\ enroll'.step = "done" /\ enroll'.late = b
    <3>1. PICK st \in {"scan", "done"} : st = "done"
      OBVIOUS
    <3>2. PICK s \in 0..MaxSecrets : s = 0
      BY PanelAssumption
    <3>3. enroll' = [enroll EXCEPT !.pending = FALSE, !.step = st, !.secret = s, !.late = b]
      BY <2>1, <3>1, <3>2
    <3> QED
      BY <1>0, <3>1, <3>3, AdvancedWizard
  <2>3. page' \in BOOLEAN
    BY <1>0, <2>1
  <2>4. Truthful'
    BY <1>0, <1>3, <1>5, <2>2 DEF PanelInv, HeadServed, Truthful
  <2> QED
    BY <1>0, <1>3, <2>1, <2>2, <2>3, <2>4, WizardAnswered
<1> QED
  BY <1>0, <1>1, <1>4, <1>5

LEMMA DisableAnsweredStep ==
  ASSUME PanelInv, DisableAnswered
  PROVE  PanelInv'
<1>0. /\ PanelTyped /\ queue \in Seq(Action) /\ queue # <<>> /\ queue' = Tail(queue)
      /\ Head(queue).kind = "disable" /\ Head(queue).result # "none"
      /\ UNCHANGED <<account, made, enroll, own>>
      /\ account \in [secret : 0..MaxSecrets, enabled : BOOLEAN]
      /\ page \in BOOLEAN /\ disable \in [open : BOOLEAN, pending : BOOLEAN]
      /\ 1 \in 1..Len(queue) /\ queue[1] = Head(queue)
  BY QueueFacts DEF PanelInv, PanelTyped, DisableAnswered, Answered
<1>1. /\ queue' \in Seq(Action) /\ Len(queue) \in Nat \ {0} /\ Len(queue') = Len(queue) - 1
      /\ \A i \in 1..Len(queue') : i + 1 \in 1..Len(queue) /\ queue'[i] = queue[i + 1]
      /\ OnlyHead' /\ (queue' = <<>> \/ ~Ok')
  BY <1>0, DequeueStep
<1>2. PICK o \in BOOLEAN : o = (disable.open /\ ~Ok)
  OBVIOUS
<1>3. disable' = [pending |-> FALSE, open |-> o]
  BY <1>2 DEF DisableAnswered
<1>4. disable' \in [open : BOOLEAN, pending : BOOLEAN] /\ disable'.open = o
  BY <1>3
<1>5. page' \in BOOLEAN /\ (~Ok => page' = page)
  BY <1>0 DEF DisableAnswered
<1>6. PanelTyped'
  BY <1>0, <1>1, <1>4, <1>5 DEF PanelTyped
<1>7. \A i \in 1..Len(queue') : queue'[i].kind # "disable"
  <2>1. \A i \in 1..Len(queue') : i + 1 # 1
    BY <1>1
  <2> QED
    BY <1>0, <1>1, <2>1 DEF PanelInv, OneDisable
<1>8. OneDisable' /\ DisableSent'
  BY <1>7 DEF OneDisable, DisableSent
<1>9. LateWhenClosed'
  BY <1>0 DEF PanelInv, LateWhenClosed
<1>10. DisableOpen'
  <2> SUFFICES ASSUME o PROVE DisableOpen'
    BY <1>4 DEF DisableOpen
  <2>1. disable.open /\ ~Ok
    BY <1>0, <1>2
  <2>2. ~enroll.open /\ (enroll.late \/ page \/ \A i \in 1..Len(queue) : queue[i].kind = "disable")
    BY <2>1 DEF PanelInv, DisableOpen
  <2>3. (\A i \in 1..Len(queue) : queue[i].kind = "disable") => \A i \in 1..Len(queue') : queue'[i].kind = "disable"
    BY <1>1
  <2> QED
    BY <1>0, <1>5, <2>1, <2>2, <2>3 DEF DisableOpen
<1>11. HeadServed'
  BY <1>1 DEF HeadServed
<1>12. Truthful'
  <2>1. enroll.late \/ enroll.step = "password"
    BY <1>0 DEF PanelInv, DisableSent
  <2> QED
    BY <1>0, <2>1 DEF Truthful
<1> QED
  BY <1>1, <1>6, <1>8, <1>9, <1>10, <1>11, <1>12 DEF PanelInv

LEMMA ReloadStep ==
  ASSUME PanelInv, Reload
  PROVE  PanelInv'
<1>1. /\ queue' = <<>> /\ queue' \in Seq(Action) /\ Len(queue') = 0
      /\ enroll' = NewEnroll /\ disable' = NewDisable /\ page' = account.enabled
      /\ UNCHANGED <<account, made, own>>
  BY EmptySeq DEF Reload
<1>2. enroll' \in Wizard /\ enroll'.step = "password"
  BY <1>1, FirstStepIs DEF NewEnroll
<1>3. disable' \in [open : BOOLEAN, pending : BOOLEAN] /\ ~disable'.open
  BY <1>1 DEF NewDisable
<1>4. page' \in BOOLEAN
  BY <1>1 DEF PanelInv, PanelTyped
<1>5. PanelTyped'
  BY <1>1, <1>2, <1>3, <1>4 DEF PanelInv, PanelTyped
<1>6. OnlyHead' /\ OneDisable' /\ DisableSent'
  BY <1>1 DEF OnlyHead, OneDisable, DisableSent
<1>7. LateWhenClosed' /\ DisableOpen' /\ HeadServed' /\ Truthful'
  BY <1>1, <1>2, <1>3 DEF LateWhenClosed, DisableOpen, HeadServed, Truthful
<1> QED
  BY <1>5, <1>6, <1>7 DEF PanelInv

LEMMA PanelStep == PanelInv /\ [PanelNext]_panelVars => PanelInv'
<1> SUFFICES ASSUME PanelInv, [PanelNext]_panelVars PROVE PanelInv'
  OBVIOUS
<1>1. CASE UNCHANGED panelVars
  BY <1>1 DEF panelVars, PanelInv, PanelTyped, OnlyHead, OneDisable, LateWhenClosed,
              DisableOpen, DisableSent, HeadServed, Truthful, Ok
<1>2. CASE PanelNext
  BY <1>2, PageStep, SubmitStep, SubmitDisableStep, ServeStep, AnswerStep, DisableAnsweredStep,
     ReloadStep
     DEF PanelNext
<1> QED
  BY <1>1, <1>2

LEMMA PanelInvariance == PanelSpec => []PanelInv
BY PanelInvInit, PanelStep, PTL DEF PanelSpec

\* Type correctness of the two-factor panel.
THEOREM PanelTypeCorrect == PanelSpec => []PanelTypeOK
<1>1. PanelInv => PanelTypeOK
  BY PanelTypes DEF PanelInv
<1> QED
  BY <1>1, PanelInvariance, PTL

\* However often the wizard is closed, opened and sent before its answers arrive,
\* with nothing under way and no other browser at work it shows the QR code of the
\* stored secret, and says "enabled" of an account that has two-factor; but for a
\* wizard that an answer has reached after its reset (two-factor-panel.tsx:82).
THEOREM WizardTruthfulHolds == PanelSpec => []WizardTruthful
<1>1. PanelInv => WizardTruthful
  BY DEF PanelInv, Truthful, WizardTruthful
<1> QED
  BY <1>1, PanelInvariance, PTL

(***************************************************************************)
(* The counters of the sign-in form.                                       *)
(***************************************************************************)

Flights(e) == {p \in Procs : attempt[p] # NoAttempt /\ attempt[p].email = e}

Limit == ACCOUNT_THROTTLE_MAX + Cardinality(Procs)

\* What a live entry has counted: the failures since its window began.
Since(e, x) == {f \in recent[e] : f.age <= ACCOUNT_THROTTLE_WINDOW - x.left}

\* A live entry has counted every failure of its window, of which the first is as
\* old as the window; with those still in flight they stay within the limit, and so
\* do the failures from before.
Counted(e, x) ==
  /\ Cardinality(Since(e, x)) = x.count
  /\ \E f \in Since(e, x) : f.age = ACCOUNT_THROTTLE_WINDOW - x.left
  /\ x.count + Cardinality(Flights(e)) + 1 <= Limit
  /\ Cardinality(recent[e] \ Since(e, x)) + 2 <= Limit

Live(m, e) == {x \in m : x.key = e /\ x.left > 0}

Numbered(e) ==
  \A f \in recent[e] : f.age = 0 => f.nr <= Cardinality({g \in recent[e] : g.age = 0})

EmailInv(e) ==
  /\ IsFiniteSet(recent[e]) /\ Numbered(e)
  /\ \A x \in Live(accountAttempts, e) : Counted(e, x)
  /\ Live(accountAttempts, e) = {} =>
       Cardinality(recent[e]) + 2 <= Limit /\ \A f \in recent[e] : f.age # 0

ThrottleInv ==
  /\ ThrottleTypeOK
  /\ IsFiniteSet(loginAttempts) /\ IsFiniteSet(accountAttempts)
  /\ \A e \in Emails : EmailInv(e)

\* The image of a finite set is finite and no larger, and as large if no two of its
\* elements are joined.
LEMMA Images ==
  ASSUME NEW S, IsFiniteSet(S), NEW f, f = [x \in S |-> f[x]],
         NEW T, T = {f[x] : x \in S}
  PROVE  /\ IsFiniteSet(T)
         /\ Cardinality(T) \in Nat /\ Cardinality(S) \in Nat
         /\ Cardinality(T) <= Cardinality(S)
         /\ (\A x, y \in S : f[x] = f[y] => x = y) => Cardinality(T) = Cardinality(S)
<1>1. f \in Surjection(S, T)
  BY DEF Surjection
<1>2. IsFiniteSet(T) /\ Cardinality(T) <= Cardinality(S)
      /\ (Cardinality(T) = Cardinality(S) <=> f \in Injection(S, T))
  BY <1>1, FS_Surjection
<1>3. (\A x, y \in S : f[x] = f[y] => x = y) => f \in Injection(S, T)
  BY <1>1 DEF Surjection, Injection, IsInjective
<1> QED BY <1>2, <1>3, FS_CardinalityType

\* A map of counters: what the code keeps in one.
CounterMap(m, keys, window) ==
  IsFiniteSet(m) /\ \A x \in m : x \in Counters(keys, window)

OneEach(m) == \A x, y \in m : x.key = y.key => x = y

\* Closing the gaps moves entries and changes nothing else of them.
LEMMA RankedKept ==
  ASSUME NEW keys, NEW window \in Nat, NEW m, CounterMap(m, keys, window)
  PROVE  /\ CounterMap(Ranked(m), keys, window)
         /\ OneEach(m) => OneEach(Ranked(m))
         /\ \A y \in Ranked(m) : \E x \in m :
              y.key = x.key /\ y.count = x.count /\ y.left = x.left
         /\ \A x \in m : \E y \in Ranked(m) :
              y.key = x.key /\ y.count = x.count /\ y.left = x.left
<1> DEFINE place(x) == Cardinality({y \in m : y.at <= x.at})
           moved == [x \in m |-> [x EXCEPT !.at = place(x)]]
<1>1. \A x \in m : x \in [key : keys, at : Nat \ {0}, count : Nat \ {0}, left : 0..window]
  BY DEF CounterMap, Counters
<1>2. Ranked(m) = {moved[x] : x \in m}
  BY DEF Ranked
<1>3. IsFiniteSet(Ranked(m))
  <2> HIDE DEF moved
  <2>1. moved = [x \in m |-> moved[x]]
    BY DEF moved
  <2> QED BY <1>2, <2>1, Images DEF CounterMap
<1>4. ASSUME NEW x \in m
      PROVE  place(x) \in Nat \ {0}
  <2>1. IsFiniteSet({y \in m : y.at <= x.at})
    BY FS_Subset DEF CounterMap
  <2>2. x \in {y \in m : y.at <= x.at}
    BY <1>1
  <2> QED BY <2>1, <2>2, FS_CardinalityType, FS_EmptySet
<1> HIDE DEF place
<1>5. ASSUME NEW x \in m
      PROVE  /\ moved[x] \in Counters(keys, window)
             /\ moved[x].key = x.key /\ moved[x].count = x.count /\ moved[x].left = x.left
  BY <1>1, <1>4 DEF Counters
<1> HIDE DEF moved
<1>6. OneEach(m) => OneEach(Ranked(m))
  BY <1>2, <1>5 DEF OneEach
<1>7. CounterMap(Ranked(m), keys, window)
  BY <1>2, <1>3, <1>5 DEF CounterMap
<1> QED BY <1>2, <1>5, <1>6, <1>7

\* Pruning keeps some of the live entries, as they are.
LEMMA PruneKept ==
  ASSUME NEW keys, NEW window \in Nat, NEW m, CounterMap(m, keys, window)
  PROVE  /\ CounterMap(pruneAttempts(m), keys, window)
         /\ OneEach(m) => OneEach(pruneAttempts(m))
         /\ \A y \in pruneAttempts(m) : \E x \in m :
              x.left > 0 /\ y.key = x.key /\ y.count = x.count /\ y.left = x.left
<1> DEFINE live == {x \in m : x.left > 0}
           kept == {x \in live :
                      Cardinality({y \in live : y.at > x.at}) < LOGIN_THROTTLE_MAX_KEYS}
<1>1. pruneAttempts(m) = Ranked(kept)
  BY DEF pruneAttempts
<1>2. \A x : x \in kept => x \in m /\ x.left > 0
  OBVIOUS
<1> HIDE DEF kept
<1>3. CounterMap(kept, keys, window) /\ (OneEach(m) => OneEach(kept))
  <2>1. kept \in SUBSET m
    BY <1>2
  <2>2. IsFiniteSet(kept)
    BY <2>1, FS_Subset DEF CounterMap
  <2>3. CounterMap(kept, keys, window)
    BY <1>2, <2>2 DEF CounterMap
  <2>4. OneEach(m) => OneEach(kept)
    BY <1>2 DEF OneEach
  <2> QED BY <2>3, <2>4
<1>4. /\ CounterMap(Ranked(kept), keys, window)
      /\ OneEach(kept) => OneEach(Ranked(kept))
      /\ \A y \in Ranked(kept) : \E x \in kept :
           y.key = x.key /\ y.count = x.count /\ y.left = x.left
      /\ \A x \in kept : \E y \in Ranked(kept) :
           y.key = x.key /\ y.count = x.count /\ y.left = x.left
  BY <1>3, RankedKept, Zenon
<1> QED BY <1>1, <1>2, <1>3, <1>4, Zenon

LEMMA ClearedKept ==
  ASSUME NEW keys, NEW window \in Nat, NEW m, CounterMap(m, keys, window), NEW k
  PROVE  /\ CounterMap(Cleared(m, k), keys, window)
         /\ OneEach(m) => OneEach(Cleared(m, k))
         /\ \A y \in Cleared(m, k) : \E x \in m :
              x.key # k /\ y.key = x.key /\ y.count = x.count /\ y.left = x.left
         /\ \A x \in m : x.key # k => \E y \in Cleared(m, k) :
              y.key = x.key /\ y.count = x.count /\ y.left = x.left
<1> DEFINE kept == {x \in m : x.key # k}
<1>1. Cleared(m, k) = Ranked(kept)
  BY DEF Cleared
<1>2. \A x : x \in kept <=> x \in m /\ x.key # k
  OBVIOUS
<1> HIDE DEF kept
<1>3. CounterMap(kept, keys, window) /\ (OneEach(m) => OneEach(kept))
  <2>1. kept \in SUBSET m
    BY <1>2
  <2>2. IsFiniteSet(kept)
    BY <2>1, FS_Subset DEF CounterMap
  <2>3. CounterMap(kept, keys, window)
    BY <1>2, <2>2 DEF CounterMap
  <2>4. OneEach(m) => OneEach(kept)
    BY <1>2 DEF OneEach
  <2> QED BY <2>3, <2>4
<1>4. /\ CounterMap(Ranked(kept), keys, window)
      /\ OneEach(kept) => OneEach(Ranked(kept))
      /\ \A y \in Ranked(kept) : \E x \in kept :
           y.key = x.key /\ y.count = x.count /\ y.left = x.left
      /\ \A x \in kept : \E y \in Ranked(kept) :
           y.key = x.key /\ y.count = x.count /\ y.left = x.left
  BY <1>3, RankedKept, Zenon
<1> QED BY <1>1, <1>2, <1>3, <1>4, ZenonT(40)

LEMMA BumpKept ==
  ASSUME NEW keys, NEW window \in Nat \ {0}, NEW m, CounterMap(m, keys, window),
         NEW k \in keys
  PROVE  /\ CounterMap(bumpAttempts(m, k, window), keys, window)
         /\ OneEach(m) => OneEach(bumpAttempts(m, k, window))
<1>1. \A x \in m : x \in [key : keys, at : Nat \ {0}, count : Nat \ {0}, left : 0..window]
  BY DEF CounterMap, Counters
<1>2. CASE k \notin Keys(m)
  <2>1. Cardinality(m) + 1 \in Nat \ {0}
    BY FS_CardinalityType DEF CounterMap
  <2>2. Entry(k, Cardinality(m) + 1, 1, window) \in Counters(keys, window)
        /\ Entry(k, Cardinality(m) + 1, 1, window).key = k
    BY <2>1 DEF Entry, Counters
  <2> DEFINE new == Entry(k, Cardinality(m) + 1, 1, window)
  <2> HIDE DEF new
  <2>3. bumpAttempts(m, k, window) = m \cup {new}
    BY <1>2 DEF bumpAttempts, new
  <2>4. new \in Counters(keys, window) /\ new.key = k
    BY <2>2 DEF new
  <2>5. \A x \in m : x.key # k
    BY <1>2 DEF Keys
  <2> QED BY <2>3, <2>4, <2>5, FS_AddElement DEF CounterMap, OneEach
<1>3. CASE k \in Keys(m)
  <2> DEFINE bumped == [x \in m |-> IF x.key # k THEN x
                                    ELSE IF x.left = 0 THEN Entry(k, x.at, 1, window)
                                    ELSE [x EXCEPT !.count = @ + 1]]
  <2>1. bumpAttempts(m, k, window) = {bumped[x] : x \in m}
    BY <1>3 DEF bumpAttempts
  <2>2. ASSUME NEW x \in m
        PROVE  bumped[x] \in Counters(keys, window) /\ bumped[x].key = x.key
    BY <1>1 DEF Counters, Entry
  <2>3. bumped = [x \in m |-> bumped[x]]
    OBVIOUS
  <2> HIDE DEF bumped
  <2>4. IsFiniteSet(bumpAttempts(m, k, window))
    BY <2>1, <2>3, Images DEF CounterMap
  <2> QED BY <2>1, <2>2, <2>4 DEF CounterMap, OneEach
<1> QED BY <1>2, <1>3

\* The ticks left of an entry after one more.
Later(t) == IF t = 0 THEN 0 ELSE t - 1

LEMMA AgedKept ==
  ASSUME NEW keys, NEW window \in Nat, NEW m, CounterMap(m, keys, window)
  PROVE  /\ CounterMap(Aged(m), keys, window)
         /\ OneEach(m) => OneEach(Aged(m))
         /\ \A y \in Aged(m) : \E x \in m :
              /\ y.key = x.key /\ y.count = x.count
              /\ y.left = Later(x.left)
         /\ \A x \in m : \E y \in Aged(m) :
              /\ y.key = x.key /\ y.count = x.count
              /\ y.left = Later(x.left)
<1> DEFINE aged == [x \in m |-> [x EXCEPT !.left = IF @ = 0 THEN 0 ELSE @ - 1]]
<1>1. \A x \in m : x \in [key : keys, at : Nat \ {0}, count : Nat \ {0}, left : 0..window]
  BY DEF CounterMap, Counters
<1>2. Aged(m) = {aged[x] : x \in m}
  BY DEF Aged
<1>3. ASSUME NEW x \in m
      PROVE  /\ aged[x] \in Counters(keys, window)
             /\ aged[x].key = x.key /\ aged[x].count = x.count
             /\ aged[x].left = Later(x.left)
  BY <1>1 DEF Counters, Later
<1>4. aged = [x \in m |-> aged[x]]
  OBVIOUS
<1> HIDE DEF aged
<1>5. IsFiniteSet(Aged(m))
  BY <1>2, <1>4, Images DEF CounterMap
<1>6. OneEach(m) => OneEach(Aged(m))
  BY <1>2, <1>3 DEF OneEach
<1>7. CounterMap(Aged(m), keys, window)
  BY <1>2, <1>3, <1>5 DEF CounterMap
<1> QED BY <1>2, <1>3, <1>6, <1>7

LEMMA EmailsHaveCounters ==
  ASSUME ThrottleInv
  PROVE  /\ CounterMap(loginAttempts, Ips, LOGIN_THROTTLE_WINDOW)
         /\ CounterMap(accountAttempts, Emails, ACCOUNT_THROTTLE_WINDOW)
         /\ OneEach(accountAttempts)
BY DEF ThrottleInv, ThrottleTypeOK, CounterMap, OneEach

LEMMA FlightsFinite ==
  ASSUME NEW e
  PROVE  /\ Limit \in Nat /\ Limit >= 2
         /\ IsFiniteSet(Flights(e)) /\ Cardinality(Flights(e)) \in Nat
         /\ Cardinality(Flights(e)) <= Cardinality(Procs)
<1>1. Flights(e) \in SUBSET Procs
  BY DEF Flights
<1>2. Cardinality(Procs) \in Nat /\ Cardinality(Procs) # 0
  BY ThrottleAssumption, FS_CardinalityType, FS_EmptySet
<1> QED BY <1>1, <1>2, ThrottleAssumption, FS_Subset, FS_CardinalityType DEF Limit

LEMMA SinceFinite ==
  ASSUME NEW e, IsFiniteSet(recent[e]), NEW x
  PROVE  /\ IsFiniteSet(Since(e, x)) /\ Cardinality(Since(e, x)) \in Nat
         /\ IsFiniteSet(recent[e] \ Since(e, x))
         /\ Cardinality(recent[e] \ Since(e, x)) \in Nat
<1>1. Since(e, x) \in SUBSET recent[e] /\ recent[e] \ Since(e, x) \in SUBSET recent[e]
  BY DEF Since
<1> QED BY <1>1, FS_Subset, FS_CardinalityType

\* A check, a request's end or another e-mail's failure leaves e as it was: nothing is
\* added to its failures, a live entry is one that was there, and if a request of e
\* has come in then below the limit.
LEMMA EmailKept ==
  ASSUME NEW e \in Emails, EmailInv(e), recent'[e] = recent[e],
         \A y \in Live(accountAttempts', e) : \E x \in Live(accountAttempts, e) :
            y.count = x.count /\ y.left = x.left,
         Live(accountAttempts', e) = {} => Live(accountAttempts, e) = {},
         \/ Flights(e)' \subseteq Flights(e)
         \/ \A y \in Live(accountAttempts', e) : y.count < ACCOUNT_THROTTLE_MAX
  PROVE  EmailInv(e)'
<1>1. /\ Limit \in Nat
      /\ Cardinality(Flights(e)') \in Nat /\ Cardinality(Flights(e)) \in Nat
      /\ Cardinality(Flights(e)') <= Cardinality(Procs) /\ Cardinality(Procs) \in Nat
  <2>1. Flights(e)' \in SUBSET Procs
    BY DEF Flights
  <2> QED BY <2>1, ThrottleAssumption, FlightsFinite, FS_Subset, FS_CardinalityType
<1>2. Flights(e)' \subseteq Flights(e) => Cardinality(Flights(e)') <= Cardinality(Flights(e))
  BY FlightsFinite, FS_Subset
<1>3. ASSUME NEW y \in Live(accountAttempts', e)
      PROVE  Counted(e, y)'
  <2>1. PICK x \in Live(accountAttempts, e) : y.count = x.count /\ y.left = x.left
    OBVIOUS
  <2>2. Since(e, y)' = Since(e, x)
    BY <2>1 DEF Since
  <2>3. Counted(e, x)
    BY DEF EmailInv
  <2>4. x.count \in Nat
    <3>1. IsFiniteSet(recent[e]) /\ x.count = Cardinality(Since(e, x))
      BY <2>3 DEF EmailInv, Counted
    <3>2. Cardinality(Since(e, x)) \in Nat
      BY <3>1, SinceFinite, Zenon
    <3> QED BY <3>1, <3>2
  <2>5. y.count + Cardinality(Flights(e)') + 1 <= Limit
    <3>1. x.count + Cardinality(Flights(e)) + 1 <= Limit
      BY <2>3 DEF Counted
    <3>2. CASE Flights(e)' \subseteq Flights(e)
      BY <1>1, <1>2, <2>1, <2>4, <3>1, <3>2
    <3>3. CASE y.count < ACCOUNT_THROTTLE_MAX
      BY <1>1, <2>1, <2>4, <3>3, ThrottleAssumption DEF Limit
    <3> QED BY <3>2, <3>3
  <2> QED BY <2>1, <2>2, <2>3, <2>5 DEF Counted
<1>4. Numbered(e)'
  BY DEF EmailInv, Numbered
<1> QED BY <1>3, <1>4 DEF EmailInv, Live

\* A success, the cap on keys or a restart forgets e.
LEMMA EmailForgotten ==
  ASSUME NEW e \in Emails, recent'[e] = {}, Live(accountAttempts', e) = {}
  PROVE  EmailInv(e)'
<1>1. Limit \in Nat /\ Limit >= 2
  BY FlightsFinite
<1> QED BY <1>1, FS_EmptySet DEF EmailInv, Numbered, Live

LEMMA CheckKeepsCounts ==
  ASSUME ThrottleInv, NEW p \in Procs, NEW e \in Emails, NEW ip \in Ips,
         checkLoginThrottle(p, e, ip)
  PROVE  ThrottleInv'
<1> DEFINE m == accountAttempts
           kept == pruneAttempts(accountAttempts)
<1>1. /\ CounterMap(kept, Emails, ACCOUNT_THROTTLE_WINDOW) /\ OneEach(kept)
      /\ \A y \in kept : \E x \in m :
           x.left > 0 /\ y.key = x.key /\ y.count = x.count /\ y.left = x.left
  BY EmailsHaveCounters, PruneKept, ThrottleAssumption
<1>2. CounterMap(pruneAttempts(loginAttempts), Ips, LOGIN_THROTTLE_WINDOW)
  BY EmailsHaveCounters, PruneKept, ThrottleAssumption
<1>3. /\ accountAttempts' = kept
      /\ recent' = [c \in Emails |-> IF c \in Dropped THEN {} ELSE recent[c]]
      /\ \/ attempt' = attempt
         \/ /\ attempt' = [attempt EXCEPT ![p] = [email |-> e, ip |-> ip]]
            /\ attempt[p] = NoAttempt
            /\ ~attemptsOver(kept, e, ACCOUNT_THROTTLE_MAX)
  BY DEF checkLoginThrottle, Forget
<1> HIDE DEF kept
<1>4. ThrottleTypeOK'
  <2>1. attempt' \in [Procs -> {NoAttempt} \cup [email : Emails, ip : Ips]]
    BY <1>3 DEF ThrottleInv, ThrottleTypeOK
  <2>2. DOMAIN recent' = Emails /\ \A c \in Emails : \A f \in recent'[c] : f \in Failure
    BY <1>3 DEF ThrottleInv, ThrottleTypeOK
  <2>3. loginAttempts' = pruneAttempts(loginAttempts)
    BY DEF checkLoginThrottle
  <2> QED BY <1>1, <1>2, <1>3, <2>1, <2>2, <2>3 DEF ThrottleTypeOK, CounterMap, OneEach
<1>5. IsFiniteSet(loginAttempts') /\ IsFiniteSet(accountAttempts')
  BY <1>1, <1>2, <1>3 DEF CounterMap, checkLoginThrottle
<1>6. ASSUME NEW c \in Emails
      PROVE  EmailInv(c)'
  <2>1. CASE c \in Dropped
    <3>1. c \notin Keys(kept)
      BY <2>1 DEF Dropped, kept
    <3>2. Live(accountAttempts', c) = {}
      BY <1>3, <3>1 DEF Live, Keys
    <3> QED BY <1>3, <2>1, <3>2, EmailForgotten
  <2>2. CASE c \notin Dropped
    <3>1. recent'[c] = recent[c]
      BY <1>3, <2>2
    <3>2. \A y \in Live(accountAttempts', c) : \E x \in Live(accountAttempts, c) :
            y.count = x.count /\ y.left = x.left
      BY <1>1, <1>3 DEF Live
    <3>3. ASSUME NEW x \in Live(accountAttempts, c)
          PROVE  Live(accountAttempts', c) # {}
      <4>1. c \in Keys(kept)
        BY <2>2 DEF Dropped, Keys, Live, kept
      <4>2. PICK y \in kept : y.key = c
        BY <4>1 DEF Keys
      <4>3. y.left > 0
        BY <1>1
      <4> QED BY <1>3, <4>2, <4>3 DEF Live
    <3>4. \/ Flights(c)' \subseteq Flights(c)
          \/ \A y \in Live(accountAttempts', c) : y.count < ACCOUNT_THROTTLE_MAX
      <4>1. CASE attempt' = attempt
        BY <4>1 DEF Flights
      <4>2. CASE /\ attempt' = [attempt EXCEPT ![p] = [email |-> e, ip |-> ip]]
                 /\ ~attemptsOver(kept, e, ACCOUNT_THROTTLE_MAX)
        <5>1. CASE c = e
          <6>1. ASSUME NEW y \in Live(accountAttempts', c)
                PROVE  y.count < ACCOUNT_THROTTLE_MAX
            <7>1. ~(y.count >= ACCOUNT_THROTTLE_MAX)
              BY <1>3, <4>2, <5>1, <6>1 DEF attemptsOver, Live
            <7>2. y.count \in Nat
              BY <1>1, <1>3 DEF CounterMap, Counters, Live
            <7> QED BY <7>1, <7>2, ThrottleAssumption
          <6> QED BY <6>1
        <5>2. CASE c # e
          <6>1. \A q \in Procs : attempt'[q] = attempt[q] \/ attempt'[q].email = e
            BY <4>2 DEF ThrottleInv, ThrottleTypeOK
          <6> QED BY <5>2, <6>1 DEF Flights
        <5> QED BY <5>1, <5>2
      <4> QED BY <1>3, <4>1, <4>2
    <3> QED BY <3>1, <3>2, <3>3, <3>4, EmailKept DEF ThrottleInv
  <2> QED BY <2>1, <2>2
<1> QED BY <1>4, <1>5, <1>6 DEF ThrottleInv

LEMMA ClearKeepsCounts ==
  ASSUME ThrottleInv, NEW p \in Procs, clearLoginThrottle(p)
  PROVE  ThrottleInv'
<1> DEFINE k == attempt[p].email
           kept == Cleared(accountAttempts, k)
<1>1. /\ CounterMap(kept, Emails, ACCOUNT_THROTTLE_WINDOW) /\ OneEach(kept)
      /\ \A y \in kept : \E x \in accountAttempts :
           x.key # k /\ y.key = x.key /\ y.count = x.count /\ y.left = x.left
      /\ \A x \in accountAttempts : x.key # k => \E y \in kept :
           y.key = x.key /\ y.count = x.count /\ y.left = x.left
  BY EmailsHaveCounters, ClearedKept, ThrottleAssumption
<1>2. CounterMap(Cleared(loginAttempts, attempt[p].ip), Ips, LOGIN_THROTTLE_WINDOW)
  BY EmailsHaveCounters, ClearedKept, ThrottleAssumption
<1>3. /\ accountAttempts' = kept
      /\ recent' = [c \in Emails |-> IF c \in {k} THEN {} ELSE recent[c]]
      /\ attempt' = [attempt EXCEPT ![p] = NoAttempt]
  BY DEF clearLoginThrottle, Forget
<1> HIDE DEF kept, k
<1>4. ThrottleTypeOK'
  <2>1. attempt' \in [Procs -> {NoAttempt} \cup [email : Emails, ip : Ips]]
    BY <1>3 DEF ThrottleInv, ThrottleTypeOK
  <2>2. DOMAIN recent' = Emails /\ \A c \in Emails : \A f \in recent'[c] : f \in Failure
    BY <1>3 DEF ThrottleInv, ThrottleTypeOK
  <2>3. loginAttempts' = Cleared(loginAttempts, attempt[p].ip)
    BY DEF clearLoginThrottle
  <2> QED BY <1>1, <1>2, <1>3, <2>1, <2>2, <2>3 DEF ThrottleTypeOK, CounterMap, OneEach
<1>5. IsFiniteSet(loginAttempts') /\ IsFiniteSet(accountAttempts')
  BY <1>1, <1>2, <1>3 DEF CounterMap, clearLoginThrottle
<1>6. ASSUME NEW c \in Emails
      PROVE  EmailInv(c)'
  <2>1. CASE c = k
    <3>1. Live(accountAttempts', c) = {}
      BY <1>1, <1>3, <2>1 DEF Live
    <3> QED BY <1>3, <2>1, <3>1, EmailForgotten
  <2>2. CASE c # k
    <3>1. recent'[c] = recent[c]
      BY <1>3, <2>2
    <3>2. \A y \in Live(accountAttempts', c) : \E x \in Live(accountAttempts, c) :
            y.count = x.count /\ y.left = x.left
      BY <1>1, <1>3 DEF Live
    <3>3. ASSUME NEW x \in Live(accountAttempts, c)
          PROVE  Live(accountAttempts', c) # {}
      BY <1>1, <1>3, <2>2 DEF Live
    <3>4. Flights(c)' \subseteq Flights(c)
      BY <1>3 DEF Flights, ThrottleInv, ThrottleTypeOK
    <3> QED BY <3>1, <3>2, <3>3, <3>4, EmailKept DEF ThrottleInv
  <2> QED BY <2>1, <2>2
<1> QED BY <1>4, <1>5, <1>6 DEF ThrottleInv

LEMMA RestartKeepsCounts ==
  ASSUME ThrottleInv, ForgetAll
  PROVE  ThrottleInv'
<1>1. \A e \in Emails : recent'[e] = {} /\ Live(accountAttempts', e) = {}
  BY DEF ForgetAll, Forget, Live
<1>2. \A e \in Emails : EmailInv(e)'
  BY <1>1, EmailForgotten, ThrottleAssumption
<1> QED BY <1>2, FS_EmptySet DEF ForgetAll, Forget, ThrottleInv, ThrottleTypeOK

LEMMA RecordKeepsCounts ==
  ASSUME ThrottleInv, NEW p \in Procs, recordFailedLogin(p)
  PROVE  ThrottleInv'
<1>1. PICK k \in Emails : k = attempt[p].email /\ attempt[p].ip \in Ips
  BY DEF recordFailedLogin, ThrottleInv, ThrottleTypeOK, NoAttempt
<1> DEFINE now == {f \in recent[k] : f.age = 0}
           new == [age |-> 0, nr |-> Cardinality(now) + 1]
           bumped == bumpAttempts(accountAttempts, k, ACCOUNT_THROTTLE_WINDOW)
<1>2. /\ accountAttempts' = bumped
      /\ loginAttempts' = bumpAttempts(loginAttempts, attempt[p].ip, LOGIN_THROTTLE_WINDOW)
      /\ attempt' = [attempt EXCEPT ![p] = NoAttempt]
      /\ attempt[p] # NoAttempt
  BY <1>1 DEF recordFailedLogin
<1>3. recent' = [recent EXCEPT ![k] = recent[k] \cup {new}]
  BY <1>1 DEF recordFailedLogin, Remember
<1>4. EmailInv(k) /\ IsFiniteSet(recent[k]) /\ Numbered(k)
  BY <1>1 DEF ThrottleInv, EmailInv
<1>5. Cardinality(now) \in Nat /\ IsFiniteSet(now)
  <2>1. now \in SUBSET recent[k]
    OBVIOUS
  <2> QED BY <1>4, <2>1, FS_Subset, FS_CardinalityType
<1>6. \A f \in recent[k] : f.age = 0 => f.nr <= Cardinality(now)
  BY <1>4 DEF Numbered
<1>7. new.age = 0 /\ new.nr = Cardinality(now) + 1 /\ new \in Failure
  BY <1>5, ThrottleAssumption DEF Failure
<1>8. new \notin recent[k]
  BY <1>5, <1>6, <1>7
<1>9. DOMAIN recent' = Emails
      /\ recent'[k] = recent[k] \cup {new} /\ \A c \in Emails : c # k => recent'[c] = recent[c]
  BY <1>1, <1>3 DEF ThrottleInv, ThrottleTypeOK
<1>10. CounterMap(bumped, Emails, ACCOUNT_THROTTLE_WINDOW) /\ OneEach(bumped)
  BY <1>1, EmailsHaveCounters, BumpKept, ThrottleAssumption
<1>11. CounterMap(loginAttempts', Ips, LOGIN_THROTTLE_WINDOW)
  BY <1>1, <1>2, EmailsHaveCounters, BumpKept, ThrottleAssumption
<1> HIDE DEF now, new, bumped
<1>12. ThrottleTypeOK'
  <2>1. attempt' \in [Procs -> {NoAttempt} \cup [email : Emails, ip : Ips]]
    BY <1>2 DEF ThrottleInv, ThrottleTypeOK
  <2>2. \A c \in Emails : \A f \in recent'[c] : f \in Failure
    BY <1>7, <1>9 DEF ThrottleInv, ThrottleTypeOK
  <2> QED BY <1>2, <1>9, <1>10, <1>11, <2>1, <2>2 DEF ThrottleTypeOK, CounterMap, OneEach
<1>13. IsFiniteSet(loginAttempts') /\ IsFiniteSet(accountAttempts')
  BY <1>2, <1>10, <1>11 DEF CounterMap
<1>14. ASSUME NEW c \in Emails, c # k
       PROVE  EmailInv(c)'
  <2>1. \A y : y.key = c => (y \in bumped <=> y \in accountAttempts)
    <3>1. \A x \in accountAttempts : x \in Counters(Emails, ACCOUNT_THROTTLE_WINDOW)
      BY DEF ThrottleInv, ThrottleTypeOK
    <3> QED BY <1>14, <3>1 DEF bumped, bumpAttempts, Entry, Keys, Counters
  <2>2. Live(accountAttempts', c) = Live(accountAttempts, c)
    BY <1>2, <2>1 DEF Live
  <2>3. Flights(c)' \subseteq Flights(c)
    BY <1>2 DEF Flights, ThrottleInv, ThrottleTypeOK
  <2> QED BY <1>9, <1>14, <2>2, <2>3, EmailKept DEF ThrottleInv
<1>15. EmailInv(k)'
  <2>1. IsFiniteSet(recent'[k])
    BY <1>4, <1>9, FS_AddElement
  <2>2. Numbered(k)'
    <3>1. {g \in recent'[k] : g.age = 0} = now \cup {new}
      BY <1>7, <1>9 DEF now
    <3>2. Cardinality(now \cup {new}) = Cardinality(now) + 1
      BY <1>5, <1>8, FS_AddElement DEF now
    <3>3. ASSUME NEW f \in recent'[k], f.age = 0
          PROVE  f.nr <= Cardinality(now) + 1
      <4>1. f \in Failure
        BY <1>1, <1>9, <1>12, <3>3 DEF ThrottleTypeOK
      <4> QED BY <1>5, <1>6, <1>7, <1>9, <3>3, <4>1 DEF Failure
    <3> QED BY <3>1, <3>2, <3>3 DEF Numbered
  <2>3. /\ Cardinality(Flights(k)) \in Nat /\ Cardinality(Flights(k)') + 1 = Cardinality(Flights(k))
        /\ Cardinality(Flights(k)') \in Nat /\ Limit \in Nat
        /\ Cardinality(Flights(k)) <= Cardinality(Procs) /\ Cardinality(Procs) \in Nat
    <3>1. Flights(k)' = Flights(k) \ {p} /\ p \in Flights(k)
      BY <1>1, <1>2 DEF Flights, ThrottleInv, ThrottleTypeOK, NoAttempt
    <3>2. IsFiniteSet(Flights(k)) /\ Cardinality(Flights(k)) \in Nat /\ Limit \in Nat
          /\ Cardinality(Flights(k)) <= Cardinality(Procs)
      BY FlightsFinite
    <3>3. Cardinality(Flights(k) \ {p}) = Cardinality(Flights(k)) - 1
          /\ Cardinality(Flights(k) \ {p}) \in Nat
      BY <3>1, <3>2, FS_RemoveElement, FS_CardinalityType
    <3> QED BY <3>1, <3>2, <3>3, ThrottleAssumption, FS_CardinalityType
  <2>4. CASE Live(accountAttempts, k) # {}
    <3>1. PICK x \in Live(accountAttempts, k) : TRUE
      BY <2>4
    <3>2. x \in Counters(Emails, ACCOUNT_THROTTLE_WINDOW) /\ x \in accountAttempts
          /\ x.key = k /\ x.left > 0
          /\ \A y \in accountAttempts : y.key = k => y = x
      BY DEF Live, ThrottleInv, ThrottleTypeOK
    <3>3. Live(accountAttempts', k) = {[x EXCEPT !.count = @ + 1]}
      <4>1. bumped = {IF y.key # k THEN y
                      ELSE IF y.left = 0 THEN Entry(k, y.at, 1, ACCOUNT_THROTTLE_WINDOW)
                      ELSE [y EXCEPT !.count = @ + 1] : y \in accountAttempts}
        BY <3>2 DEF bumped, bumpAttempts, Keys
      <4> QED BY <1>2, <3>2, <4>1 DEF Live, Counters
    <3>4. /\ [x EXCEPT !.count = @ + 1].count = x.count + 1
          /\ [x EXCEPT !.count = @ + 1].left = x.left
          /\ x.left \in 0..ACCOUNT_THROTTLE_WINDOW /\ x.count \in Nat
      BY <3>2 DEF Counters
    <3>5. Counted(k, x)
      BY <1>4 DEF EmailInv
    <3> DEFINE y == [x EXCEPT !.count = @ + 1]
    <3>6. y.count = x.count + 1 /\ y.left = x.left /\ Live(accountAttempts', k) = {y}
      BY <3>3, <3>4
    <3> HIDE DEF y
    <3>7. Since(k, y)' = Since(k, x) \cup {new} /\ new \notin Since(k, x)
      <4>1. \A f \in recent'[k] : f.age <= ACCOUNT_THROTTLE_WINDOW - y.left
                                    <=> f.age <= ACCOUNT_THROTTLE_WINDOW - x.left
        BY <3>6
      <4>2. new.age <= ACCOUNT_THROTTLE_WINDOW - x.left
        BY <1>7, <3>4, ThrottleAssumption
      <4> QED BY <1>8, <1>9, <4>1, <4>2 DEF Since
    <3>8. Cardinality(Since(k, y)') = y.count
      <4>1. IsFiniteSet(Since(k, x)) /\ Cardinality(Since(k, x)) = x.count
        BY <1>4, <3>5, SinceFinite DEF Counted
      <4>2. Cardinality(Since(k, x) \cup {new}) = Cardinality(Since(k, x)) + 1
        BY <3>7, <4>1, FS_AddElement
      <4> QED BY <3>6, <3>7, <4>1, <4>2
    <3>9. \E f \in Since(k, y)' : f.age = ACCOUNT_THROTTLE_WINDOW - y.left
      BY <3>5, <3>6, <3>7 DEF Counted
    <3>10. recent'[k] \ Since(k, y)' = recent[k] \ Since(k, x)
      BY <1>8, <1>9, <3>7
    <3>11. y.count + Cardinality(Flights(k)') + 1 <= Limit
      BY <2>3, <3>4, <3>5, <3>6 DEF Counted
    <3>12. Counted(k, y)'
      BY <3>5, <3>8, <3>9, <3>10, <3>11 DEF Counted
    <3> QED BY <2>1, <2>2, <3>6, <3>12 DEF EmailInv
  <2>5. CASE Live(accountAttempts, k) = {}
    <3>1. \A x \in accountAttempts : x \in Counters(Emails, ACCOUNT_THROTTLE_WINDOW)
      BY DEF ThrottleInv, ThrottleTypeOK
    <3>2. \A x \in accountAttempts : x.key = k => x.left = 0
      BY <2>5, <3>1 DEF Live, Counters
    <3>3. PICK n : Entry(k, n, 1, ACCOUNT_THROTTLE_WINDOW) \in bumped
      BY <3>2 DEF bumped, bumpAttempts, Keys
    <3> DEFINE y == Entry(k, n, 1, ACCOUNT_THROTTLE_WINDOW)
    <3>4. y \in bumped /\ y.key = k /\ y.count = 1 /\ y.left = ACCOUNT_THROTTLE_WINDOW
      BY <3>3 DEF Entry
    <3> HIDE DEF y
    <3>5. Live(accountAttempts', k) = {y}
      BY <1>2, <1>10, <3>4, ThrottleAssumption DEF Live, OneEach
    <3>6. Cardinality(recent[k]) + 2 <= Limit /\ \A f \in recent[k] : f.age # 0
      BY <1>4, <2>5 DEF EmailInv
    <3>7. Since(k, y)' = {new}
      <4>1. \A f \in recent[k] : f.age \in Nat
        BY <1>1 DEF ThrottleInv, ThrottleTypeOK, Failure
      <4>2. \A f \in recent'[k] : f.age <= ACCOUNT_THROTTLE_WINDOW - y.left <=> f = new
        BY <1>7, <1>9, <3>4, <3>6, <4>1, ThrottleAssumption
      <4> QED BY <1>9, <4>2 DEF Since
    <3>8. recent'[k] \ Since(k, y)' = recent[k]
      BY <1>8, <1>9, <3>7
    <3>9. Cardinality({new}) = 1
      BY FS_Singleton
    <3>10. new.age = ACCOUNT_THROTTLE_WINDOW - y.left
      BY <1>7, <3>4, ThrottleAssumption
    <3>11. y.count + Cardinality(Flights(k)') + 1 <= Limit
      BY <2>3, <3>4, ThrottleAssumption DEF Limit
    <3>12. Counted(k, y)'
      BY <3>4, <3>6, <3>7, <3>8, <3>9, <3>10, <3>11 DEF Counted
    <3> QED BY <2>1, <2>2, <3>5, <3>12 DEF EmailInv
  <2> QED BY <2>4, <2>5
<1> QED BY <1>12, <1>13, <1>14, <1>15 DEF ThrottleInv

LEMMA TickKeepsCounts ==
  ASSUME ThrottleInv, ThrottleTick
  PROVE  ThrottleInv'
<1> DEFINE W == ACCOUNT_THROTTLE_WINDOW
<1>1. /\ accountAttempts' = Aged(accountAttempts)
      /\ loginAttempts' = Aged(loginAttempts)
      /\ attempt' = attempt
      /\ recent' = [e \in Emails |-> {[f EXCEPT !.age = @ + 1] :
                      f \in {g \in recent[e] : g.age + 1 < ACCOUNT_THROTTLE_WINDOW}}]
  BY DEF ThrottleTick
<1>2. /\ CounterMap(accountAttempts', Emails, W) /\ OneEach(accountAttempts')
      /\ \A y \in accountAttempts' : \E x \in accountAttempts :
           /\ y.key = x.key /\ y.count = x.count
           /\ y.left = Later(x.left)
      /\ \A x \in accountAttempts : \E y \in accountAttempts' :
           /\ y.key = x.key /\ y.count = x.count
           /\ y.left = Later(x.left)
  <2>1. CounterMap(accountAttempts, Emails, W) /\ OneEach(accountAttempts) /\ W \in Nat
    BY EmailsHaveCounters, ThrottleAssumption
  <2> HIDE DEF W
  <2> QED BY <1>1, <2>1, AgedKept, ZenonT(40)
<1>3. CounterMap(loginAttempts', Ips, LOGIN_THROTTLE_WINDOW)
  BY <1>1, EmailsHaveCounters, AgedKept, ThrottleAssumption
<1>4. ASSUME NEW e \in Emails
      PROVE  /\ \A f \in recent'[e] : f \in Failure /\ f.age # 0
             /\ EmailInv(e)'
  <2> DEFINE older == [f \in recent[e] |-> [f EXCEPT !.age = @ + 1]]
             stay == {g \in recent[e] : g.age + 1 < W}
  <2>1. \A f \in recent[e] : f \in [age : 0..(W - 1), nr : Nat \ {0}]
    BY DEF ThrottleInv, ThrottleTypeOK, Failure
  <2>2. \A f \in recent[e] : older[f].age = f.age + 1 /\ older[f].nr = f.nr
    BY <2>1
  <2>3. recent'[e] = {older[f] : f \in stay}
    BY <1>1
  <2>4. \A f \in stay : older[f] \in Failure /\ older[f].age # 0
    BY <2>1, ThrottleAssumption DEF Failure
  <2>5. \A f, g \in recent[e] : older[f] = older[g] => f = g
    <3> SUFFICES ASSUME NEW f \in recent[e], NEW g \in recent[e], older[f] = older[g]
                 PROVE  f = g
      OBVIOUS
    <3>1. f.age = g.age /\ f.nr = g.nr
      BY <2>1, <2>2, SMTT(30)
    <3> QED BY <2>1, <3>1
  <2>6. stay \subseteq recent[e]
    OBVIOUS
  <2>7. EmailInv(e) /\ IsFiniteSet(recent[e])
    BY DEF ThrottleInv, EmailInv
  <2>8. older = [f \in recent[e] |-> older[f]]
    OBVIOUS
  <2> HIDE DEF older
  \* What of a set of failures is still remembered is no more than they were, and as
  \* much if none of them has become too old.
  <2>9. ASSUME NEW S, S \subseteq recent[e],
               NEW T, T = {older[f] : f \in S \cap stay}
        PROVE  /\ IsFiniteSet(S) /\ IsFiniteSet(T)
               /\ Cardinality(S) \in Nat /\ Cardinality(T) \in Nat
               /\ Cardinality(T) <= Cardinality(S)
               /\ S \subseteq stay => Cardinality(T) = Cardinality(S)
    <3> DEFINE R == S \cap stay
               moved == [f \in R |-> older[f]]
    <3>1. IsFiniteSet(S) /\ R \in SUBSET S
      BY <2>7, <2>9, FS_Subset
    <3>2. IsFiniteSet(R) /\ Cardinality(R) <= Cardinality(S)
          /\ Cardinality(R) \in Nat /\ Cardinality(S) \in Nat
      BY <3>1, FS_Subset, FS_CardinalityType
    <3>3. S \subseteq stay => R = S
      OBVIOUS
    <3>4. /\ moved = [f \in R |-> moved[f]] /\ T = {moved[f] : f \in R}
          /\ \A f, g \in R : moved[f] = moved[g] => f = g
      BY <2>5, <2>9
    <3> HIDE DEF R, moved
    <3>5. IsFiniteSet(T) /\ Cardinality(T) \in Nat /\ Cardinality(T) = Cardinality(R)
      BY <3>2, <3>4, Images
    <3> QED BY <3>1, <3>2, <3>3, <3>5
  <2>10. IsFiniteSet(recent'[e]) /\ Cardinality(recent'[e]) <= Cardinality(recent[e])
         /\ Cardinality(recent'[e]) \in Nat /\ Cardinality(recent[e]) \in Nat
    <3>1. recent'[e] = {older[f] : f \in recent[e] \cap stay}
      BY <2>3, <2>6
    <3> QED BY <2>9, <3>1
  <2>11. Numbered(e)'
    BY <2>3, <2>4 DEF Numbered
  <2>12. ASSUME NEW y \in Live(accountAttempts', e)
         PROVE  Counted(e, y)'
    <3>1. PICK x \in accountAttempts :
            x.key = e /\ y.count = x.count /\ x.left > 0 /\ y.left + 1 = x.left /\ y.left > 0
            /\ x.left \in 1 .. W /\ y.left \in Nat
      <4>1. PICK x \in accountAttempts : y.key = x.key /\ y.count = x.count
                 /\ y.left = Later(x.left)
        BY <1>2 DEF Live
      <4>2. x.left \in 0 .. W
        BY DEF ThrottleInv, ThrottleTypeOK, Counters
      <4>3. y.key = e /\ y.left > 0
        BY DEF Live
      <4>4. x.left # 0
        BY <4>1, <4>3 DEF Later
      <4>5. x.left \in 1 .. W /\ x.left > 0
        BY <4>2, <4>4, ThrottleAssumption
      <4>6. y.left = x.left - 1
        BY <4>1, <4>4 DEF Later
      <4>7. y.left + 1 = x.left /\ y.left \in Nat
        BY <4>5, <4>6, ThrottleAssumption
      <4> QED BY <4>1, <4>3, <4>5, <4>7
    <3>2. Counted(e, x)
      BY <2>7, <3>1 DEF EmailInv, Live
    <3>3. Since(e, x) \subseteq stay
      BY <2>1, <3>1, ThrottleAssumption DEF Since
    <3>4. Since(e, y)' = {older[f] : f \in Since(e, x) \cap stay}
      <4>1. ASSUME NEW f \in stay
            PROVE  older[f].age <= W - y.left <=> f.age <= W - x.left
        BY <2>1, <2>2, <3>1, ThrottleAssumption
      <4>2. Since(e, y)' = {g \in recent'[e] : g.age <= W - y.left}
        BY DEF Since
      <4> HIDE DEF stay
      <4> QED BY <2>3, <2>6, <4>1, <4>2 DEF Since
    <3>5. Cardinality(Since(e, y)') = y.count
      <4>1. Since(e, x) \subseteq recent[e]
        BY DEF Since
      <4> QED BY <2>9, <3>1, <3>2, <3>3, <3>4, <4>1 DEF Counted
    <3>6. \E g \in Since(e, y)' : g.age = W - y.left
      <4>1. PICK f \in Since(e, x) : f.age = W - x.left
        BY <3>2 DEF Counted
      <4>2. older[f].age = W - y.left
        BY <2>2, <3>1, <4>1, ThrottleAssumption DEF Since
      <4> QED BY <3>3, <3>4, <4>2
    <3>7. Cardinality(recent'[e] \ Since(e, y)') + 2 <= Limit
      <4>1. recent'[e] \ Since(e, y)' = {older[f] : f \in (recent[e] \ Since(e, x)) \cap stay}
        BY <2>3, <2>5, <2>6, <3>4
      <4>2. /\ Cardinality(recent'[e] \ Since(e, y)') <= Cardinality(recent[e] \ Since(e, x))
            /\ Cardinality(recent'[e] \ Since(e, y)') \in Nat
            /\ Cardinality(recent[e] \ Since(e, x)) \in Nat
        BY <2>9, <4>1
      <4> QED BY <3>2, <4>2, FlightsFinite, ThrottleAssumption DEF Counted
    <3>8. y.count + Cardinality(Flights(e)') + 1 <= Limit
      BY <1>1, <3>1, <3>2 DEF Counted, Flights
    <3> QED BY <3>5, <3>6, <3>7, <3>8 DEF Counted
  <2>13. ASSUME Live(accountAttempts', e) = {}
         PROVE  Cardinality(recent'[e]) + 2 <= Limit
    <3>1. CASE Live(accountAttempts, e) = {}
      BY <2>7, <2>10, <3>1, FlightsFinite, ThrottleAssumption DEF EmailInv
    <3>2. CASE Live(accountAttempts, e) # {}
      <4>1. PICK x \in accountAttempts : x.key = e /\ x.left > 0
        BY <3>2 DEF Live
      <4>2. x.left = 1
        <5>1. PICK y \in accountAttempts' :
                y.key = x.key /\ y.left = Later(x.left)
          BY <1>2
        <5>2. ~(y.left > 0)
          BY <2>13, <4>1, <5>1 DEF Live
        <5>3. x.left \in 0 .. W
          BY DEF ThrottleInv, ThrottleTypeOK, Counters
        <5> QED BY <4>1, <5>1, <5>2, <5>3, ThrottleAssumption DEF Later
      <4>3. Counted(e, x)
        BY <2>7, <4>1 DEF EmailInv, Live
      <4>4. Since(e, x) = recent[e]
        BY <2>1, <4>2, ThrottleAssumption DEF Since
      <4>5. PICK f \in recent[e] : f.age = W - 1
        BY <4>2, <4>3, <4>4 DEF Counted
      <4>6. f \notin stay
        BY <4>5, ThrottleAssumption
      <4>7. recent'[e] = {older[g] : g \in (recent[e] \ {f}) \cap stay}
        BY <2>3, <2>6, <4>6
      <4>8. /\ Cardinality(recent'[e]) <= Cardinality(recent[e] \ {f})
            /\ Cardinality(recent'[e]) \in Nat /\ Cardinality(recent[e] \ {f}) \in Nat
        BY <2>9, <4>7
      <4>9. Cardinality(recent[e] \ {f}) = x.count - 1 /\ Cardinality(recent[e]) \in Nat
        <5>1. Cardinality(recent[e]) = x.count
          BY <4>3, <4>4 DEF Counted
        <5> QED BY <2>7, <4>5, <5>1, FS_RemoveElement, FS_CardinalityType
      <4> QED BY <4>3, <4>4, <4>8, <4>9, FlightsFinite, ThrottleAssumption DEF Counted
    <3> QED BY <3>1, <3>2
  <2>14. \A f \in recent'[e] : f \in Failure /\ f.age # 0
    BY <2>3, <2>4
  <2> QED BY <2>10, <2>11, <2>12, <2>13, <2>14 DEF EmailInv
<1>5. ThrottleTypeOK'
  <2>1. DOMAIN recent' = Emails
    BY <1>1
  <2> QED BY <1>1, <1>2, <1>3, <1>4, <2>1 DEF ThrottleInv, ThrottleTypeOK, CounterMap, OneEach
<1>6. IsFiniteSet(loginAttempts') /\ IsFiniteSet(accountAttempts')
  BY <1>2, <1>3 DEF CounterMap
<1> QED BY <1>4, <1>5, <1>6 DEF ThrottleInv

LEMMA CountsInit == ThrottleInit => ThrottleInv
<1> SUFFICES ASSUME ThrottleInit PROVE ThrottleInv
  OBVIOUS
<1>1. Limit \in Nat /\ Limit >= 2
  BY FlightsFinite, ThrottleAssumption
<1>2. ASSUME NEW e \in Emails
      PROVE  EmailInv(e)
  BY <1>1, FS_EmptySet DEF ThrottleInit, EmailInv, Numbered, Live
<1> QED BY <1>2, FS_EmptySet DEF ThrottleInit, ThrottleInv, ThrottleTypeOK

LEMMA CountsStep == ThrottleInv /\ [ThrottleNext]_throttleVars => ThrottleInv'
<1> SUFFICES ASSUME ThrottleInv, [ThrottleNext]_throttleVars PROVE ThrottleInv'
  OBVIOUS
<1>1. ASSUME NEW p \in Procs, NEW e \in Emails, NEW ip \in Ips, checkLoginThrottle(p, e, ip)
      PROVE  ThrottleInv'
  BY <1>1, CheckKeepsCounts
<1>2. ASSUME NEW p \in Procs, recordFailedLogin(p)
      PROVE  ThrottleInv'
  BY <1>2, RecordKeepsCounts
<1>3. ASSUME NEW p \in Procs, clearLoginThrottle(p)
      PROVE  ThrottleInv'
  BY <1>3, ClearKeepsCounts
<1>4. CASE ThrottleTick
  BY <1>4, TickKeepsCounts
<1>5. CASE ForgetAll
  BY <1>5, RestartKeepsCounts
<1>6. CASE UNCHANGED throttleVars
  <2>1. /\ attempt' = attempt /\ loginAttempts' = loginAttempts
        /\ accountAttempts' = accountAttempts /\ recent' = recent
    BY <1>6 DEF throttleVars
  <2>2. ASSUME NEW e \in Emails
        PROVE  EmailInv(e)'
    <3>1. EmailInv(e)
      BY DEF ThrottleInv
    <3> QED BY <2>1, <3>1 DEF EmailInv, Numbered, Live, Counted, Since, Flights
  <2> QED BY <2>1, <2>2 DEF ThrottleInv, ThrottleTypeOK
<1> QED BY <1>1, <1>2, <1>3, <1>4, <1>5, <1>6 DEF ThrottleNext

\* Whatever the requests, and however they overlap, the counters are numbers of
\* failures in windows that are not longer than they may be, one for each e-mail.
THEOREM ThrottleTypes == ThrottleSpec => []ThrottleTypeOK
<1>1. ThrottleInv => ThrottleTypeOK
  BY DEF ThrottleInv
<1> QED BY <1>1, CountsInit, CountsStep, PTL DEF ThrottleSpec

\* In any window the failures of one e-mail stay below twice the sum of its limit and
\* the other requests in flight: what the live entry has counted, with every request
\* that came in before the limit was reached, and as much from the window before.
THEOREM FailuresAreBounded == ThrottleSpec => []FailuresBounded
<1>1. ASSUME ThrottleInv, NEW e \in Emails
      PROVE  Cardinality(recent[e]) < 2 * (ACCOUNT_THROTTLE_MAX + Cardinality(Procs) - 1)
  <2>1. EmailInv(e) /\ IsFiniteSet(recent[e])
    BY <1>1 DEF ThrottleInv, EmailInv
  <2>2. Cardinality(recent[e]) \in Nat /\ Cardinality(Procs) \in Nat
        /\ Limit = ACCOUNT_THROTTLE_MAX + Cardinality(Procs) /\ Limit \in Nat /\ Limit >= 2
    BY <2>1, ThrottleAssumption, FS_CardinalityType, FlightsFinite DEF Limit
  <2>3. CASE Live(accountAttempts, e) = {}
    BY <2>1, <2>2, <2>3, ThrottleAssumption DEF EmailInv
  <2>4. CASE Live(accountAttempts, e) # {}
    <3>1. PICK x \in Live(accountAttempts, e) : Counted(e, x)
      BY <2>1, <2>4 DEF EmailInv
    <3>2. /\ IsFiniteSet(Since(e, x)) /\ Cardinality(Since(e, x)) \in Nat
          /\ IsFiniteSet(recent[e] \ Since(e, x))
          /\ Cardinality(recent[e] \ Since(e, x)) \in Nat
      BY <2>1, SinceFinite
    <3>3. Since(e, x) \subseteq recent[e] /\ recent[e] \cap Since(e, x) = Since(e, x)
      BY DEF Since
    <3>4. Cardinality(recent[e] \ Since(e, x)) = Cardinality(recent[e]) - Cardinality(Since(e, x))
      BY <2>1, <3>3, FS_Difference
    <3>5. Cardinality(Flights(e)) \in Nat
      BY FlightsFinite, ThrottleAssumption
    <3>6. Cardinality(Since(e, x)) + 1 <= Limit
      BY <2>2, <3>1, <3>2, <3>5 DEF Counted
    <3>7. Cardinality(recent[e] \ Since(e, x)) + 2 <= Limit
      BY <3>1 DEF Counted
    <3> QED BY <2>2, <3>2, <3>4, <3>6, <3>7, ThrottleAssumption
  <2> QED BY <2>3, <2>4
<1>2. ThrottleInv => FailuresBounded
  BY <1>1 DEF FailuresBounded
<1> QED BY <1>2, CountsInit, CountsStep, PTL DEF ThrottleSpec

-----------------------------------------------------------------------------
(* The access to the panel: each of its parts does what its own            *)
(* specification lets it do.                                               *)

LEMMA AccessInit ==
  Init => ThrottleInit /\ SessionInit /\ SetupInit /\ PanelInit /\ RowInit
BY DEF Init

LEMMA AccessStep ==
  [Next]_accessVars =>
    /\ [ThrottleNext]_throttleVars /\ [SessionNext]_sessionVars
    /\ [SetupNext]_setupVars /\ [PanelNext]_panelVars /\ [RowNext]_rowVars
<1>1. CASE AtForm(ThrottleNext)
  BY <1>1 DEF AtForm
<1>2. CASE AtSession(SessionNext)
  BY <1>2 DEF AtSession
<1>3. CASE AtSetup(SetupNext)
  BY <1>3 DEF AtSetup
<1>4. CASE AtMe(PanelNext)
  BY <1>4 DEF AtMe
<1>5. CASE AtUser(RowNext)
  BY <1>5 DEF AtUser
<1>6. CASE UNCHANGED accessVars
  BY <1>6 DEF accessVars
<1> QED BY <1>1, <1>2, <1>3, <1>4, <1>5, <1>6 DEF Next

LEMMA AccessIsItsParts ==
  Spec => ThrottleSpec /\ SessionSpec /\ SetupSpec /\ PanelSpec /\ RowSpec
BY AccessInit, AccessStep, PTL
   DEF Spec, ThrottleSpec, SessionSpec, SetupSpec, PanelSpec, RowSpec

\* All variables of the access to the panel keep their types, whichever part moves,
\* for any users, requests, forms, commands and bounds.
THEOREM AccessTypeCorrect == Spec => []TypeOK
<1>1. RowInv => RowTypeOK
  BY DEF RowInv
<1>2. RowSpec => []RowTypeOK
  BY <1>1, RowInvInit, ButtonsStep, PTL DEF RowSpec
<1>3. ThrottleTypeOK /\ SessionTypeOK /\ SetupTypeOK /\ PanelTypeOK /\ RowTypeOK => TypeOK
  BY DEF TypeOK
<1> QED
  BY <1>2, <1>3, AccessIsItsParts, ThrottleTypes, SessionsTypeCorrect, SetupTypeCorrect,
     PanelTypeCorrect, PTL

\* What is proved of the parts holds of the access to the panel: guesses are bounded,
\* a replaced password lets nobody in, the first owner stays alone, and the wizard,
\* if no answer came late to it, and the buttons tell the truth.
THEOREM AccessCorrect ==
  Spec => [](FailuresBounded /\ OldPasswordsHeld /\ FirstOwnerSafe /\ WizardTruthful /\ RowHonest)
BY AccessIsItsParts, FailuresAreBounded, OldPasswordsHeldHolds, FirstOwnerSafeHolds,
   WizardTruthfulHolds, RowHonestHolds, PTL
=============================================================================
