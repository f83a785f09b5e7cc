---------------------------- MODULE LoginThrottle ----------------------------
(***************************************************************************)
(* The attempt counters of the sign-in form, apps/api/src/app.ts.  A       *)
(* JavaScript Map keeps its keys in the order they were inserted, and the  *)
(* cap on its size drops the first: a map is a set of entries, and each    *)
(* knows its place in that order.  An entry holds the ticks left until its *)
(* resetAt instead of the instant.                                         *)
(*                                                                         *)
(* attempt[p] is a request to POST /login between the check of the         *)
(* counters and the answer of Better Auth, which takes a password hash.    *)
(***************************************************************************)
EXTENDS Naturals, FiniteSets

CONSTANTS Emails,   \* addresses that are tried, with or without an account
          Ips,      \* first hops of X-Forwarded-For
          Procs,    \* requests in flight at once
          LOGIN_THROTTLE_MAX, LOGIN_THROTTLE_WINDOW,
          ACCOUNT_THROTTLE_MAX, ACCOUNT_THROTTLE_WINDOW,
          LOGIN_THROTTLE_MAX_KEYS  \* size of a map after a prune

ASSUME ThrottleAssumption ==
    /\ LOGIN_THROTTLE_MAX_KEYS \in Nat \ {0} /\ LOGIN_THROTTLE_WINDOW \in Nat \ {0}
    /\ ACCOUNT_THROTTLE_MAX \in Nat \ {0} /\ ACCOUNT_THROTTLE_WINDOW \in Nat \ {0}
    /\ IsFiniteSet(Procs) /\ Procs # {}

VARIABLES
    attempt,                         \* the sign-in each process is awaiting
    loginAttempts, accountAttempts,  \* the two maps
    recent      \* history: the failures of each e-mail in the last window, since it was
                \* forgotten, by age and number

throttleVars == <<attempt, loginAttempts, accountAttempts, recent>>

Entry(k, n, c, t) == [key |-> k, at |-> n, count |-> c, left |-> t]

Keys(m) == {x.key : x \in m}

\* The places without the gaps that deleted keys have left.
Ranked(m) == {[x EXCEPT !.at = Cardinality({y \in m : y.at <= x.at})] : x \in m}

\* Lapsed entries go, then the oldest until the map is within its cap.
pruneAttempts(m) ==
    LET live == {x \in m : x.left > 0}
    IN  Ranked({x \in live :
                  Cardinality({y \in live : y.at > x.at}) < LOGIN_THROTTLE_MAX_KEYS})

attemptsOver(m, k, max) ==
    \E x \in m : x.key = k /\ x.left > 0 /\ x.count >= max

\* MUTANT: a lapsed entry is left where it is, and a new one goes to the end.
bumpAttempts_appends(m, k, window) ==
    IF \E x \in m : x.key = k /\ x.left > 0
    THEN {IF x.key = k THEN [x EXCEPT !.count = @ + 1] ELSE x : x \in m}
    ELSE m \cup {Entry(k, Cardinality(m) + 1, 1, window)}

\* A live entry counts on in its window; a lapsed one starts again in its place.
bumpAttempts(m, k, window) ==
    IF k \notin Keys(m)
    THEN m \cup {Entry(k, Cardinality(m) + 1, 1, window)}
    ELSE {IF x.key # k THEN x
          ELSE IF x.left = 0 THEN Entry(k, x.at, 1, window)
          ELSE [x EXCEPT !.count = @ + 1] : x \in m}

Cleared(m, k) == Ranked({x \in m : x.key # k})

\* One tick of the clock.
Aged(m) == {[x EXCEPT !.left = IF @ = 0 THEN 0 ELSE @ - 1] : x \in m}

-----------------------------------------------------------------------------
NoAttempt == [email |-> "none"]

Counters(keys, window) == [key : keys, at : Nat \ {0}, count : Nat \ {0}, left : 0..window]

Failure == [age : 0..(ACCOUNT_THROTTLE_WINDOW - 1), nr : Nat \ {0}]

ThrottleTypeOK ==
    /\ attempt \in [Procs -> {NoAttempt} \cup [email : Emails, ip : Ips]]
    /\ \A x \in loginAttempts : x \in Counters(Ips, LOGIN_THROTTLE_WINDOW)
    /\ \A x \in accountAttempts : x \in Counters(Emails, ACCOUNT_THROTTLE_WINDOW)
    /\ \A x, y \in accountAttempts : x.key = y.key => x = y
    /\ DOMAIN recent = Emails /\ \A e \in Emails : \A f \in recent[e] : f \in Failure

ThrottleInit ==
    /\ attempt = [p \in Procs |-> NoAttempt]
    /\ loginAttempts = {} /\ accountAttempts = {}
    /\ recent = [e \in Emails |-> {}]

\* E-mails whose counter a prune drops although its window is not over.
Dropped == Keys({x \in accountAttempts : x.left > 0}) \ Keys(pruneAttempts(accountAttempts))

Forget(E) == recent' = [e \in Emails |-> IF e \in E THEN {} ELSE recent[e]]

Remember(e) ==
    LET now == {f \in recent[e] : f.age = 0}
    IN  recent' = [recent EXCEPT ![e] = @ \cup {[age |-> 0, nr |-> Cardinality(now) + 1]}]

\* MUTANT: an attempt that is refused renews the lock.
checkLoginThrottle_renews(p, e, ip) ==
    LET byEmail == pruneAttempts(accountAttempts)
    IN  /\ attempt[p] = NoAttempt
        /\ loginAttempts' = pruneAttempts(loginAttempts)
        /\ IF attemptsOver(byEmail, e, ACCOUNT_THROTTLE_MAX)
           THEN /\ accountAttempts' =
                     {IF x.key = e THEN [x EXCEPT !.left = ACCOUNT_THROTTLE_WINDOW]
                      ELSE x : x \in byEmail}
                /\ UNCHANGED attempt
           ELSE /\ accountAttempts' = byEmail
                /\ attempt' = [attempt EXCEPT ![p] = [email |-> e, ip |-> ip]]
        /\ Forget(Dropped)

\* Both maps are pruned, whatever the answer.
checkLoginThrottle(p, e, ip) ==
    LET byIp    == pruneAttempts(loginAttempts)
        byEmail == pruneAttempts(accountAttempts)
        blocked == \/ attemptsOver(byIp, ip, LOGIN_THROTTLE_MAX)
                   \/ attemptsOver(byEmail, e, ACCOUNT_THROTTLE_MAX)
    IN  /\ attempt[p] = NoAttempt
        /\ loginAttempts' = byIp /\ accountAttempts' = byEmail
        /\ attempt' = IF blocked THEN attempt
                      ELSE [attempt EXCEPT ![p] = [email |-> e, ip |-> ip]]
        /\ Forget(Dropped)

\* MUTANT: only the counter of the address is advanced.
recordFailedLogin_ip(p) ==
    /\ attempt[p] # NoAttempt
    /\ loginAttempts' = bumpAttempts(loginAttempts, attempt[p].ip, LOGIN_THROTTLE_WINDOW)
    /\ Remember(attempt[p].email)
    /\ attempt' = [attempt EXCEPT ![p] = NoAttempt]
    /\ UNCHANGED accountAttempts

\* Better Auth refuses: wrong password, unknown e-mail, disabled, its own limit.
recordFailedLogin(p) ==
    /\ attempt[p] # NoAttempt
    /\ loginAttempts' = bumpAttempts(loginAttempts, attempt[p].ip, LOGIN_THROTTLE_WINDOW)
    /\ accountAttempts' =
         bumpAttempts(accountAttempts, attempt[p].email, ACCOUNT_THROTTLE_WINDOW)
    /\ Remember(attempt[p].email)
    /\ attempt' = [attempt EXCEPT ![p] = NoAttempt]

clearLoginThrottle(p) ==
    /\ attempt[p] # NoAttempt
    /\ loginAttempts' = Cleared(loginAttempts, attempt[p].ip)
    /\ accountAttempts' = Cleared(accountAttempts, attempt[p].email)
    /\ Forget({attempt[p].email})
    /\ attempt' = [attempt EXCEPT ![p] = NoAttempt]

ThrottleTick ==
    /\ loginAttempts' = Aged(loginAttempts)
    /\ accountAttempts' = Aged(accountAttempts)
    /\ recent' = [e \in Emails |->
                    {[f EXCEPT !.age = @ + 1] :
                       f \in {g \in recent[e] : g.age + 1 < ACCOUNT_THROTTLE_WINDOW}}]
    /\ UNCHANGED attempt

\* The maps are in the memory of the API.
ForgetAll ==
    /\ attempt' = [p \in Procs |-> NoAttempt]
    /\ loginAttempts' = {} /\ accountAttempts' = {}
    /\ Forget(Emails)

ThrottleNext ==
    \/ \E p \in Procs, e \in Emails, ip \in Ips : checkLoginThrottle(p, e, ip)
    \/ \E p \in Procs : recordFailedLogin(p) \/ clearLoginThrottle(p)
    \/ ThrottleTick
    \/ ForgetAll

ThrottleSpec == ThrottleInit /\ [][ThrottleNext]_throttleVars

-----------------------------------------------------------------------------
(* However the requests overlap and whichever addresses they come from: in *)
(* any stretch as long as the window, the failures of one e-mail stay      *)
(* below twice the sum of its limit and the other requests in flight,      *)
(* until a success, the cap on keys or a restart forgets them.             *)
FailuresBounded ==
    \A e \in Emails :
        Cardinality(recent[e]) < 2 * (ACCOUNT_THROTTLE_MAX + Cardinality(Procs) - 1)

(* A lock is over some time, however often it is run into meanwhile.       *)
LockEnds ==
    \A e \in Emails :
        attemptsOver(accountAttempts, e, ACCOUNT_THROTTLE_MAX)
            ~> ~attemptsOver(accountAttempts, e, ACCOUNT_THROTTLE_MAX)
=============================================================================
