--------------------------- MODULE TwoFactorPanel ---------------------------
(***************************************************************************)
(* The two-factor panel of the page /me: a wizard that sets two-factor up  *)
(* (password, QR code and first code, done) and one that disables it.      *)
(* Closing the first resets it 200 ms later, whatever it still waits for;  *)
(* its server actions go on, are sent one after the other, and their       *)
(* answers are taken by whatever the wizard shows by then.  The account is *)
(* shared with the user's other browsers.                                  *)
(***************************************************************************)
EXTENDS Naturals, Sequences

CONSTANTS
  MaxSecrets,   \* bound: secrets ever made for the account
  MaxQueue      \* bound: server actions waiting for their turn

ASSUME PanelAssumption == MaxSecrets \in Nat \ {0} /\ MaxQueue \in Nat \ {0}

VARIABLES
  account,   \* the secret stored, 0 for none, and user.twoFactorEnabled
  made,      \* how many secrets there have been
  page,      \* `enabled` as /me was rendered with
  enroll,    \* the EnrollWizard: open, step, its secret, pending, err, the close timer;
             \* history: late, closed when an answer came for it
  disable,   \* the DisableWizard: open, pending
  queue,     \* the server actions dispatched, in their order
  own        \* history: this browser was the last to change the account

panelVars == <<account, made, page, enroll, disable, queue, own>>

Kinds == {"enable", "verify", "disable"}
Results == {"none", "ok", "refused"}

PanelTypeOK ==
  /\ account \in [secret : 0..MaxSecrets, enabled : BOOLEAN]
  /\ made \in 0..MaxSecrets
  /\ page \in BOOLEAN
  /\ enroll \in [open : BOOLEAN, step : {"password", "scan", "done"}, secret : 0..MaxSecrets,
                 pending : BOOLEAN, err : BOOLEAN, closing : BOOLEAN,
                 late : BOOLEAN]
  /\ disable \in [open : BOOLEAN, pending : BOOLEAN]
  /\ queue \in Seq([kind : Kinds, secret : 0..MaxSecrets, result : Results])
  /\ own \in BOOLEAN

FirstStep(open, late) ==
  [open |-> open, step |-> "password", secret |-> 0, pending |-> FALSE, err |-> FALSE,
   closing |-> FALSE, late |-> late]

NewEnroll == FirstStep(FALSE, FALSE)
NewDisable == [open |-> FALSE, pending |-> FALSE]

PanelInit ==
  /\ account = [secret |-> 0, enabled |-> FALSE]
  /\ made = 0
  /\ page = FALSE
  /\ enroll = NewEnroll
  /\ disable = NewDisable
  /\ queue = <<>>
  /\ own = TRUE

Dispatch(kind, secret) ==
  /\ Len(queue) < MaxQueue
  /\ queue' = Append(queue, [kind |-> kind, secret |-> secret, result |-> "none"])

-----------------------------------------------------------------------------
(* The user in front of the page.                                          *)

\* One of two buttons, by what the page was rendered with.
OpenEnroll ==
  /\ ~page /\ ~enroll.open /\ ~disable.open
  /\ enroll' = [enroll EXCEPT !.open = TRUE]
  /\ UNCHANGED <<account, made, page, disable, queue, own>>

OpenDisable ==
  /\ page /\ ~enroll.open /\ ~disable.open
  /\ disable' = [disable EXCEPT !.open = TRUE]
  /\ UNCHANGED <<account, made, page, enroll, queue, own>>

close ==
  /\ enroll.open
  /\ enroll' = [enroll EXCEPT !.open = FALSE, !.closing = TRUE]
  /\ UNCHANGED <<account, made, page, disable, queue, own>>

\* The timer of close().
ResetWizard ==
  /\ enroll.closing
  /\ enroll' = FirstStep(enroll.open, enroll.late /\ queue # <<>>)
  /\ UNCHANGED <<account, made, page, disable, queue, own>>

\* Nobody types a password in the 200 ms of the timer.
submitPassword ==
  /\ enroll.open /\ enroll.step = "password" /\ ~enroll.pending /\ ~enroll.closing
  /\ enroll' = [enroll EXCEPT !.pending = TRUE, !.err = FALSE]
  /\ Dispatch("enable", 0)
  /\ UNCHANGED <<account, made, page, disable, own>>

\* A code of the secret shown, or a mistyped one.
submitCode ==
  /\ enroll.open /\ enroll.step = "scan" /\ ~enroll.pending /\ ~enroll.closing
  /\ enroll' = [enroll EXCEPT !.pending = TRUE, !.err = FALSE]
  /\ \E code \in {0, enroll.secret} : Dispatch("verify", code)
  /\ UNCHANGED <<account, made, page, disable, own>>

submitDisable ==
  /\ disable.open /\ ~disable.pending /\ ~enroll.closing
  /\ disable' = [disable EXCEPT !.pending = TRUE]
  /\ Dispatch("disable", 0)
  /\ UNCHANGED <<account, made, page, enroll, own>>

\* The dialog closes, and what it waits for goes on.
CloseDisable ==
  /\ disable.open
  /\ disable' = [disable EXCEPT !.open = FALSE]
  /\ UNCHANGED <<account, made, page, enroll, queue, own>>

-----------------------------------------------------------------------------
(* The account, and what the API does to it.                               *)

\* A new secret replaces the one there is; two-factor is on from the first code
\* of it that is right.
Enabled(a) == [secret |-> made + 1, enabled |-> a.enabled]

\* The first of the queue is at the API.  `secret` of the answer is that of the
\* URI it carries.
Serve ==
  /\ queue # <<>> /\ Head(queue).result = "none"
  /\ LET job == Head(queue)
         answer(result, secret) ==
           queue' = [queue EXCEPT ![1] = [job EXCEPT !.result = result, !.secret = secret]]
     IN  \/ \* the wrong password, or a session that has ended
            /\ answer("refused", 0)
            /\ UNCHANGED <<account, made, own>>
         \/ /\ job.kind = "enable" /\ made < MaxSecrets
            /\ account' = Enabled(account) /\ made' = made + 1 /\ own' = TRUE
            /\ answer("ok", made + 1)
         \/ /\ job.kind = "verify" /\ job.secret # 0 /\ job.secret = account.secret
            /\ account' = [account EXCEPT !.enabled = TRUE] /\ own' = TRUE
            /\ answer("ok", 0)
            /\ UNCHANGED made
         \/ /\ job.kind = "disable"
            /\ account' = [secret |-> 0, enabled |-> FALSE] /\ own' = TRUE
            /\ answer("ok", 0)
            /\ UNCHANGED made
  /\ UNCHANGED <<page, enroll, disable>>

\* Another browser of the user.
Elsewhere ==
  /\ \/ made < MaxSecrets /\ made' = made + 1 /\ account' = Enabled(account)
     \/ account' = [secret |-> 0, enabled |-> FALSE] /\ UNCHANGED made
     \/ account.secret # 0 /\ account' = [account EXCEPT !.enabled = TRUE] /\ UNCHANGED made
  /\ own' = FALSE
  /\ UNCHANGED <<page, enroll, disable, queue>>

-----------------------------------------------------------------------------
(* The answers.  That of a success on /me brings the page rendered anew.   *)

Answered(kind) == queue # <<>> /\ Head(queue).kind = kind /\ Head(queue).result # "none"
Ok == Head(queue).result = "ok"

EnableAnswered ==
  /\ Answered("enable")
  /\ enroll' = IF Ok
               THEN [enroll EXCEPT !.pending = FALSE, !.step = "scan", !.secret = Head(queue).secret,
                                     !.late = @ \/ ~enroll.open]
               ELSE [enroll EXCEPT !.pending = FALSE, !.err = TRUE]
  /\ queue' = Tail(queue)
  /\ UNCHANGED <<account, made, page, disable, own>>

\* MUTANT: the answer is not looked at.
VerifyAnswered_unchecked ==
  /\ Answered("verify")
  /\ enroll' = [enroll EXCEPT !.pending = FALSE, !.step = "done", !.secret = 0,
                                     !.late = @ \/ ~enroll.open]
  /\ page' = account.enabled
  /\ queue' = Tail(queue)
  /\ UNCHANGED <<account, made, disable, own>>

VerifyAnswered ==
  /\ Answered("verify")
  /\ IF Ok
     THEN /\ enroll' = [enroll EXCEPT !.pending = FALSE, !.step = "done", !.secret = 0,
                                     !.late = @ \/ ~enroll.open]
          /\ page' = account.enabled
     ELSE /\ enroll' = [enroll EXCEPT !.pending = FALSE, !.err = TRUE]
          /\ UNCHANGED page
  /\ queue' = Tail(queue)
  /\ UNCHANGED <<account, made, disable, own>>

DisableAnswered ==
  /\ Answered("disable")
  /\ disable' = [pending |-> FALSE, open |-> disable.open /\ ~Ok]
  /\ page' = IF Ok THEN account.enabled ELSE page
  /\ queue' = Tail(queue)
  /\ UNCHANGED <<account, made, enroll, own>>

\* The page is loaded again, at will or after an action that threw.  What it
\* waited for may still be done, and it is not told: Elsewhere.
Reload ==
  /\ page' = account.enabled
  /\ enroll' = NewEnroll /\ disable' = NewDisable /\ queue' = <<>>
  /\ UNCHANGED <<account, made, own>>

PanelNext ==
  \/ OpenEnroll \/ OpenDisable \/ close \/ ResetWizard
  \/ submitPassword \/ submitCode \/ submitDisable \/ CloseDisable
  \/ Serve \/ Elsewhere
  \/ EnableAnswered \/ VerifyAnswered \/ DisableAnswered \/ Reload

PanelSpec == PanelInit /\ [][PanelNext]_panelVars

-----------------------------------------------------------------------------
(* Properties.                                                             *)

\* Whenever nothing is under way and no other browser has interfered, the wizard
\* that is open tells the truth, however often it was closed, opened and sent
\* before: the QR code is that of the stored secret, and "enabled" is said of an
\* account that has two-factor.  Except after an answer came to the closed wizard
\* and until it is next reset with nothing under way.
WizardTruthful ==
  queue = <<>> /\ own /\ enroll.open /\ ~enroll.closing /\ ~enroll.late =>
    /\ enroll.step = "scan" => enroll.secret = account.secret
    /\ enroll.step = "done" => account.enabled
=============================================================================
