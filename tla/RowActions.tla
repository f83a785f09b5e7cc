----------------------------- MODULE RowActions -----------------------------
(***************************************************************************)
(* The buttons of one user (or one proxy account) in the admin web: the    *)
(* hook useImperativeAction keeps one message and one timer, the server    *)
(* action sends a command by name, and the page shows what the last render *)
(* read.  Other administrators change the same user.                       *)
(***************************************************************************)
EXTENDS Naturals, Sequences

CONSTANT MaxSent   \* bound: server actions waiting for their turn

ASSUME RowAssumption == MaxSent \in Nat \ {0}

VARIABLES
  user,    \* its status in the database: active, disabled, deleted
  entry,   \* of the page: what it shows, pending, msg, timer
  sent,    \* the server actions dispatched, the first of them under way
  last,    \* history: the last answer of its buttons
  known    \* history: the last write of the user was one this page was told of

rowVars == <<user, entry, sent, last, known>>

Status == {"active", "disabled"}
RowCommands == {"enable", "disable", "reset-password", "delete", "save"}

RowTypeOK ==
  /\ user \in Status \cup {"deleted"}
  /\ entry \in [shown : Status, pending : BOOLEAN, msg : {"none", "ok", "error"},
              timer : BOOLEAN, typed : BOOLEAN, open : BOOLEAN]
  /\ sent \in Seq([command : RowCommands, to : Status, at : {"session", "command", "ok", "error"}])
  /\ last \in {"none", "ok", "error"}
  /\ known \in BOOLEAN

\* UserDetail: the page and its form, rendered with the user.
Opened(status) ==
  [shown |-> status, pending |-> FALSE, msg |-> "none", timer |-> FALSE,
   typed |-> FALSE, open |-> TRUE]

RowInit ==
  /\ user \in Status
  /\ entry = Opened(user)
  /\ sent = <<>>
  /\ last = "none"
  /\ known = TRUE

-----------------------------------------------------------------------------
(* The hook, and the buttons that use it.                                  *)

\* MUTANT: the message goes, and the timer of an earlier success stays.
clear_message(r) == [r EXCEPT !.msg = "none"]

clear(r) == [r EXCEPT !.msg = "none", !.timer = FALSE]

Send(command, to) ==
  /\ Len(sent) < MaxSent
  /\ sent' = Append(sent, [command |-> command, to |-> to, at |-> "session"])

\* A button is off while an action is pending; one command each, by name.
run ==
  /\ entry.open /\ ~entry.pending
  /\ \E command \in {IF entry.shown = "active" THEN "disable" ELSE "enable", "delete"}
                    \cup (IF entry.typed THEN {"reset-password"} ELSE {}) :
       Send(command, entry.shown)
  /\ entry' = [clear(entry) EXCEPT !.pending = TRUE]
  /\ UNCHANGED <<user, last, known>>

\* Twelve characters of a temporary password.
TypePassword ==
  /\ entry.open /\ ~entry.typed
  /\ entry' = [entry EXCEPT !.typed = TRUE]
  /\ UNCHANGED <<user, sent, last, known>>

\* "Save user": the whole form, the status in it as it once was rendered, or chosen.
Save ==
  /\ entry.open
  /\ \E status \in Status : Send("save", status)
  /\ UNCHANGED <<user, entry, last, known>>

TimerFires ==
  /\ entry.timer
  /\ entry' = [entry EXCEPT !.msg = "none", !.timer = FALSE]
  /\ UNCHANGED <<user, sent, last, known>>

-----------------------------------------------------------------------------
(* The server action: the session and its CSRF token, then the command.    *)

At(point) == sent # <<>> /\ Head(sent).at = point
To(points) == \E point \in points : sent' = [sent EXCEPT ![1].at = point]

\* No session (the redirect to /login is caught and becomes a message), no
\* answer, or an answer that breaks the schema.
getSession ==
  /\ At("session")
  /\ To({"command", "error"})
  /\ UNCHANGED <<user, entry, last, known>>

\* What the API makes of the user.
After(job) ==
  CASE job.command = "enable" -> "active"
    [] job.command = "disable" -> "disabled"
    [] job.command = "delete" -> "deleted"
    [] job.command = "save" -> job.to
    [] OTHER -> user

\* It may refuse (a permission, the last owner), and its answer may be lost.
userCommand ==
  /\ At("command")
  /\ \/ To({"error"}) /\ UNCHANGED <<user, known>>
     \/ /\ user # "deleted"
        /\ user' = After(Head(sent))
        /\ \/ To({"ok"}) /\ known' = TRUE
           \/ To({"error"}) /\ known' = FALSE
  /\ UNCHANGED <<entry, last>>

\* Another administrator.
SomebodyElse ==
  /\ user # "deleted"
  /\ user' \in Status \cup {"deleted"}
  /\ known' = FALSE
  /\ UNCHANGED <<entry, sent, last>>

-----------------------------------------------------------------------------
(* The answer.  With a success comes the page rendered anew, but not the   *)
(* form and the hook's state; after a delete the list of users.            *)

Revalidated(r) ==
  IF user = "deleted" THEN [r EXCEPT !.open = FALSE] ELSE [r EXCEPT !.shown = user]

RunAnswered ==
  /\ At("ok") \/ At("error")
  /\ Head(sent).command # "save"
  /\ entry' = IF At("ok")
            THEN Revalidated([entry EXCEPT !.pending = FALSE, !.msg = "ok", !.timer = TRUE,
                                         !.typed = FALSE])
            ELSE [entry EXCEPT !.pending = FALSE, !.msg = "error"]
  /\ last' = Head(sent).at
  /\ sent' = Tail(sent)
  /\ UNCHANGED <<user, known>>

\* ActionForm has a notice of its own.
SaveAnswered ==
  /\ At("ok") \/ At("error")
  /\ Head(sent).command = "save"
  /\ entry' = IF At("ok") THEN Revalidated(entry) ELSE entry
  /\ sent' = Tail(sent)
  /\ UNCHANGED <<user, last, known>>

\* The page is loaded again, at will or after an action that threw.  What it
\* waited for may still be done, and it is not told: SomebodyElse.
ReloadUser ==
  /\ user # "deleted"
  /\ entry' = Opened(user) /\ sent' = <<>> /\ last' = "none" /\ known' = TRUE
  /\ UNCHANGED user

RowNext ==
  \/ run \/ TypePassword \/ Save \/ TimerFires
  \/ getSession \/ userCommand \/ SomebodyElse
  \/ RunAnswered \/ SaveAnswered \/ ReloadUser

RowSpec == RowInit /\ [][RowNext]_rowVars

-----------------------------------------------------------------------------
(* Properties.                                                             *)

\* An error stays on the page until the next command, whatever timers earlier
\* successes have left; a success is shown only of the last command; and a page
\* whose last command succeeded shows the status the user has, if the last write
\* of the user was one the page was told of.
RowHonest ==
  entry.open /\ ~entry.pending =>
    /\ last = "error" => entry.msg = "error"
    /\ entry.msg # "none" => entry.msg = last
    /\ last = "ok" /\ known /\ sent = <<>> => entry.shown = user
=============================================================================
