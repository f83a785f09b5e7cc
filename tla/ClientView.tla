----------------------------- MODULE ClientView -----------------------------
(***************************************************************************)
(* The path of an account to the client that uses it: the panel reveals    *)
(* the subscription URL, the client fetches the manifest behind it,        *)
(* imports it and connects with the UUID and the Reality settings it holds.*)
(* The rest is RenderPipeline: the same rows, the same singbox.json.       *)
(*                                                                         *)
(* A row draws its UUID and its subscriptionSecret together, in creation   *)
(* and in rotation: the UUID stands for both.  The HMAC of a token is the  *)
(* pair it signs.  A handler reads the row and the settings between two    *)
(* awaits that wait for nothing, so it answers in one step.                *)
(***************************************************************************)
EXTENDS RenderPipeline

CONSTANTS
  Clients,
  Nothing   \* no URL, no profile

VARIABLE client  \* what each client has: its URL, an answer under way, a profile

\* subscriptionToken: the id and what the account's secret signs.
Token == [id : Accounts, secret : Uuids]

\* What the client needs of a manifest, and the history of its UUID: rotations
\* since (2 is two or more), and FALSE for `open` once the ten minutes after
\* the first of them are over.
Manifest == [id : Accounts, uuid : Uuids, settings : Settings, rotated : 0..2, open : BOOLEAN]

ASSUME NothingAssumption == Nothing \notin Manifest

ClientTypeOK ==
  client \in [Clients -> [url : Token \cup {Nothing},
                          answer : Manifest \cup {Nothing},
                          profile : Manifest \cup {Nothing}]]

ClientInit ==
  /\ Init
  /\ client = [c \in Clients |-> [url |-> Nothing, answer |-> Nothing, profile |-> Nothing]]

-----------------------------------------------------------------------------

subscriptionUrlFor(a) == [id |-> a, secret |-> account[a].uuid]

\* The row a token stands for, as a set: nothing for an id that is gone or a
\* signature by a secret that was rotated away.
resolveSubscriptionToken(token) ==
  {a \in Accounts : a = token.id /\ Present(a) /\ account[a].uuid = token.secret}

\* MUTANT: the manifest carries the UUID of before the rotation.
subscriptionResponse_previous(token) ==
  {[id |-> a, uuid |-> IF account[a].grace THEN account[a].previous ELSE account[a].uuid,
    settings |-> settings, rotated |-> 0, open |-> TRUE] :
     a \in {b \in resolveSubscriptionToken(token) : Active(account[b])}}

\* The manifest, or nothing: then the answer is the page of the cover site.
subscriptionResponse(token) ==
  {[id |-> a, uuid |-> account[a].uuid, settings |-> settings, rotated |-> 0, open |-> TRUE] :
     a \in {b \in resolveSubscriptionToken(token) : Active(account[b])}}

\* POST /api/proxy-accounts/:id/reveal; the operator hands the URL on.
revealProxySubscription(c, a) ==
  /\ Present(a)
  /\ client' = [client EXCEPT ![c].url = subscriptionUrlFor(a)]
  /\ UNCHANGED vars

\* GET /api/v1/subscription/:token.
Fetch(c) ==
  /\ client[c].url # Nothing
  /\ client[c].answer = Nothing
  /\ \E m \in subscriptionResponse(client[c].url) : client' = [client EXCEPT ![c].answer = m]
  /\ UNCHANGED vars

\* The answer arrives, late or never; `singbox-core render-client` makes the
\* client's config of it.
Import(c) ==
  /\ client[c].answer # Nothing
  /\ \E profile \in {client[c].answer, client[c].profile} :
       client' = [client EXCEPT ![c].answer = Nothing, ![c].profile = profile]
  /\ UNCHANGED vars

\* What a step of the server does to the history of a manifest.
Aged(m) ==
  LET old == account[m.id]  new == account'[m.id] IN
  IF m = Nothing \/ old = NoRow \/ old = new THEN m
  ELSE IF new = NoRow THEN [m EXCEPT !.rotated = 2, !.open = FALSE]
  ELSE [m EXCEPT !.rotated = IF new.uuid # old.uuid /\ m.rotated < 2 THEN m.rotated + 1 ELSE m.rotated,
                 !.open = m.open /\ ~(m.rotated > 0 /\ old.grace /\ ~new.grace)]

Server ==
  /\ Next
  /\ client' = [c \in Clients |-> [client[c] EXCEPT !.answer = Aged(@), !.profile = Aged(@)]]

\* The ten minutes of a UUID that was rotated away twice end before those of
\* its successor.
OlderGraceLapses(c) ==
  \/ /\ client[c].profile # Nothing /\ client[c].profile.rotated = 2 /\ client[c].profile.open
     /\ client' = [client EXCEPT ![c].profile.open = FALSE]
     /\ UNCHANGED vars
  \/ /\ client[c].answer # Nothing /\ client[c].answer.rotated = 2 /\ client[c].answer.open
     /\ client' = [client EXCEPT ![c].answer.open = FALSE]
     /\ UNCHANGED vars

ClientNext ==
  \/ Server
  \/ \E c \in Clients :
       \/ \E a \in Accounts : revealProxySubscription(c, a)
       \/ Fetch(c)
       \/ Import(c)
       \/ OlderGraceLapses(c)

clientVars == <<vars, client>>

ClientSpec == ClientInit /\ [][ClientNext]_clientVars

-----------------------------------------------------------------------------
(* Properties.                                                             *)

\* The live server knows the client's UUID and its Reality settings.
Connects(c) ==
  /\ client[c].profile.uuid \in file.users
  /\ client[c].profile.settings = file.settings

\* The operator has not taken the account away, and the render started last
\* succeeded, met no other and had the settings the client has.
Undisturbed(c) ==
  /\ client[c].profile # Nothing
  /\ Active(account[client[c].profile.id])
  /\ client[c].profile.settings = latest.input.settings
  /\ latest.outcome = "done" /\ Solo

\* "with a grace window on UUID rotation so clients aren't dropped mid-rotate":
\* however late its manifest arrived, a client connects whose UUID was not
\* rotated away since, or once and no ten minutes ago.
GraceKept ==
  \A c \in Clients :
    Undisturbed(c) /\ (client[c].profile.rotated = 0 \/ (client[c].profile.rotated = 1 /\ client[c].profile.open))
      => Connects(c)
=============================================================================
