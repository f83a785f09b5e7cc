----------------------- MODULE RenderPipeline_proofs -----------------------
(***************************************************************************)
(* The safety properties of RenderPipeline, and of the clients behind it   *)
(* (ClientView), for any number of accounts, UUIDs, settings, clients and  *)
(* concurrent render processes; and how long a client trusts a manifest    *)
(* (Freshness), for any two clocks.                                        *)
(***************************************************************************)
EXTENDS ClientView, Freshness, TLAPS

Rows == [Accounts -> Row \cup {NoRow}]

-----------------------------------------------------------------------------
(* What a render contains.                                                 *)

\* A row that exists is a row of the table.
LEMMA RowPresent ==
  ASSUME NEW rows \in Rows, NEW a \in Accounts, rows[a] # NoRow
  PROVE  rows[a] \in Row
BY DEF Rows

\* A render admits UUIDs only, and the placeholder.
LEMMA RenderedType ==
  ASSUME NEW rows \in Rows, NEW s \in Settings
  PROVE  Rendered(rows, s) \in Config
<1>1. ActiveCredentials(rows) \subseteq Uuids
  <2> SUFFICES ASSUME NEW a \in Accounts, Active(rows[a])
               PROVE  Credentials(rows[a]) \subseteq Uuids
    BY DEF ActiveCredentials
  <2>1. rows[a] \in Row
    BY RowPresent DEF Active
  <2> QED
    BY <2>1 DEF Credentials, Row
<1> QED
  BY <1>1 DEF Rendered, buildServerRenderAccounts, Config

\* Whoever may connect has been granted it by an enabled row.
LEMMA ActiveIsGranted ==
  ASSUME NEW rows \in Rows
  PROVE  ActiveCredentials(rows) \subseteq GrantedCredentials(rows)
<1> SUFFICES ASSUME NEW a \in Accounts, Active(rows[a])
             PROVE  Credentials(rows[a]) \subseteq GrantedCredentials(rows)
  BY DEF ActiveCredentials
<1>1. rows[a].enabled /\ rows[a] # NoRow
  BY DEF Active
<1>2. Credentials(rows[a]) \subseteq {rows[a].uuid, rows[a].previous}
  BY DEF Credentials
<1> QED
  BY <1>1, <1>2 DEF GrantedCredentials

-----------------------------------------------------------------------------
(* The inductive invariant.                                                *)

\* A render in flight can put into the file only the input of the render
\* started last, or the input of a rival of it.
InFlightIsRival ==
  \A j \in Jobs : InFlight(j) => job[j].input \in {latest.input} \cup latest.rivals

Inv ==
  /\ TypeOK
  /\ InFlightIsRival
  /\ StaleOnlyFromOverlap
  /\ LatestRenderCoversDb

LEMMA InitInv == Init => Inv
<1> SUFFICES ASSUME Init PROVE Inv
  OBVIOUS
<1>1. account \in Rows
  BY DEF Init, Rows
<1>2. file \in Config
  BY <1>1, RenderedType DEF Init
<1>3. TypeOK
  BY <1>1, <1>2, BoundAssumption DEF Init, TypeOK, Rows
<1>4. InFlightIsRival /\ StaleOnlyFromOverlap
  BY DEF Init, InFlightIsRival, InFlight, StaleOnlyFromOverlap
<1>5. LatestRenderCoversDb
  BY <1>1, ActiveIsGranted
  DEF Init, LatestRenderCoversDb, AdmitsAsDb, Rendered, buildServerRenderAccounts
<1> QED
  BY <1>3, <1>4, <1>5 DEF Inv

\* A render started on the rows that the database has from now on.
LEMMA StartRenderInv ==
  ASSUME Inv, NEW rows \in Rows, NEW by \in {"api", "cli"},
         account' = rows, StartRender(by, rows, settings),
         UNCHANGED <<settings, file, writes>>,
         spent' \subseteq Uuids, requests' \in 0..MaxRequests
  PROVE  Inv'
<1> DEFINE new == Rendered(rows, settings)
<1>1. new \in Config
  BY RenderedType DEF Inv, TypeOK
<1>2. PICK j \in Jobs :
        /\ ~InFlight(j)
        /\ job' = [job EXCEPT ![j] = [phase |-> "comparing", by |-> by, input |-> new]]
        /\ latest' = [input |-> new, rivals |-> {job[i].input : i \in {i \in Jobs : InFlight(i)}},
                      outcome |-> "running", slot |-> {j}]
  BY DEF StartRender
<1> HIDE DEF new
<1>3. [phase |-> "comparing", by |-> by, input |-> new] \in Job
  BY <1>1 DEF Job
<1>4. job \in [Jobs -> Job \cup {Idle}]
  BY DEF Inv, TypeOK
<1>5. \A i \in Jobs : InFlight(i) => job[i].input \in Config
  BY <1>4 DEF InFlight, Job
<1>6. TypeOK'
  <2>1. job' \in [Jobs -> Job \cup {Idle}]
    BY <1>2, <1>3, <1>4
  <2>2. latest' \in [input : Config, rivals : SUBSET Config,
                     outcome : {"running", "done", "failed"}, slot : SUBSET Jobs]
    BY <1>1, <1>2, <1>5
  <2> QED
    BY <2>1, <2>2 DEF Inv, TypeOK, Rows
<1>7. InFlightIsRival'
  <2> SUFFICES ASSUME NEW i \in Jobs, (job[i] # Idle)'
               PROVE  job'[i].input \in {new} \cup {job[k].input : k \in {k \in Jobs : InFlight(k)}}
    BY <1>2 DEF InFlightIsRival, InFlight
  <2>1. CASE i = j
    BY <1>2, <1>4, <2>1
  <2>2. CASE i # j
    <3>1. job'[i] = job[i]
      BY <1>2, <1>4, <2>2
    <3> QED
      BY <3>1 DEF InFlight
  <2> QED
    BY <2>1, <2>2
<1>8. StaleOnlyFromOverlap'
  BY <1>2 DEF StaleOnlyFromOverlap
<1>9. LatestRenderCoversDb'
  <2>1. latest'.input = Rendered(rows, settings)
    BY <1>2 DEF new
  <2>2. ActiveCredentials(rows) \subseteq GrantedCredentials(rows)
    BY ActiveIsGranted
  <2> QED
    BY <2>1, <2>2 DEF LatestRenderCoversDb, AdmitsAsDb, Rendered, buildServerRenderAccounts,
                      ActiveCredentials, GrantedCredentials
<1> QED
  BY <1>6, <1>7, <1>8, <1>9 DEF Inv

\* Every handler under /api/proxy-accounts.
LEMMA MutateInv ==
  ASSUME Inv, NEW rows \in Rows, Mutate(rows), spent' \subseteq Uuids
  PROVE  Inv'
<1>1. requests' \in 0..MaxRequests
  BY BoundAssumption DEF Mutate, Request, Inv, TypeOK
<1> QED
  BY <1>1, StartRenderInv DEF Mutate

LEMMA OperatorInv ==
  ASSUME Inv, NEW a \in Accounts, Operator(a)
  PROVE  Inv'
<1>1. account \in Rows /\ spent \subseteq Uuids
  BY DEF Inv, TypeOK, Rows
<1>2. CASE createProxyAccount(a)
  <2>1. PICK u \in Uuids, e \in BOOLEAN, x \in Expiry :
          /\ spent' = spent \cup {u}
          /\ Mutate([account EXCEPT ![a] =
               [row |-> TRUE, enabled |-> e, expiry |-> x, uuid |-> u,
                previous |-> NoUuid, grace |-> FALSE]])
    BY <1>2 DEF createProxyAccount
  <2>2. [row |-> TRUE, enabled |-> e, expiry |-> x, uuid |-> u,
         previous |-> NoUuid, grace |-> FALSE] \in Row
    BY DEF Row
  <2>3. [account EXCEPT ![a] = [row |-> TRUE, enabled |-> e, expiry |-> x, uuid |-> u,
                                previous |-> NoUuid, grace |-> FALSE]] \in Rows
    BY <1>1, <2>2 DEF Rows
  <2> QED
    BY <1>1, <2>1, <2>3, MutateInv
<1>3. CASE updateProxyAccount(a)
  <2>1. PICK e \in BOOLEAN, x \in Expiry :
          Mutate([account EXCEPT ![a].enabled = e, ![a].expiry = x])
    BY <1>3 DEF updateProxyAccount
  <2>2. account[a] \in Row
    BY <1>1, <1>3, RowPresent DEF updateProxyAccount, Present
  <2>3. [account EXCEPT ![a].enabled = e, ![a].expiry = x] \in Rows
    BY <1>1, <2>2 DEF Rows, Row
  <2> QED
    BY <1>1, <1>3, <2>1, <2>3, MutateInv DEF updateProxyAccount
<1>4. CASE regenerateProxyUuid(a)
  <2>1. PICK u \in Uuids :
          /\ spent' = spent \cup {u}
          /\ Mutate([account EXCEPT ![a].uuid = u, ![a].previous = account[a].uuid,
                                    ![a].grace = TRUE])
    BY <1>4 DEF regenerateProxyUuid
  <2>2. account[a] \in Row
    BY <1>1, <1>4, RowPresent DEF regenerateProxyUuid, Present
  <2>3. [account EXCEPT ![a].uuid = u, ![a].previous = account[a].uuid,
                        ![a].grace = TRUE] \in Rows
    BY <1>1, <2>2 DEF Rows, Row
  <2> QED
    BY <1>1, <2>1, <2>3, MutateInv
<1>5. CASE deleteProxyAccount(a)
  <2>1. [account EXCEPT ![a] = NoRow] \in Rows
    BY <1>1 DEF Rows
  <2> QED
    BY <1>1, <1>5, <2>1, MutateInv DEF deleteProxyAccount
<1> QED
  BY <1>2, <1>3, <1>4, <1>5 DEF Operator

\* The steps that leave the database and the choice of the last render alone:
\* what they need is that no new input appears and that a finished last
\* render leaves an input it may leave.
LEMMA ProcessInv ==
  ASSUME Inv, UNCHANGED <<account, spent, settings, requests>>,
         job' \in [Jobs -> Job \cup {Idle}],
         \A j \in Jobs : job'[j] # Idle => InFlight(j) /\ job'[j].input = job[j].input,
         NEW j \in Jobs, InFlight(j),
         file' = file \/ file' = job[j].input,
         writes' \in Nat,
         \/ latest' = latest
         \/ latest' = [latest EXCEPT !.outcome = "failed", !.slot = {}]
         \/ latest' = [latest EXCEPT !.outcome = "done", !.slot = {}] /\ file' = job[j].input
  PROVE  Inv'
<1>0. job[j].input \in {latest.input} \cup latest.rivals
  BY DEF Inv, InFlightIsRival
<1>1. latest \in [input : Config, rivals : SUBSET Config,
                  outcome : {"running", "done", "failed"}, slot : SUBSET Jobs]
  BY DEF Inv, TypeOK
<1>2. latest'.input = latest.input /\ latest'.rivals = latest.rivals
  BY <1>1
<1>3. latest' \in [input : Config, rivals : SUBSET Config,
                   outcome : {"running", "done", "failed"}, slot : SUBSET Jobs]
  BY <1>1
<1>4. job[j].input \in Config
  BY DEF Inv, TypeOK, InFlight, Job
<1>5. TypeOK'
  BY <1>3, <1>4 DEF Inv, TypeOK
<1>6. InFlightIsRival'
  BY <1>2 DEF Inv, InFlightIsRival, InFlight
<1>7. StaleOnlyFromOverlap'
  BY <1>0, <1>1, <1>2 DEF Inv, StaleOnlyFromOverlap
<1>8. LatestRenderCoversDb'
  BY <1>2 DEF Inv, LatestRenderCoversDb, AdmitsAsDb, ActiveCredentials, GrantedCredentials
<1> QED
  BY <1>5, <1>6, <1>7, <1>8 DEF Inv

LEMMA RenderProcessInv ==
  ASSUME Inv, NEW j \in Jobs, Progress(j) \/ RenderFails(j)
  PROVE  Inv'
<1>1. job \in [Jobs -> Job \cup {Idle}] /\ writes \in Nat
  BY DEF Inv, TypeOK
<1>2. InFlight(j)
  BY DEF Progress, CompareEqual, CompareDifferent, atomicWrite, RenderFails, InFlight, Idle
<1>3. job[j] \in Job
  BY <1>1, <1>2 DEF InFlight
<1>4. CASE CompareEqual(j)
  BY <1>1, <1>2, <1>4, ProcessInv DEF CompareEqual, Finish, InFlight
<1>5. CASE CompareDifferent(j)
  <2>1. [job[j] EXCEPT !.phase = "writing"] \in Job
    BY <1>3 DEF Job
  <2>2. job' = [job EXCEPT ![j] = [job[j] EXCEPT !.phase = "writing"]]
    BY <1>5 DEF CompareDifferent
  <2>3. [job[j] EXCEPT !.phase = "writing"].input = job[j].input
    BY <1>3 DEF Job
  <2>4. job' \in [Jobs -> Job \cup {Idle}]
    BY <1>1, <2>1, <2>2
  <2>5. \A i \in Jobs : job'[i] # Idle => InFlight(i) /\ job'[i].input = job[i].input
    BY <1>1, <1>2, <2>2, <2>3 DEF InFlight
  <2> QED
    BY <1>1, <1>2, <1>5, <2>4, <2>5, ProcessInv DEF CompareDifferent
<1>6. CASE atomicWrite(j)
  BY <1>1, <1>2, <1>6, ProcessInv DEF atomicWrite, Finish, InFlight
<1>7. CASE RenderFails(j)
  BY <1>1, <1>2, <1>7, ProcessInv DEF RenderFails, Finish, InFlight
<1> QED
  BY <1>4, <1>5, <1>6, <1>7 DEF Progress

LEMMA ApiRestartInv ==
  ASSUME Inv, ApiRestart
  PROVE  Inv'
<1> DEFINE dead == {j \in Jobs : InFlight(j) /\ job[j].by = "api"}
<1>1. PICK j \in Jobs : InFlight(j)
  BY DEF ApiRestart
<1>2. job \in [Jobs -> Job \cup {Idle}] /\ writes \in Nat
  BY DEF Inv, TypeOK
<1>3. job' = [i \in Jobs |-> IF i \in dead THEN Idle ELSE job[i]]
  BY DEF ApiRestart
<1>4. job' \in [Jobs -> Job \cup {Idle}]
  BY <1>2, <1>3
<1>5. \A i \in Jobs : job'[i] # Idle => InFlight(i) /\ job'[i].input = job[i].input
  BY <1>3 DEF InFlight
<1> QED
  BY <1>1, <1>2, <1>4, <1>5, ProcessInv DEF ApiRestart

\* A deadline that passes takes credentials away, never adds one, and takes
\* nothing from what the row has granted.
LEMMA ClockInv ==
  ASSUME Inv, NEW a \in Accounts, Clock(a)
  PROVE  Inv'
<1>1. account \in Rows /\ account[a] \in Row
  BY RowPresent DEF Inv, TypeOK, Rows, Clock, AccountExpires, GraceLapses, Present
<1>2. PICK r \in Row :
        /\ account' = [account EXCEPT ![a] = r]
        /\ r.enabled = account[a].enabled
        /\ r.uuid = account[a].uuid /\ r.previous = account[a].previous
        /\ r.grace => account[a].grace
        /\ r.expiry # "past" => account[a].expiry # "past"
  <2>1. CASE AccountExpires(a)
    <3>1. [account[a] EXCEPT !.expiry = "past"] \in Row
      BY <1>1 DEF Row, Expiry
    <3>2. account' = [account EXCEPT ![a] = [account[a] EXCEPT !.expiry = "past"]]
      BY <2>1 DEF AccountExpires
    <3>3. account[a].expiry # "past"
      BY <2>1 DEF AccountExpires
    <3> QED
      BY <1>1, <3>1, <3>2, <3>3 DEF Row
  <2>2. CASE GraceLapses(a)
    <3>1. [account[a] EXCEPT !.grace = FALSE] \in Row
      BY <1>1 DEF Row
    <3>2. account' = [account EXCEPT ![a] = [account[a] EXCEPT !.grace = FALSE]]
      BY <2>2 DEF GraceLapses
    <3> QED
      BY <1>1, <3>1, <3>2 DEF Row
  <2> QED
    BY <2>1, <2>2 DEF Clock
<1>3. UNCHANGED <<spent, settings, job, file, writes, latest, requests>>
  BY DEF Clock, AccountExpires, GraceLapses
<1>4. account' \in Rows
  BY <1>1, <1>2 DEF Rows
<1>5. \A b \in Accounts : b # a => account'[b] = account[b]
  BY <1>1, <1>2 DEF Rows
<1>6. account'[a] = r
  BY <1>1, <1>2 DEF Rows
<1>7. ActiveCredentials(account') \subseteq ActiveCredentials(account)
  <2> SUFFICES ASSUME NEW b \in Accounts, Active(account'[b])
               PROVE  Active(account[b]) /\ Credentials(account'[b]) \subseteq Credentials(account[b])
    BY DEF ActiveCredentials
  <2>1. CASE b # a
    BY <1>5, <2>1
  <2>2. CASE b = a
    <3>1. Active(account[a])
      <4>1. account[a] # NoRow
        BY DEF Clock, AccountExpires, GraceLapses, Present
      <4>2. account'[b] = r
        BY <1>6, <2>2
      <4>3. r.enabled /\ r.expiry # "past"
        BY <4>2 DEF Active
      <4> QED
        BY <1>2, <4>1, <4>3 DEF Active
    <3>2. Credentials(r) \subseteq Credentials(account[a])
      BY <1>2 DEF Credentials
    <3> QED
      BY <1>6, <2>2, <3>1, <3>2
  <2> QED
    BY <2>1, <2>2
<1>8. GrantedCredentials(account) \subseteq GrantedCredentials(account')
  <2> SUFFICES ASSUME NEW b \in Accounts, account[b] # NoRow, account[b].enabled
               PROVE  /\ account'[b] # NoRow /\ account'[b].enabled
                      /\ account'[b].uuid = account[b].uuid
                      /\ account'[b].previous = account[b].previous
    BY DEF GrantedCredentials
  <2>1. CASE b # a
    BY <1>5, <2>1
  <2>2. CASE b = a
    BY <1>2, <1>6, <2>2 DEF Row, NoRow
  <2> QED
    BY <2>1, <2>2
<1>9. TypeOK' /\ InFlightIsRival' /\ StaleOnlyFromOverlap'
  BY <1>3, <1>4 DEF Inv, TypeOK, InFlightIsRival, InFlight, StaleOnlyFromOverlap, Rows
<1>10. LatestRenderCoversDb'
  BY <1>3, <1>7, <1>8 DEF Inv, LatestRenderCoversDb, AdmitsAsDb, ActiveCredentials, GrantedCredentials
<1> QED
  BY <1>9, <1>10 DEF Inv

LEMMA NextInv == Inv /\ [Next]_vars => Inv'
<1> SUFFICES ASSUME Inv, [Next]_vars PROVE Inv'
  OBVIOUS
<1>1. CASE \E a \in Accounts : Operator(a)
  BY <1>1, OperatorInv
<1>2. CASE updateSettings
  <2>1. requests' \in 0..MaxRequests
    BY <1>2, BoundAssumption DEF updateSettings, Request, Inv, TypeOK
  <2> QED
    BY <1>2, <2>1 DEF updateSettings, Inv, TypeOK, InFlightIsRival, InFlight, StaleOnlyFromOverlap,
                LatestRenderCoversDb, AdmitsAsDb, ActiveCredentials, GrantedCredentials
<1>3. CASE \E by \in {"api", "cli"} : RenderOnDemand(by)
  <2>1. PICK by \in {"api", "cli"} : RenderOnDemand(by)
    BY <1>3
  <2>2. requests' \in 0..MaxRequests
    BY <2>1, BoundAssumption DEF RenderOnDemand, Request, Inv, TypeOK
  <2>3. account \in Rows /\ spent \subseteq Uuids
    BY DEF Inv, TypeOK, Rows
  <2> QED
    BY <2>1, <2>2, <2>3, StartRenderInv DEF RenderOnDemand
<1>4. CASE \E j \in Jobs : Progress(j) \/ RenderFails(j)
  BY <1>4, RenderProcessInv
<1>5. CASE ApiRestart
  BY <1>5, ApiRestartInv
<1>6. CASE \E a \in Accounts : Clock(a)
  BY <1>6, ClockInv
<1>7. CASE UNCHANGED vars
  BY <1>7 DEF vars, Inv, TypeOK, InFlightIsRival, InFlight, StaleOnlyFromOverlap,
              LatestRenderCoversDb, AdmitsAsDb, ActiveCredentials, GrantedCredentials
<1> QED
  BY <1>1, <1>2, <1>3, <1>4, <1>5, <1>6, <1>7 DEF Next

-----------------------------------------------------------------------------
(* The theorems.                                                           *)

\* Inv holds in every reachable state.
THEOREM Invariance == Spec => []Inv
BY InitInv, NextInv, PTL DEF Spec

\* The state always has its types.
THEOREM TypeCorrect == Spec => []TypeOK
BY Invariance, PTL DEF Inv

\* A finished render leaves its own input in the file, or that of a render it
\* overlapped: whatever the number of render processes, no older config returns.
THEOREM StaleOnlyFromOverlapHolds == Spec => []StaleOnlyFromOverlap
BY Invariance, PTL DEF Inv

\* The render started last admits whom the database admits.
THEOREM LatestRenderCoversDbHolds == Spec => []LatestRenderCoversDb
BY Invariance, PTL DEF Inv

LEMMA InvAdmits == Inv => SoloRenderMatchesDb
BY DEF Inv, StaleOnlyFromOverlap, LatestRenderCoversDb, SoloRenderMatchesDb, Solo

\* After a render that overlapped no different one, the file admits whom the
\* database admits.
THEOREM SoloRenderMatchesDbHolds == Spec => []SoloRenderMatchesDb
BY Invariance, InvAdmits, PTL

-----------------------------------------------------------------------------
(* The clients: what each of them holds says something of the row it is of *)
(* as long as the row's UUID was rotated at most once since.               *)

UuidsSpent == \A a \in Accounts : Present(a) => account[a].uuid \in spent

\* The two columns of the row against the manifest's one UUID.
Tells(m) ==
  m # Nothing /\ m.rotated < 2 =>
    /\ Present(m.id)
    /\ m.rotated = 0 => m.uuid = account[m.id].uuid
    /\ m.rotated = 1 /\ m.open => m.uuid = account[m.id].previous /\ account[m.id].grace

ManifestsTell == \A c \in Clients : Tells(client[c].answer) /\ Tells(client[c].profile)

ClientInv == Inv /\ UuidsSpent /\ ClientTypeOK /\ ManifestsTell

Held == [url : Token \cup {Nothing}, answer : Manifest \cup {Nothing}, profile : Manifest \cup {Nothing}]

\* What one step of the server may do to one row, as its history counts it.
RowStep(old, new) ==
  \/ new = old
  \/ old = NoRow \/ new = NoRow
  \/ /\ old \in Row /\ new \in Row /\ new.uuid = old.uuid /\ new.previous = old.previous
     /\ new.grace => old.grace
  \/ /\ old \in Row /\ new \in Row /\ new.uuid # old.uuid /\ new.previous = old.uuid /\ new.grace

LEMMA RowsStep ==
  ASSUME Inv, UuidsSpent, Next
  PROVE  /\ UuidsSpent'
         /\ \A a \in Accounts : RowStep(account[a], account'[a])
<1>1. account \in Rows
  BY DEF Inv, TypeOK, Rows
<1>2. ASSUME NEW a \in Accounts, NEW r, account' = [account EXCEPT ![a] = r], spent \subseteq spent',
             r = NoRow \/ (r \in Row /\ r.uuid \in spent'), RowStep(account[a], r)
      PROVE  UuidsSpent' /\ \A b \in Accounts : RowStep(account[b], account'[b])
  <2>1. account'[a] = r /\ \A b \in Accounts : b # a => account'[b] = account[b]
    BY <1>1, <1>2 DEF Rows
  <2>2. UuidsSpent'
    BY <1>2, <2>1 DEF UuidsSpent, Present
  <2>3. \A b \in Accounts : RowStep(account[b], account'[b])
    BY <1>2, <2>1 DEF RowStep
  <2> QED
    BY <2>2, <2>3
<1>3. CASE account' = account /\ spent' = spent
  BY <1>3 DEF UuidsSpent, Present, RowStep
<1>4. ASSUME NEW a \in Accounts, createProxyAccount(a)
      PROVE  UuidsSpent' /\ \A b \in Accounts : RowStep(account[b], account'[b])
  <2>1. PICK u \in Uuids, e \in BOOLEAN, x \in Expiry :
          /\ spent' = spent \cup {u} /\ ~Present(a)
          /\ account' = [account EXCEPT ![a] =
               [row |-> TRUE, enabled |-> e, expiry |-> x, uuid |-> u,
                previous |-> NoUuid, grace |-> FALSE]]
    BY <1>4 DEF createProxyAccount, Mutate
  <2>2. PICK r : r = [row |-> TRUE, enabled |-> e, expiry |-> x, uuid |-> u,
                      previous |-> NoUuid, grace |-> FALSE]
    OBVIOUS
  <2>3. r \in Row /\ r.uuid \in spent'
    BY <2>1, <2>2 DEF Row
  <2>4. RowStep(account[a], r)
    BY <2>1 DEF RowStep, Present
  <2> QED
    BY <1>2, <2>1, <2>2, <2>3, <2>4
<1>5. ASSUME NEW a \in Accounts, updateProxyAccount(a)
      PROVE  UuidsSpent' /\ \A b \in Accounts : RowStep(account[b], account'[b])
  <2>1. PICK e \in BOOLEAN, x \in Expiry :
          account' = [account EXCEPT ![a].enabled = e, ![a].expiry = x] /\ Present(a) /\ spent' = spent
    BY <1>5 DEF updateProxyAccount, Mutate
  <2>2. PICK r : r = [[account[a] EXCEPT !.enabled = e] EXCEPT !.expiry = x]
    OBVIOUS
  <2>3. account[a] \in Row
    BY <1>1, <2>1, RowPresent DEF Present
  <2>4. r \in Row
    BY <2>2, <2>3 DEF Row
  <2>5. r.uuid = account[a].uuid /\ r.previous = account[a].previous
    BY <2>2, <2>3 DEF Row
  <2>6. r.grace = account[a].grace
    BY <2>2, <2>3 DEF Row
  <2>7. account' = [account EXCEPT ![a] = r]
    BY <1>1, <2>1, <2>2 DEF Rows
  <2>8. r.uuid \in spent'
    BY <2>1, <2>5 DEF UuidsSpent
  <2> QED
    BY <1>2, <2>1, <2>3, <2>4, <2>5, <2>6, <2>7, <2>8 DEF RowStep
<1>6. ASSUME NEW a \in Accounts, regenerateProxyUuid(a)
      PROVE  UuidsSpent' /\ \A b \in Accounts : RowStep(account[b], account'[b])
  <2>1. PICK u \in Uuids \ spent :
          /\ account' = [account EXCEPT ![a].uuid = u, ![a].previous = account[a].uuid, ![a].grace = TRUE]
          /\ Present(a) /\ spent' = spent \cup {u}
    BY <1>6 DEF regenerateProxyUuid, Mutate
  <2>2. PICK r : r = [[[account[a] EXCEPT !.uuid = u] EXCEPT !.previous = account[a].uuid] EXCEPT !.grace = TRUE]
    OBVIOUS
  <2>3. account[a] \in Row
    BY <1>1, <2>1, RowPresent DEF Present
  <2>4. r \in Row
    BY <2>2, <2>3 DEF Row
  <2>5. r.uuid = u /\ r.previous = account[a].uuid
    BY <2>2, <2>3 DEF Row
  <2>6. r.grace
    BY <2>2, <2>3 DEF Row
  <2>7. account' = [account EXCEPT ![a] = r]
    BY <1>1, <2>1, <2>2 DEF Rows
  <2>8. u # account[a].uuid
    BY <2>1 DEF UuidsSpent
  <2> QED
    BY <1>2, <2>1, <2>3, <2>4, <2>5, <2>6, <2>7, <2>8 DEF RowStep
<1>7. ASSUME NEW a \in Accounts, deleteProxyAccount(a)
      PROVE  UuidsSpent' /\ \A b \in Accounts : RowStep(account[b], account'[b])
  <2>1. account' = [account EXCEPT ![a] = NoRow] /\ spent' = spent
    BY <1>7 DEF deleteProxyAccount, Mutate
  <2> QED
    BY <1>2, <2>1 DEF RowStep
<1>8. ASSUME NEW a \in Accounts, Clock(a)
      PROVE  UuidsSpent' /\ \A b \in Accounts : RowStep(account[b], account'[b])
  <2>1. PICK r \in {[account[a] EXCEPT !.expiry = "past"], [account[a] EXCEPT !.grace = FALSE]} :
          account' = [account EXCEPT ![a] = r] /\ Present(a) /\ spent' = spent
    BY <1>1, <1>8 DEF Clock, AccountExpires, GraceLapses, Rows
  <2>2. account[a] \in Row
    BY <1>1, <2>1, RowPresent DEF Present
  <2>3. r \in Row /\ r.uuid = account[a].uuid /\ r.previous = account[a].previous
    BY <2>1, <2>2 DEF Row, Expiry
  <2>4. r.grace => account[a].grace
    BY <2>1, <2>2 DEF Row
  <2>5. r.uuid \in spent'
    BY <2>1, <2>3 DEF UuidsSpent
  <2> QED
    BY <1>2, <2>1, <2>2, <2>3, <2>4, <2>5 DEF RowStep
<1>9. (\E a \in Accounts : Operator(a) \/ Clock(a)) \/ (account' = account /\ spent' = spent)
  BY DEF Next, updateSettings, RenderOnDemand, Progress, CompareEqual, CompareDifferent, atomicWrite,
     RenderFails, ApiRestart
<1> QED
  BY <1>3, <1>4, <1>5, <1>6, <1>7, <1>8, <1>9 DEF Operator

\* A manifest grows old with its row.
LEMMA AgedTells ==
  ASSUME NEW m \in Manifest \cup {Nothing}, Tells(m),
         m # Nothing => RowStep(account[m.id], account'[m.id])
  PROVE  \E x \in Manifest \cup {Nothing} : x = Aged(m) /\ Tells(x)'
<1>1. CASE m = Nothing
  BY <1>1 DEF Aged, Tells
<1>2. CASE m # Nothing /\ account[m.id] = account'[m.id]
  <2>1. Aged(m) = m
    BY <1>2 DEF Aged
  <2>2. Tells(m)'
    BY <1>2 DEF Tells, Present
  <2> QED
    BY <2>1, <2>2
<1>3. CASE m # Nothing /\ account[m.id] = NoRow
  <2>1. m.rotated = 2 /\ m \in Manifest
    BY <1>3 DEF Tells, Present, Manifest
  <2>2. Aged(m) = m
    BY <1>3 DEF Aged
  <2>3. Tells(m)'
    BY <2>1 DEF Tells
  <2> QED
    BY <2>1, <2>2, <2>3
<1>4. CASE m # Nothing /\ account[m.id] # NoRow /\ account'[m.id] = NoRow
  <2>1. PICK x : x = [m EXCEPT !.rotated = 2]
    OBVIOUS
  <2>2. x \in Manifest /\ x.rotated = 2
    BY <1>4, <2>1 DEF Manifest
  <2>3. PICK y : y = [x EXCEPT !.open = FALSE]
    OBVIOUS
  <2>4. y \in Manifest /\ y.rotated = 2
    BY <2>2, <2>3 DEF Manifest
  <2>5. Aged(m) = y
    BY <1>4, <2>1, <2>3 DEF Aged
  <2>6. Tells(y)'
    BY <2>4 DEF Tells
  <2> QED
    BY <2>4, <2>5, <2>6
<1>5. CASE /\ m # Nothing /\ account[m.id] # account'[m.id]
           /\ account[m.id] # NoRow /\ account'[m.id] # NoRow
  <2> DEFINE old == account[m.id]
             new == account'[m.id]
  <2>1. PICK n : n = IF new.uuid # old.uuid /\ m.rotated < 2 THEN m.rotated + 1 ELSE m.rotated
    OBVIOUS
  <2>2. PICK b \in BOOLEAN : b = (m.open /\ ~(m.rotated > 0 /\ old.grace /\ ~new.grace))
    OBVIOUS
  <2>3. m \in Manifest /\ n \in 0..2
    BY <1>5, <2>1 DEF Manifest
  <2>4. PICK x : x = [m EXCEPT !.rotated = n]
    OBVIOUS
  <2>5. x \in Manifest /\ x.rotated = n /\ x.id = m.id /\ x.uuid = m.uuid
    BY <2>3, <2>4 DEF Manifest
  <2>6. PICK y : y = [x EXCEPT !.open = b]
    OBVIOUS
  <2>7. y \in Manifest /\ y.rotated = n /\ y.id = m.id /\ y.uuid = m.uuid
    BY <2>5, <2>6 DEF Manifest
  <2>8. y.open = b
    BY <2>5, <2>6 DEF Manifest
  <2>9. Aged(m) = y
    BY <1>5, <2>1, <2>2, <2>4, <2>6 DEF Aged
  <2>10. CASE new.uuid = old.uuid /\ new.previous = old.previous /\ (new.grace => old.grace)
    <3>1. n = m.rotated
      BY <2>1, <2>10
    <3>2. b => m.open /\ (m.rotated > 0 => (old.grace => new.grace))
      BY <2>2
    <3>3. m.rotated < 2 => (m.rotated = 0 => m.uuid = old.uuid)
                           /\ (m.rotated = 1 /\ m.open => m.uuid = old.previous /\ old.grace)
      BY <1>5 DEF Tells
    <3>4. y.rotated = m.rotated /\ y.rotated \in 0..2
      BY <2>3, <2>7, <3>1
    <3>5. y.rotated = 0 => y.uuid = new.uuid
      BY <2>7, <2>10, <3>3, <3>4
    <3>6. ASSUME y.rotated = 1, y.open PROVE y.uuid = new.previous /\ new.grace
      BY <2>7, <2>8, <2>10, <3>2, <3>3, <3>4, <3>6
    <3>7. Tells(y)'
      BY <1>5, <2>7, <3>5, <3>6 DEF Tells, Present
    <3> QED
      BY <2>7, <2>9, <3>7
  <2>11. CASE new.uuid # old.uuid /\ new.previous = old.uuid /\ new.grace
    <3>1. n > m.rotated \/ n = 2
      BY <2>1, <2>3, <2>11 DEF Manifest
    <3>2. n < 2 => n = 1 /\ m.rotated = 0
      BY <2>3, <3>1 DEF Manifest
    <3>3. n = 0 => FALSE
      BY <2>3, <3>1 DEF Manifest
    <3>4. n = 1 => m.uuid = old.uuid
      BY <1>5, <3>2 DEF Tells
    <3>5. Tells(y)'
      BY <1>5, <2>7, <2>11, <3>3, <3>4 DEF Tells, Present
    <3> QED
      BY <2>7, <2>9, <3>5
  <2> QED
    BY <1>5, <2>10, <2>11 DEF RowStep
<1> QED
  BY <1>1, <1>2, <1>3, <1>4, <1>5

LEMMA ClientInvInit == ClientInit => ClientInv
<1> SUFFICES ASSUME ClientInit PROVE ClientInv
  OBVIOUS
<1>1. Inv /\ UuidsSpent
  BY InitInv DEF ClientInit, Init, UuidsSpent, Present
<1>2. PICK x : x = [url |-> Nothing, answer |-> Nothing, profile |-> Nothing]
  OBVIOUS
<1>3. x \in Held /\ x.answer = Nothing /\ x.profile = Nothing
  BY <1>2 DEF Held
<1>4. client = [c \in Clients |-> x]
  BY <1>2 DEF ClientInit
<1>5. ClientTypeOK /\ ManifestsTell
  BY <1>3, <1>4 DEF ClientTypeOK, Held, ManifestsTell, Tells
<1> QED
  BY <1>1, <1>5 DEF ClientInv

\* A change of what one client holds, the server at rest.
LEMMA OneClient ==
  ASSUME ClientInv, NEW c \in Clients, NEW x \in Held, client' = [client EXCEPT ![c] = x],
         UNCHANGED vars, Tells(x.answer), Tells(x.profile)
  PROVE  ClientInv'
<1>1. client \in [Clients -> Held]
  BY DEF ClientInv, ClientTypeOK, Held
<1>2. client' \in [Clients -> Held] /\ client'[c] = x /\ \A d \in Clients : d # c => client'[d] = client[d]
  BY <1>1
<1>3. Inv' /\ UuidsSpent'
  BY NextInv DEF ClientInv, vars, UuidsSpent, Present
<1>4. \A m : Tells(m)' <=> Tells(m)
  BY DEF vars, Tells, Present
<1>5. ManifestsTell'
  BY <1>2, <1>4 DEF ClientInv, ManifestsTell
<1> QED
  BY <1>2, <1>3, <1>5 DEF ClientInv, ClientTypeOK, Held

LEMMA ServerInv ==
  ASSUME ClientInv, Server
  PROVE  ClientInv'
<1>1. client \in [Clients -> Held]
  BY DEF ClientInv, ClientTypeOK, Held
<1>2. Inv' /\ UuidsSpent' /\ \A a \in Accounts : RowStep(account[a], account'[a])
  BY NextInv, RowsStep DEF ClientInv, Server
<1>3. ASSUME NEW c \in Clients
      PROVE  (client[c] \in Held /\ Tells(client[c].answer) /\ Tells(client[c].profile))'
  <2>1. PICK h : h = client[c] /\ h \in Held
    BY <1>1
  <2>2. h.answer \in Manifest \cup {Nothing} /\ h.profile \in Manifest \cup {Nothing}
        /\ Tells(h.answer) /\ Tells(h.profile)
    BY <2>1 DEF Held, ClientInv, ManifestsTell
  <2>3. \A m \in Manifest \cup {Nothing} : m # Nothing => RowStep(account[m.id], account'[m.id])
    BY <1>2 DEF Manifest
  <2>4. PICK x \in Manifest \cup {Nothing} : x = Aged(h.answer) /\ Tells(x)'
    BY <2>2, <2>3, AgedTells
  <2>5. PICK y \in Manifest \cup {Nothing} : y = Aged(h.profile) /\ Tells(y)'
    BY <2>2, <2>3, AgedTells
  <2>6. PICK g : g = [h EXCEPT !.answer = x]
    OBVIOUS
  <2>7. g \in Held /\ g.answer = x /\ g.profile = h.profile
    BY <2>1, <2>6 DEF Held
  <2>8. PICK k : k = [g EXCEPT !.profile = y]
    OBVIOUS
  <2>9. k \in Held /\ k.answer = x /\ k.profile = y
    BY <2>7, <2>8 DEF Held
  <2>10. client' = [d \in Clients |-> [client[d] EXCEPT !.answer = Aged(@), !.profile = Aged(@)]]
    BY DEF Server
  <2>11. client'[c] = [h EXCEPT !.answer = Aged(h.answer), !.profile = Aged(h.profile)]
    BY <2>1, <2>10
  <2>12. client'[c] = [h EXCEPT !.answer = x, !.profile = y]
    BY <2>4, <2>5, <2>11
  <2>13. [h EXCEPT !.answer = x, !.profile = y] = k
    BY <2>1, <2>6, <2>8 DEF Held
  <2> QED
    BY <2>4, <2>5, <2>9, <2>12, <2>13
<1>4. client' \in [Clients -> Held]
  <2>1. PICK f : f = client'
    OBVIOUS
  <2>2. f = [d \in Clients |-> [client[d] EXCEPT !.answer = Aged(@), !.profile = Aged(@)]]
    BY <2>1 DEF Server
  <2>3. f = [d \in Clients |-> f[d]]
    BY <2>2
  <2>4. f \in [Clients -> Held]
    BY <1>3, <2>1, <2>3
  <2> QED
    BY <2>1, <2>4
<1>5. ManifestsTell'
  BY <1>3 DEF ManifestsTell
<1> QED
  BY <1>2, <1>4, <1>5 DEF ClientInv, ClientTypeOK, Held

LEMMA FetchInv ==
  ASSUME ClientInv, NEW c \in Clients, Fetch(c)
  PROVE  ClientInv'
<1>1. client \in [Clients -> Held] /\ account \in Rows /\ settings \in Settings
  BY DEF ClientInv, ClientTypeOK, Held, Inv, TypeOK, Rows
<1>2. PICK m \in subscriptionResponse(client[c].url) : client' = [client EXCEPT ![c].answer = m]
  BY DEF Fetch
<1>3. PICK a \in Accounts :
        /\ Present(a)
        /\ m = [id |-> a, uuid |-> account[a].uuid, settings |-> settings, rotated |-> 0, open |-> TRUE]
  BY <1>2 DEF subscriptionResponse, resolveSubscriptionToken
<1>4. account[a].uuid \in Uuids
  BY <1>1, <1>3, RowPresent DEF Present, Row
<1>5. m \in Manifest
  BY <1>1, <1>3, <1>4 DEF Manifest
<1>6. Tells(m)
  BY <1>3 DEF Tells
<1>7. PICK x : x = [client[c] EXCEPT !.answer = m]
  OBVIOUS
<1>8. x \in Held /\ x.answer = m /\ x.profile = client[c].profile
  BY <1>1, <1>5, <1>7 DEF Held
<1>9. client' = [client EXCEPT ![c] = x]
  BY <1>2, <1>7
<1>10. UNCHANGED vars /\ Tells(client[c].profile)
  BY DEF Fetch, ClientInv, ManifestsTell
<1> QED
  BY <1>6, <1>8, <1>9, <1>10, OneClient

LEMMA ImportInv ==
  ASSUME ClientInv, NEW c \in Clients, Import(c)
  PROVE  ClientInv'
<1>1. client \in [Clients -> Held]
  BY DEF ClientInv, ClientTypeOK, Held
<1>2. PICK profile \in {client[c].answer, client[c].profile} :
         client' = [client EXCEPT ![c].answer = Nothing, ![c].profile = profile]
  BY DEF Import
<1>3. PICK x : x = [client[c] EXCEPT !.answer = Nothing]
  OBVIOUS
<1>4. x \in Held /\ x.answer = Nothing
  BY <1>1, <1>3 DEF Held
<1>5. PICK y : y = [x EXCEPT !.profile = profile]
  OBVIOUS
<1>6. y \in Held /\ y.answer = Nothing /\ y.profile = profile
  BY <1>1, <1>2, <1>4, <1>5 DEF Held
<1>7. client' = [client EXCEPT ![c] = y]
  BY <1>1, <1>2, <1>3, <1>5
<1>8. UNCHANGED vars /\ Tells(profile) /\ Tells(Nothing)
  BY <1>2 DEF Import, ClientInv, ManifestsTell, Tells
<1> QED
  BY <1>6, <1>7, <1>8, OneClient

LEMMA RevealInv ==
  ASSUME ClientInv, NEW c \in Clients, NEW a \in Accounts, revealProxySubscription(c, a)
  PROVE  ClientInv'
<1>1. client \in [Clients -> Held] /\ account \in Rows
  BY DEF ClientInv, ClientTypeOK, Held, Inv, TypeOK, Rows
<1>2. subscriptionUrlFor(a) \in Token
  BY <1>1, RowPresent DEF revealProxySubscription, Present, subscriptionUrlFor, Token, Row
<1>3. PICK x : x = [client[c] EXCEPT !.url = subscriptionUrlFor(a)]
  OBVIOUS
<1>4. x \in Held /\ x.answer = client[c].answer /\ x.profile = client[c].profile
  BY <1>1, <1>2, <1>3 DEF Held
<1>5. client' = [client EXCEPT ![c] = x] /\ UNCHANGED vars
  BY <1>3 DEF revealProxySubscription
<1>6. Tells(client[c].answer) /\ Tells(client[c].profile)
  BY DEF ClientInv, ManifestsTell
<1> QED
  BY <1>4, <1>5, <1>6, OneClient

LEMMA OlderGraceInv ==
  ASSUME ClientInv, NEW c \in Clients, OlderGraceLapses(c)
  PROVE  ClientInv'
<1>1. client \in [Clients -> Held]
  BY DEF ClientInv, ClientTypeOK, Held
<1>2. PICK h : h = client[c] /\ h \in Held
  BY <1>1
<1>3. Tells(h.answer) /\ Tells(h.profile) /\ UNCHANGED vars
  BY <1>2 DEF ClientInv, ManifestsTell, OlderGraceLapses
<1>4. ASSUME NEW m \in Manifest, m.rotated = 2, NEW n, n = [m EXCEPT !.open = FALSE]
      PROVE  n \in Manifest /\ Tells(n)
  <2>1. n \in Manifest /\ n.rotated = 2
    BY <1>4 DEF Manifest
  <2> QED
    BY <2>1 DEF Tells
<1>5. CASE /\ h.profile # Nothing /\ h.profile.rotated = 2
           /\ client' = [client EXCEPT ![c].profile.open = FALSE]
  <2>1. PICK n : n = [h.profile EXCEPT !.open = FALSE]
    OBVIOUS
  <2>2. n \in Manifest /\ Tells(n)
    BY <1>2, <1>4, <1>5, <2>1 DEF Held
  <2>3. PICK x : x = [h EXCEPT !.profile = n]
    OBVIOUS
  <2>4. x \in Held /\ x.profile = n /\ x.answer = h.answer
    BY <1>2, <2>2, <2>3 DEF Held
  <2>5. client' = [client EXCEPT ![c] = x]
    BY <1>2, <1>5, <2>1, <2>3
  <2> QED
    BY <1>3, <2>2, <2>4, <2>5, OneClient
<1>6. CASE /\ h.answer # Nothing /\ h.answer.rotated = 2
           /\ client' = [client EXCEPT ![c].answer.open = FALSE]
  <2>1. PICK n : n = [h.answer EXCEPT !.open = FALSE]
    OBVIOUS
  <2>2. n \in Manifest /\ Tells(n)
    BY <1>2, <1>4, <1>6, <2>1 DEF Held
  <2>3. PICK x : x = [h EXCEPT !.answer = n]
    OBVIOUS
  <2>4. x \in Held /\ x.answer = n /\ x.profile = h.profile
    BY <1>2, <2>2, <2>3 DEF Held
  <2>5. client' = [client EXCEPT ![c] = x]
    BY <1>2, <1>6, <2>1, <2>3
  <2> QED
    BY <1>3, <2>2, <2>4, <2>5, OneClient
<1> QED
  BY <1>2, <1>5, <1>6 DEF OlderGraceLapses

LEMMA ClientStep == ClientInv /\ [ClientNext]_clientVars => ClientInv'
<1> SUFFICES ASSUME ClientInv, [ClientNext]_clientVars PROVE ClientInv'
  OBVIOUS
<1>1. CASE UNCHANGED clientVars
  <2>1. Inv'
    BY <1>1, NextInv DEF ClientInv, clientVars
  <2> QED
    BY <1>1, <2>1 DEF clientVars, vars, ClientInv, UuidsSpent, Present, ClientTypeOK, ManifestsTell, Tells
<1> QED
  BY <1>1, ServerInv, FetchInv, ImportInv, RevealInv, OlderGraceInv DEF ClientNext

\* A client whose UUID is the row's, or the one of before in its ten minutes, is
\* admitted by every render of the rows.
LEMMA TellsAdmits ==
  ASSUME Inv, NEW m \in Manifest, m # Nothing, Tells(m), Active(account[m.id]),
         m.rotated = 0 \/ (m.rotated = 1 /\ m.open)
  PROVE  m.uuid \in ActiveCredentials(account)
<1>1. m.id \in Accounts /\ m.uuid \in Uuids
  BY DEF Manifest
<1>2. m.uuid = account[m.id].uuid \/ (m.uuid = account[m.id].previous /\ account[m.id].grace)
  BY DEF Tells
<1>3. m.uuid \in Credentials(account[m.id])
  BY <1>1, <1>2, SentinelAssumption DEF Credentials
<1> QED
  BY <1>1, <1>3 DEF ActiveCredentials

\* "with a grace window on UUID rotation so clients aren't dropped mid-rotate": the
\* operator may create, change, rotate and delete accounts, renders may overlap,
\* fail and die, and manifests arrive late: a client whose UUID was rotated away at
\* most once, and no ten minutes ago, is admitted once an undisturbed render is done.
THEOREM GraceKeptHolds == ClientSpec => []GraceKept
<1>1. ClientInv => GraceKept
  <2> SUFFICES ASSUME ClientInv, NEW c \in Clients, Undisturbed(c), NEW m, m = client[c].profile,
                      m.rotated = 0 \/ (m.rotated = 1 /\ m.open)
               PROVE  m.uuid \in file.users /\ m.settings = file.settings
    BY DEF GraceKept, Connects
  <2>1. m \in Manifest /\ m # Nothing /\ Tells(m)
    BY DEF ClientInv, ClientTypeOK, ManifestsTell, Undisturbed
  <2>2. file = latest.input
    BY DEF ClientInv, Inv, StaleOnlyFromOverlap, Undisturbed, Solo
  <2>3. m.uuid \in ActiveCredentials(account)
    BY <2>1, TellsAdmits DEF ClientInv, Undisturbed
  <2> QED
    BY <2>2, <2>3 DEF ClientInv, Inv, LatestRenderCoversDb, AdmitsAsDb, Undisturbed
<1> QED
  BY <1>1, ClientInvInit, ClientStep, PTL DEF ClientSpec

(***************************************************************************)
(* For any lifetime and any clocks, a client that follows ct-protocol      *)
(* accepts a manifest exactly as long as the server promised.              *)
(***************************************************************************)

\* The lifetime starts with the issue and is no longer than the window.
LifetimeFits ==
  /\ manifest.expires_at <= manifest.issued_at + FRESHNESS_WINDOW_SECONDS
  /\ manifest.issued_at <= manifest.expires_at

FreshInv == FreshnessTypeOK /\ LifetimeFits

\* Either constructor gives a lifetime that fits the window.
LEMMA ManifestsFit ==
  ASSUME NEW clock \in Time, NEW m \in Manifests(clock)
  PROVE  /\ m \in [issued_at : Time, expires_at : Nat]
         /\ m.expires_at <= m.issued_at + FRESHNESS_WINDOW_SECONDS
         /\ m.issued_at <= m.expires_at
<1>1. m.issued_at = clock /\ m.expires_at \in {expiresAt(clock), canonical_expires_at(clock)}
  BY DEF Manifests
<1>2. m = [issued_at |-> m.issued_at, expires_at |-> m.expires_at]
  BY DEF Manifests
<1>3. clock \in Nat /\ clock <= MaxTime
  BY TtlAssumption DEF Time
<1>4. m.expires_at \in Nat /\ m.expires_at <= clock + FRESHNESS_WINDOW_SECONDS
  BY <1>1, <1>3, TtlAssumption DEF expiresAt, canonical_expires_at
<1>5. clock <= m.expires_at
  BY <1>1, <1>3, TtlAssumption DEF expiresAt, canonical_expires_at
<1> QED
  BY <1>1, <1>2, <1>4, <1>5

LEMMA FreshInit == FreshnessInit => FreshInv
BY ManifestsFit DEF FreshnessInit, FreshInv, FreshnessTypeOK, LifetimeFits

LEMMA FreshStep == FreshInv /\ [FreshnessNext]_freshVars => FreshInv'
<1> SUFFICES ASSUME FreshInv, [FreshnessNext]_freshVars PROVE FreshInv'
  OBVIOUS
<1> USE DEF FreshInv, FreshnessTypeOK, LifetimeFits
<1>1. CASE Issue
  BY <1>1, ManifestsFit DEF Issue
<1>2. CASE Tick
  <2>1. server' \in Time /\ phone' \in Time
    BY <1>2, TtlAssumption DEF Tick, Time
  <2> QED
    BY <1>2, <2>1 DEF Tick
<1>3. CASE SetServer \/ SetPhone
  BY <1>3 DEF SetServer, SetPhone
<1>4. CASE UNCHANGED freshVars
  BY <1>4 DEF freshVars
<1> QED
  BY <1>1, <1>2, <1>3, <1>4 DEF FreshnessNext

\* The invariant is what the promise needs: inside a lifetime that fits, the
\* window never closes first.
LEMMA FitsKeeps == FreshInv => PromiseKept
<1> SUFFICES ASSUME FreshInv PROVE PromiseKept
  OBVIOUS
<1>1. phone \in Nat /\ manifest.issued_at \in Nat /\ manifest.expires_at \in Nat
  BY TtlAssumption DEF FreshInv, FreshnessTypeOK, Time
<1>2. manifest.expires_at <= manifest.issued_at + FRESHNESS_WINDOW_SECONDS
  BY DEF FreshInv, LifetimeFits
<1>3. CASE phone < manifest.issued_at
  BY <1>1, <1>3 DEF PromiseKept, check_freshness
<1>4. CASE ~(phone < manifest.issued_at)
  <2>1. manifest.issued_at <= phone
    BY <1>1, <1>4
  <2>2. phone <= manifest.expires_at => ~(phone - manifest.issued_at > FRESHNESS_WINDOW_SECONDS)
    BY <1>1, <1>2, <2>1, TtlAssumption
  <2>3. phone > manifest.expires_at <=> ~(phone <= manifest.expires_at)
    BY <1>1
  <2> QED
    BY <1>4, <2>1, <2>2, <2>3 DEF PromiseKept, check_freshness
<1> QED
  BY <1>3, <1>4

\* The clocks stay in their range and the manifest keeps its shape.
THEOREM FreshnessTypeCorrect == FreshnessSpec => []FreshnessTypeOK
<1>1. FreshInv => FreshnessTypeOK
  BY DEF FreshInv
<1> QED
  BY FreshInit, FreshStep, <1>1, PTL DEF FreshnessSpec

\* For every lifetime and every pair of clocks, set back or ahead at any time:
\* the client of ct-protocol accepts a manifest of this server from its issue
\* to its expiry, and at no other time.
THEOREM PromiseKeptHolds == FreshnessSpec => []PromiseKept
BY FreshInit, FreshStep, FitsKeeps, PTL DEF FreshnessSpec
=============================================================================
