------------------------------ MODULE EnvFile ------------------------------
(***************************************************************************)
(* The rewriting of an old `.env` by `ct update`.  Lines are told apart by *)
(* what the migration looks for in them.                                   *)
(***************************************************************************)
EXTENDS Naturals, SequencesExt, FiniteSets

CONSTANT MaxLines       \* bound of the model: the lines of the first file

ASSUME EnvFileAssumption == MaxLines \in Nat

VARIABLES
  file,       \* the lines of `.env`
  updates     \* the updates that have migrated it; the model stops at three

envFileVars == <<file, updates>>

PanelLines == {"PANEL_DOMAIN=own", "PANEL_DOMAIN=derived"}
DomainLines == {"DOMAIN=d", "DOMAIN="}
RefLines == {"BETTER_AUTH_URL=${PANEL_DOMAIN}", "APP_URL=${PANEL_DOMAIN}"}
StrategyLines == {"STRATEGY=prefer_ipv4", "STRATEGY=ipv4_only"}

\* The lines of a file nobody has migrated, those of one key in one set.
KeyLines ==
  {{"PANEL_DOMAIN=own"}, DomainLines, {"BETTER_AUTH_URL=${PANEL_DOMAIN}"},
   {"APP_URL=${DOMAIN}", "APP_URL=${PANEL_DOMAIN}"}, {"# ${PANEL_DOMAIN}"},
   StrategyLines, {"TIMEOUT=2s"}, {"DELAY=100ms"}}

Lines == UNION KeyLines

Added == {"# note", "PANEL_DOMAIN=derived"}

-----------------------------------------------------------------------------

\* The first line of `f` in `S`, or 0.
FirstOf(f, S) == SelectInSeq(f, LAMBDA l : l \in S)

Mentions(f, S) == FirstOf(f, S) # 0

\* Lines inserted after the first DOMAIN= line; lost where there is none.
InsertAfterDomain(f, new) ==
  LET i == FirstOf(f, DomainLines)
  IN IF i = 0 THEN f ELSE SubSeq(f, 1, i) \o new \o SubSeq(f, i + 1, Len(f))

\* PANEL_DOMAIN, derived from DOMAIN, where it is missing.
backfillPanelDomain(f) ==
  LET i == FirstOf(f, DomainLines)
  IN IF Mentions(f, PanelLines) \/ i = 0 THEN f
     ELSE IF f[i] = "DOMAIN=" THEN f
     ELSE InsertAfterDomain(f, <<"# note", "PANEL_DOMAIN=derived">>)

\* MUTANT: a relocation that leaves the old definition where it is.
relocatePanelDomain_copies(f) ==
  LET def == FirstOf(f, PanelLines)
      use == FirstOf(f, RefLines)
  IN IF def = 0 \/ use = 0 \/ def <= use THEN f ELSE InsertAfterDomain(f, <<f[def]>>)

\* A PANEL_DOMAIN below the first line that refers to it is taken out and put
\* behind DOMAIN; there is no other, as no key is given twice.
relocatePanelDomain(f) ==
  LET def == FirstOf(f, PanelLines)
      use == FirstOf(f, RefLines)
  IN IF def = 0 \/ use = 0 \/ def <= use THEN f
     ELSE InsertAfterDomain(RemoveAt(f, def), <<f[def]>>)

ReplaceFirstLine(f, old, new) ==
  LET i == FirstOf(f, {old}) IN IF i = 0 THEN f ELSE [f EXCEPT ![i] = new]

fixLegacyAppUrl(f) == ReplaceFirstLine(f, "APP_URL=${DOMAIN}", "APP_URL=${PANEL_DOMAIN}")

\* The default of a setting, if no line of `f` is in `key`.
DefaultFor(f, key, line) == IF Mentions(f, key) THEN <<>> ELSE <<line>>

\* The three settings of direct connections: the default of old is replaced, what is
\* missing goes to the end.
backfillSingboxDirectDefaults(f) ==
  LET g == ReplaceFirstLine(f, "STRATEGY=prefer_ipv4", "STRATEGY=ipv4_only")
      missing == DefaultFor(g, StrategyLines, "STRATEGY=ipv4_only")
                   \o DefaultFor(g, {"TIMEOUT=2s"}, "TIMEOUT=2s")
                   \o DefaultFor(g, {"DELAY=100ms"}, "DELAY=100ms")
  IN IF missing = <<>> THEN g ELSE g \o <<"# note">> \o missing

\* The four phases, each on what the one before it left.
migrateEnv(f) ==
  backfillSingboxDirectDefaults(fixLegacyAppUrl(relocatePanelDomain(backfillPanelDomain(f))))

\* Any file that gives no key twice.
EnvFileInit ==
  /\ file \in {f \in UNION {[1..n -> Lines] : n \in 0..MaxLines} :
                \A k \in KeyLines : Cardinality({i \in DOMAIN f : f[i] \in k}) <= 1}
  /\ updates = 0

migrateEnvFile ==
  /\ updates < 3
  /\ file' = migrateEnv(file)
  /\ updates' = updates + 1

EnvFileNext == migrateEnvFile

EnvFileSpec == EnvFileInit /\ [][EnvFileNext]_envFileVars

EnvFileTypeOK ==
  /\ updates \in 0..3
  /\ file \in Seq(Lines \cup Added)

-----------------------------------------------------------------------------
(* Properties.                                                             *)

\* From the second update on, the migration leaves the file as it is: the first
\* may not be enough, though each phase is idempotent, as the phase that corrects
\* APP_URL makes a reference for the phase that ran before it.  And then
\* PANEL_DOMAIN is defined above every line that refers to it, in a file whose
\* DOMAIN line has a value and stands above them.
EnvResolves ==
  LET domain == FirstOf(file, DomainLines)
      use == FirstOf(file, RefLines)
  IN (domain # 0 /\ file[domain] # "DOMAIN=" /\ use > domain)
     => FirstOf(file, PanelLines) \in 1..use

EnvSettles ==
  [][updates >= 2 => file' = file /\ EnvResolves]_envFileVars
=============================================================================
