-------------------------------- MODULE Host --------------------------------
(***************************************************************************)
(* What the containers are started on: the settings in their copies, the   *)
(* schedule in Redis, `.env` while `ct update` migrates it, the images of  *)
(* the release; and who sees whether they are up.  The five share no       *)
(* state, so each moves alone, with the others at rest.                    *)
(***************************************************************************)
EXTENDS Settings, Retention, EnvFile, ImageBundle, Health

VARIABLE area

hostVars == <<area, settingsVars, retentionVars, envFileVars, bundleVars, healthVars>>

\* What is at rest has a single first state.
One(S) == CHOOSE x \in S : TRUE

Init ==
    /\ area \in {"settings", "jobs", "file", "images", "health"}
    /\ SettingsInit /\ (area # "settings" => env = One(Env))
    /\ RetentionInit /\ (area # "jobs" => days = 0)
    /\ EnvFileInit /\ (area # "file" => file = <<>>)
    /\ BundleInit /\ (area # "images" => comp = One(Images))
    /\ HealthInit

AtRest(others) == UNCHANGED <<area, others>>

InSettings(A) == area = "settings" /\ A
                 /\ AtRest(<<retentionVars, envFileVars, bundleVars, healthVars>>)
InJobs(A)     == area = "jobs" /\ A
                 /\ AtRest(<<settingsVars, envFileVars, bundleVars, healthVars>>)
InFile(A)     == area = "file" /\ A
                 /\ AtRest(<<settingsVars, retentionVars, bundleVars, healthVars>>)
InImages(A)   == area = "images" /\ A
                 /\ AtRest(<<settingsVars, retentionVars, envFileVars, healthVars>>)
InHealth(A)   == area = "health" /\ A
                 /\ AtRest(<<settingsVars, retentionVars, envFileVars, bundleVars>>)

Next ==
    \/ InSettings(SettingsNext) \/ InJobs(RetentionNext)
    \/ InFile(EnvFileNext) \/ InImages(BundleNext) \/ InHealth(HealthNext)

Spec == Init /\ [][Next]_hostVars

\* The types of whatever moves on the host, and of what rests meanwhile.
TypeOK ==
    SettingsTypeOK /\ RetentionTypeOK /\ EnvFileTypeOK /\ BundleTypeOK /\ HealthTypeOK
=============================================================================
