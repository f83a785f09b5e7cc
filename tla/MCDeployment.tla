---------------------------- MODULE MCDeployment ----------------------------
(* Instances of Deployment for TLC.                                        *)
EXTENDS Deployment, TLC

\* Two services of one image, as admin-api and docker-proxy are, and one of another.
MCServices == {"admin-api", "docker-proxy", "caddy"}
MCImageOf  == [s \in MCServices |-> IF s = "caddy" THEN "caddy" ELSE "admin-api"]
=============================================================================
