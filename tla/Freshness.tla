----------------------------- MODULE Freshness -----------------------------
(***************************************************************************)
(* How long a client trusts a manifest.  The server stamps it with its own *)
(* clock; the client that follows ct-protocol judges it by its own.  The   *)
(* two clocks agree or not, and either may be set at any time.             *)
(*                                                                         *)
(* The server is TypeScript and the rule is Rust: the lifetime the one     *)
(* promises and the window of the other are two constants of two programs. *)
(* Seconds since the epoch are unsigned in Rust; MaxTime is u64::MAX.      *)
(***************************************************************************)
EXTENDS Naturals

CONSTANTS
  SUBSCRIPTION_TTL_SECONDS,   \* of the server
  FRESHNESS_WINDOW_SECONDS,   \* of the protocol
  MaxTime

ASSUME TtlAssumption ==
  /\ MaxTime \in Nat
  /\ FRESHNESS_WINDOW_SECONDS \in Nat
  /\ SUBSCRIPTION_TTL_SECONDS = FRESHNESS_WINDOW_SECONDS

VARIABLES
  server,    \* the clock of the server
  phone,     \* the clock of the client
  manifest   \* what the client holds

freshVars == <<server, phone, manifest>>

Time == 0..MaxTime

FreshnessTypeOK ==
  /\ server \in Time
  /\ phone \in Time
  /\ manifest \in [issued_at : Time, expires_at : Nat]

-----------------------------------------------------------------------------

\* The constructor of ct-protocol; the addition saturates.
canonical_expires_at(issued_at) ==
  IF issued_at + FRESHNESS_WINDOW_SECONDS > MaxTime THEN MaxTime
  ELSE issued_at + FRESHNESS_WINDOW_SECONDS

\* MUTANT: the thirty days which servers before v0.0.83 promised.
expiresAt_month(issued_at) == issued_at + 4 * SUBSCRIPTION_TTL_SECONDS

\* The server of today; its numbers do not saturate.
expiresAt(issued_at) == issued_at + SUBSCRIPTION_TTL_SECONDS

\* The first bound that is violated.
check_freshness(m, now) ==
  IF now < m.issued_at THEN "IssuedInFuture"
  ELSE IF now - m.issued_at > FRESHNESS_WINDOW_SECONDS THEN "StaleByIssuedAt"
  ELSE IF now > m.expires_at THEN "ExpiredByExpiresAt"
  ELSE "Fresh"

\* A manifest of this server, or of one that uses the constructor of the protocol.
Manifests(clock) ==
  [issued_at : {clock}, expires_at : {expiresAt(clock), canonical_expires_at(clock)}]

FreshnessInit ==
  /\ server \in Time
  /\ phone \in Time
  /\ manifest \in Manifests(server)

\* The client fetches its manifest again.
Issue ==
  /\ manifest' \in Manifests(server)
  /\ UNCHANGED <<server, phone>>

Tick ==
  /\ server < MaxTime /\ phone < MaxTime
  /\ server' = server + 1
  /\ phone' = phone + 1
  /\ UNCHANGED manifest

\* A clock is set: by NTP, by hand, by a reboot without a battery.
SetServer == server' \in Time /\ UNCHANGED <<phone, manifest>>
SetPhone == phone' \in Time /\ UNCHANGED <<server, manifest>>

FreshnessNext == Issue \/ Tick \/ SetServer \/ SetPhone

FreshnessSpec == FreshnessInit /\ [][FreshnessNext]_freshVars

-----------------------------------------------------------------------------
(* Properties.                                                             *)

\* The client accepts a manifest from the moment it was issued up to the very
\* second the server promised, "never refusing it earlier than the server
\* promised" (subscription.rs:113-116), and not later; all by its own clock,
\* whatever was done to either clock since, near the end of time too.
PromiseKept ==
  check_freshness(manifest, phone) = "Fresh"
    <=> manifest.issued_at <= phone /\ phone <= manifest.expires_at
=============================================================================
