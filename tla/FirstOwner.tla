----------------------------- MODULE FirstOwner -----------------------------
(***************************************************************************)
(* How the first owner comes into being: `ct admin bootstrap` leaves a     *)
(* token in the database and in a file only root can read, whoever opens   *)
(* /setup with it makes the owner; or `ct admin create-owner` does.        *)
(*                                                                         *)
(* The API and each command are processes of their own on one database.    *)
(* All of them ask first whether there is an owner and then wait for a     *)
(* hash.  The form asks again in the transaction that uses up the token;   *)
(* SQLite makes a transaction one step, or fails it, when another writes.  *)
(***************************************************************************)
EXTENDS Naturals, FiniteSets

CONSTANTS Forms,      \* requests to POST /setup in flight at once
          Commands,   \* commands at work at once
          MaxTokens,  \* bound: tokens ever made
          MaxOwners   \* bound: owners ever made

ASSUME FirstOwnerAssumption == MaxTokens \in Nat /\ MaxOwners \in Nat

VARIABLES
    owner,      \* active owners; `raced` is history
    token,      \* rows of bootstrap_token: "open" or "used", "none" without a row
    expired,    \* tokens whose expiresAt has passed
    drawn,      \* tokens drawn so far
    material,   \* the token in the root-only file, 0 if there is none
    form,       \* what each request has read
    command     \* where each command is

setupVars == <<owner, token, expired, drawn, material, form, command>>

Tokens == 1..MaxTokens
Quiet  == [st |-> "idle"]

SetupTypeOK ==
    /\ owner \in SUBSET [id : 1..MaxOwners, token : 0..MaxTokens, raced : BOOLEAN]
    /\ token \in [Tokens -> {"none", "open", "used"}]
    /\ expired \subseteq Tokens
    /\ drawn \in 0..MaxTokens
    /\ material \in 0..drawn
    /\ \A t \in Tokens : token[t] # "none" => t <= drawn
    /\ form \in [Forms -> 0..MaxTokens]
    /\ command \in [Commands -> {Quiet} \cup [st : {"hashing", "writing"}, token : 1..drawn]
                                         \cup [st : {"creating"}, raced : BOOLEAN]]

SetupInit ==
    /\ owner = {} /\ expired = {} /\ drawn = 0 /\ material = 0
    /\ token = [t \in Tokens |-> "none"]
    /\ form = [f \in Forms |-> 0]
    /\ command = [c \in Commands |-> Quiet]

hasOwner == owner # {}

Raced(c) == IF command[c].st = "creating" THEN [command[c] EXCEPT !.raced = TRUE]
                                          ELSE command[c]

\* insertUser, and whom it overtakes.
NewOwner(t, raced) ==
    /\ Cardinality(owner) < MaxOwners
    /\ owner' = owner \cup {[id |-> Cardinality(owner) + 1, token |-> t, raced |-> raced]}

-----------------------------------------------------------------------------
(* ct admin bootstrap                                                      *)

createBootstrapToken(c) ==
    /\ command[c] = Quiet
    /\ ~hasOwner
    /\ drawn < MaxTokens
    /\ drawn' = drawn + 1
    /\ token' = [t \in Tokens |-> IF token[t] = "used" \/ t \in expired THEN "none"
                                  ELSE token[t]]
    /\ command' = [command EXCEPT ![c] = [st |-> "hashing", token |-> drawn + 1]]
    /\ UNCHANGED <<owner, expired, material, form>>

InsertToken(c) ==
    /\ command[c].st = "hashing"
    /\ token' = [token EXCEPT ![command[c].token] = "open"]
    /\ command' = [command EXCEPT ![c].st = "writing"]
    /\ UNCHANGED <<owner, expired, drawn, material, form>>

\* Written beside it and renamed.
writeBootstrapMaterial(c) ==
    /\ command[c].st = "writing"
    /\ material' = command[c].token
    /\ command' = [command EXCEPT ![c] = Quiet]
    /\ UNCHANGED <<owner, token, expired, drawn, form>>

-----------------------------------------------------------------------------
(* ct admin create-owner                                                   *)

CreateOwnerAsks(c) ==
    /\ command[c] = Quiet
    /\ ~hasOwner
    /\ command' = [command EXCEPT ![c] = [st |-> "creating", raced |-> FALSE]]
    /\ UNCHANGED <<owner, token, expired, drawn, material, form>>

\* createUser asks nothing any more.
CreateOwner(c) ==
    /\ command[c].st = "creating"
    /\ NewOwner(0, command[c].raced)
    /\ command' = [[d \in Commands |-> Raced(d)] EXCEPT ![c] = Quiet]
    /\ UNCHANGED <<token, expired, drawn, material, form>>

\* A password too short, a name taken, a key pressed: nothing was written.
CommandEnds(c) ==
    /\ command[c] # Quiet
    /\ command' = [command EXCEPT ![c] = Quiet]
    /\ UNCHANGED <<owner, token, expired, drawn, material, form>>

-----------------------------------------------------------------------------
(* POST /setup                                                             *)

PostSetup(f, t) ==
    /\ form[f] = 0
    /\ ~hasOwner
    /\ form' = [form EXCEPT ![f] = t]
    /\ UNCHANGED <<owner, token, expired, drawn, material, command>>

consumable(t) == token[t] = "open" /\ t \notin expired

\* MUTANT: the owner was asked for when the request came, that will do.
createFirstOwner_once(f) ==
    LET t == form[f]
    IN  /\ t # 0
        /\ consumable(t)
        /\ token' = [token EXCEPT ![t] = "used"]
        /\ NewOwner(t, FALSE)
        /\ command' = [c \in Commands |-> Raced(c)]
        /\ form' = [form EXCEPT ![f] = 0]
        /\ UNCHANGED <<expired, drawn, material>>

createFirstOwner(f) ==
    LET t == form[f]
    IN  /\ t # 0
        /\ ~hasOwner
        /\ consumable(t)
        /\ token' = [token EXCEPT ![t] = "used"]
        /\ NewOwner(t, FALSE)
        /\ command' = [c \in Commands |-> Raced(c)]
        /\ form' = [form EXCEPT ![f] = 0]
        /\ UNCHANGED <<expired, drawn, material>>

(* An owner, a token used or lapsed, a name or e-mail that will not do, or *)
(* a lock another process holds: the transaction takes everything back.    *)
SetupRefused(f) ==
    /\ form[f] # 0
    /\ form' = [form EXCEPT ![f] = 0]
    /\ UNCHANGED <<owner, token, expired, drawn, material, command>>

TokenExpires(t) ==
    /\ t <= drawn /\ t \notin expired
    /\ expired' = expired \cup {t}
    /\ UNCHANGED <<owner, token, drawn, material, form, command>>

SetupNext ==
    \/ \E c \in Commands : \/ createBootstrapToken(c) \/ InsertToken(c)
                           \/ writeBootstrapMaterial(c)
                           \/ CreateOwnerAsks(c) \/ CreateOwner(c) \/ CommandEnds(c)
    \/ \E f \in Forms : \/ \E t \in 1..drawn : PostSetup(f, t)
                        \/ createFirstOwner(f) \/ SetupRefused(f)
    \/ \E t \in Tokens : TokenExpires(t)

SetupSpec == SetupInit /\ [][SetupNext]_setupVars

-----------------------------------------------------------------------------
(* There is a second owner only because a create-owner command had asked   *)
(* before the first one was there: the form never makes one beside another.*)
SecondOwnerRaced ==
    \E o \in owner \cup {[id |-> 0]} : \A x \in owner \ {o} : x.token = 0 /\ x.raced

(* Until there is an owner, the token in the file works as long as it has  *)
(* not expired, whatever was refused and whoever drew another one since.   *)
MaterialWorks ==
    ~hasOwner /\ material # 0 /\ material \notin expired => consumable(material)

(* The first owner can be made by whoever holds the host, and nobody joins *)
(* that owner later, whatever forms and commands run at the same time.     *)
FirstOwnerSafe == SecondOwnerRaced /\ MaterialWorks
=============================================================================
