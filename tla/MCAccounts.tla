----------------------------- MODULE MCAccounts -----------------------------
(* Instances of EmailCodes, OwnerSessions and OidcGrants for TLC.  The three *)
(* share no state: a behaviour lets one of them move and keeps the others   *)
(* in their initial states.                                                 *)
EXTENDS EmailCodes, OwnerSessions, OidcGrants, TLC

VARIABLE part

AccountsInit == /\ EmailInit /\ SessionInit /\ OidcInit
                /\ part \in {"codes", "sessions", "oidc"}
                /\ part # "codes" => account.verified

AccountsNext ==
  \/ part = "codes" /\ EmailNext /\ UNCHANGED <<part, sessionVars, oidcVars>>
  \/ part = "sessions" /\ SessionNext /\ UNCHANGED <<part, emailVars, oidcVars>>
  \/ part = "oidc" /\ OidcNext /\ UNCHANGED <<part, emailVars, sessionVars>>

AccountsSpec == AccountsInit /\ [][AccountsNext]_<<part, emailVars, sessionVars, oidcVars>>

AccountsTypeOK == EmailTypeOK /\ SessionTypeOK /\ OidcTypeOK

\* The filter of Subsequences is the one of the language.
ASSUME OnlySelects ==
  \A s \in BoundedSeq(0 .. 2, 4), S \in SUBSET (0 .. 2) :
    Only(s, S) = SelectSeq(s, LAMBDA t : t \in S)

Alike == Permutations(EmailWorkers) \cup Permutations(Emails)
=============================================================================
