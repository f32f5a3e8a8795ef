---------------------------- MODULE CodeContract ----------------------------
(***************************************************************************)
(* What one-time codes sent by e-mail promise, whatever requests race:     *)
(* at most one code is open per purpose, a new one closes the old, and an  *)
(* effect (a login, a new password, a bound address) costs an open code,   *)
(* which is spent by it and never opens again.                             *)
(***************************************************************************)
EXTENDS Naturals

CONSTANTS Codes, Purposes, NoCode

VARIABLES
  open,    \* the code each purpose accepts, or NoCode
  closed,  \* codes that were open once and are not any more
  effects  \* logins, new passwords and bound addresses so far

codeVars == <<open, closed, effects>>

OpenCodes(o) == {o[p] : p \in Purposes} \ {NoCode}

ContractInit ==
  /\ open = [p \in Purposes |-> NoCode]
  /\ closed = {}
  /\ effects = 0

\* Whatever is no longer open is closed for ever.
Closes == closed' = closed \cup (OpenCodes(open) \ OpenCodes(open'))

\* A code nobody has seen opens for one purpose; others may close (one address
\* holds one code, and time passes).
Send(p) ==
  /\ \E c \in Codes \ (closed \cup OpenCodes(open)) : open'[p] = c
  /\ \A q \in Purposes \ {p} : open'[q] \in {open[q], NoCode}
  /\ DOMAIN open' = Purposes
  /\ effects' = effects
  /\ Closes

\* An effect takes exactly one open code.
Redeem(p) ==
  /\ open[p] # NoCode
  /\ open' = [open EXCEPT ![p] = NoCode]
  /\ effects' = effects + 1
  /\ Closes

\* Time or wrong guesses close codes without an effect.
Lapse ==
  /\ \E gone \in SUBSET Purposes :
       open' = [p \in Purposes |-> IF p \in gone THEN NoCode ELSE open[p]]
  /\ effects' = effects
  /\ Closes

ContractNext == Lapse \/ \E p \in Purposes : Send(p) \/ Redeem(p)

CodeContractSpec == ContractInit /\ [][ContractNext]_codeVars
=============================================================================
