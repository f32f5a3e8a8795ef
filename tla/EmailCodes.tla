----------------------------- MODULE EmailCodes -----------------------------
(***************************************************************************)
(* Codes sent by e-mail: services/email_attempts.py and the endpoints of   *)
(* routers/auth.py that issue, resend and redeem them.                     *)
(*                                                                         *)
(* The budget (wrong guesses and mails of the last five minutes, and one   *)
(* slot per purpose) is one database row that every request locks; a code  *)
(* is one row per address.  Issuing and judging a wrong guess commit       *)
(* inside the lock and are one step each.  A right guess is only flushed:  *)
(* the endpoint applies its effect and commits, or everything is rolled    *)
(* back, and the lock is held until then.  What the endpoint reads about   *)
(* the account it reads before the lock.                                   *)
(*                                                                         *)
(* Times are the ticks that remain until they stop to matter.              *)
(***************************************************************************)
EXTENDS Naturals, Sequences, SequencesExt, Subsequences

CONSTANTS
  EmailWorkers,   \* requests in progress
  Emails,         \* addresses the owner may use
  MaxCodes,       \* bound: codes ever issued
  MaxAttempts,    \* MAX_ATTEMPTS
  MaxDeliveries,  \* MAX_DELIVERIES
  Window,         \* WINDOW_SECONDS, in ticks
  Purposes,       \* PURPOSES: "bind" and what a verified address may do
  NoOne

Life == 2 * Window    \* CODE_MINUTES are two windows
CodeIds == 1 .. MaxCodes
NoCode == 0

ASSUME EmailAssumption ==
  /\ MaxCodes \in Nat /\ MaxAttempts \in Nat \ {0}
  /\ MaxDeliveries \in Nat \ {0} /\ Window \in Nat \ {0}
  /\ NoOne \notin EmailWorkers \cup Emails
  /\ Purposes \subseteq {"login", "reset", "bind"} /\ "bind" \in Purposes

VARIABLES
  budget,    \* [failures, deliveries, slots]: the AppConfig row
  codes,     \* address -> its EmailCode row
  issued,    \* codes issued so far
  account,   \* the owner's [email, verified]
  request,   \* per worker: what it was asked and how far it is
  budgetLock,\* the worker whose transaction holds the budget row
  guesses,   \* history: wrong guesses judged within the last window
  mails,     \* history: codes issued within the last window
  proven,    \* history: addresses a code sent there was redeemed for
  effects    \* history: how many codes took effect

emailVars == <<budget, codes, issued, account, request, budgetLock,
               guesses, mails, proven, effects>>

NoSlot == [email |-> NoOne, id |-> NoCode, attempts |-> 0]
NoRow == [id |-> NoCode, left |-> 0, resent |-> 0]
Unknown == [email |-> NoOne, verified |-> FALSE]
Quiet == [op |-> "none", purpose |-> "bind", email |-> NoOne, was |-> Unknown]

EmailInit ==
  /\ budget = [failures |-> <<>>, deliveries |-> <<>>,
               slots |-> [p \in Purposes |-> NoSlot]]
  /\ codes = [e \in Emails |-> NoRow]
  /\ issued = 0
  /\ account \in [email : Emails, verified : BOOLEAN]
  /\ request = [w \in EmailWorkers |-> Quiet]
  /\ budgetLock = NoOne
  /\ guesses = <<>> /\ mails = <<>> /\ proven = {} /\ effects = 0

-----------------------------------------------------------------------------
Fewer(n) == IF n = 0 THEN 0 ELSE n - 1
Running(stamps) == Only(stamps, 1 .. Window)
Aged(stamps) == [i \in DOMAIN stamps |-> Fewer(stamps[i])]

\* Time passes for every stamp in the database and in the histories.
EmailTick ==
  /\ budget' = [failures |-> Aged(budget.failures),
                deliveries |-> Aged(budget.deliveries), slots |-> budget.slots]
  /\ codes' = [e \in Emails |-> [id |-> codes[e].id, left |-> Fewer(codes[e].left),
                                 resent |-> Fewer(codes[e].resent)]]
  /\ guesses' = Running(Aged(guesses))
  /\ mails' = Running(Aged(mails))
  /\ UNCHANGED <<issued, account, request, budgetLock, proven, effects>>

\* locked_state: what a request sees of the budget once it holds the row.
Pruned == [failures |-> Running(budget.failures),
           deliveries |-> Running(budget.deliveries), slots |-> budget.slots]
BudgetFreeSkipped == TRUE
BudgetFree == budgetLock = NoOne
MayTryAlways == TRUE
MayTry == Len(Pruned.failures) < MaxAttempts

\* The slot of a purpose names the row of this address: digest and fingerprint.
Matches(p, e) == /\ codes[e].id # NoCode
                 /\ budget.slots[p].email = e
                 /\ budget.slots[p].id = codes[e].id
Fresh(e) == codes[e].left > 0

-----------------------------------------------------------------------------
\* _verified_email_owner; a bind needs only a session and a free address.
Entitled(p, e) == p = "bind" \/ (account.email = e /\ account.verified)

\* An endpoint has checked the account and is about to ask for the lock.
Ask(w) ==
  /\ request[w].op = "none"
  /\ \E op \in {"send", "resend", "redeem"}, p \in Purposes, e \in Emails :
       /\ Entitled(p, e)
       /\ request' = [request EXCEPT ![w] =
            [op |-> op, purpose |-> p, email |-> e,
             was |-> IF op = "redeem" /\ p = "bind" THEN account ELSE Unknown]]
  /\ UNCHANGED <<budget, codes, issued, account, budgetLock, guesses, mails, proven, effects>>

Finish(w) == request' = [request EXCEPT ![w] = Quiet]

\* issue_code: one code per purpose, one per address, at most MaxDeliveries a
\* window.  The mail goes out after the commit, or is lost (502).
Issue(w) ==
  LET p == request[w].purpose  e == request[w].email  slot == budget.slots[p] IN
  /\ BudgetFree
  /\ MayTry
  /\ \/ request[w].op = "send" /\ ~(Matches(p, e) /\ Fresh(e))
     \/ request[w].op = "resend" /\ Matches(p, e) /\ codes[e].resent = 0
  /\ Len(Pruned.deliveries) < MaxDeliveries
  /\ issued < MaxCodes
  /\ issued' = issued + 1
  /\ codes' = [a \in Emails |->
       IF a = e THEN [id |-> issued', left |-> Life,
                      resent |-> IF request[w].op = "resend" THEN Window ELSE 0]
       ELSE IF codes[a].id = slot.id THEN NoRow ELSE codes[a]]
  /\ budget' = [failures |-> Pruned.failures, deliveries |-> Append(Pruned.deliveries, Window),
       slots |-> [budget.slots EXCEPT ![p] = [email |-> e, id |-> issued', attempts |-> 0]]]
  /\ mails' = Append(mails, Window)
  /\ Finish(w)
  /\ UNCHANGED <<account, budgetLock, guesses, proven, effects>>

\* Every other answer of issue_code and consume_code leaves the database as it
\* was: 429, 404, 410, 502, or "already sent".
Turned(w) ==
  /\ request[w].op \in {"send", "resend", "redeem"}
  /\ BudgetFree
  /\ Finish(w)
  /\ UNCHANGED <<budget, codes, issued, account, budgetLock, guesses, mails, proven, effects>>

Judged(w) ==
  LET p == request[w].purpose  e == request[w].email IN
  /\ request[w].op = "redeem"
  /\ BudgetFree
  /\ MayTry
  /\ Matches(p, e) /\ Fresh(e)
  /\ budget.slots[p].attempts < MaxAttempts

Tried(b, p) == [b EXCEPT !.slots[p].attempts = @ + 1]

\* consume_code on a wrong guess: counted and committed at once, and the row
\* is deleted with the last attempt.
GuessWrong(w) ==
  LET p == request[w].purpose  e == request[w].email
      after == Tried(Pruned, p) IN
  /\ Judged(w)
  /\ budget' = [after EXCEPT !.failures = Append(@, Window)]
  /\ codes' = IF after.slots[p].attempts >= MaxAttempts
              THEN [codes EXCEPT ![e] = NoRow] ELSE codes
  /\ guesses' = Append(guesses, Window)
  /\ Finish(w)
  /\ UNCHANGED <<issued, account, budgetLock, mails, proven, effects>>

\* consume_code on the right guess: flushed, the row stays locked.
GuessRight(w) ==
  /\ Judged(w)
  /\ budgetLock' = w
  /\ request' = [request EXCEPT ![w].op = "effect"]
  /\ UNCHANGED <<budget, codes, issued, account, guesses, mails, proven, effects>>

-----------------------------------------------------------------------------
\* An ORM session writes the columns it changed against what it had loaded.
Written(was, now) ==
  [email |-> IF now.email # was.email THEN now.email ELSE account.email,
   verified |-> IF now.verified # was.verified THEN now.verified
                ELSE account.verified]

\* The commit of login_by_code, reset_password or verify_email_code.
Commit(w) ==
  LET p == request[w].purpose  e == request[w].email IN
  /\ request[w].op = "effect"
  /\ codes' = [codes EXCEPT ![e] = NoRow]
  /\ budget' = [Pruned EXCEPT !.slots[p] = NoSlot]
  /\ account' = IF p = "bind"
                THEN Written(request[w].was, [email |-> e, verified |-> TRUE])
                ELSE account
  /\ proven' = IF p = "bind" THEN proven \cup {e} ELSE proven
  /\ effects' = effects + 1
  /\ budgetLock' = NoOne
  /\ Finish(w)
  /\ UNCHANGED <<issued, guesses, mails>>

\* The endpoint failed after consume_code (a new password equal to the
\* management password, a lost connection): the transaction is rolled back.
Abort(w) ==
  /\ request[w].op = "effect"
  /\ budgetLock' = NoOne
  /\ Finish(w)
  /\ UNCHANGED <<budget, codes, issued, account, guesses, mails, proven, effects>>

\* update_profile reads the owner ...
ReadProfile(w) ==
  /\ request[w].op = "none"
  /\ \E e \in Emails :
       request' = [request EXCEPT ![w] =
         [op |-> "profile", purpose |-> "bind", email |-> e, was |-> account]]
  /\ UNCHANGED <<budget, codes, issued, account, budgetLock, guesses, mails, proven, effects>>

\* ... and writes a new address back, unverified.
CommitProfile(w) ==
  LET e == request[w].email  was == request[w].was IN
  /\ request[w].op = "profile"
  /\ account' = Written(was, [email |-> e,
                              verified |-> e = was.email /\ was.verified])
  /\ Finish(w)
  /\ UNCHANGED <<budget, codes, issued, budgetLock, guesses, mails, proven, effects>>

EmailNext ==
  \/ EmailTick
  \/ \E w \in EmailWorkers :
       \/ Ask(w) \/ Issue(w) \/ Turned(w)
       \/ GuessWrong(w) \/ GuessRight(w) \/ Commit(w) \/ Abort(w)
       \/ ReadProfile(w) \/ CommitProfile(w)

EmailSpec == EmailInit /\ [][EmailNext]_emailVars

-----------------------------------------------------------------------------
Stamps(max) == {s \in Seq(0 .. Window) : Len(s) <= max}
Slots == [email : Emails \cup {NoOne}, id : CodeIds \cup {NoCode},
          attempts : 0 .. MaxAttempts]
Accounts == [email : Emails, verified : BOOLEAN]

\* Every variable has its type; the budget row stays one that decode_state
\* accepts (an oversized list would answer 503 to every later request).
EmailTypeOK ==
  /\ budget.failures \in Stamps(MaxAttempts)
  /\ budget.deliveries \in Stamps(MaxDeliveries)
  /\ budget.slots \in [Purposes -> Slots]
  /\ codes \in [Emails -> [id : CodeIds \cup {NoCode}, left : 0 .. Life,
                           resent : 0 .. Window]]
  /\ issued \in 0 .. MaxCodes
  /\ account \in Accounts
  /\ request \in [EmailWorkers ->
       [op : {"none", "send", "resend", "redeem", "effect", "profile"},
        purpose : Purposes, email : Emails \cup {NoOne}, was : Accounts \cup {Unknown}]]
  /\ budgetLock \in EmailWorkers \cup {NoOne}
  /\ guesses \in Seq(1 .. Window) /\ mails \in Seq(1 .. Window)
  /\ proven \subseteq Emails /\ effects \in Nat

\* However requests that issue, resend and redeem race, no five minutes see
\* more wrong guesses judged or more codes issued than the limits allow: the
\* budget row is the only memory of it (check_budget, MAX_DELIVERIES).
WithinBudget == Len(guesses) <= MaxAttempts /\ Len(mails) <= MaxDeliveries

\* A code is spent once, for the purpose and the address it was issued for.
OpenFor(p) ==
  IF budget.slots[p].email \in Emails /\ Matches(p, budget.slots[p].email)
     /\ (Fresh(budget.slots[p].email)
         \/ (budgetLock # NoOne /\ request[budgetLock].purpose = p))
     /\ budget.slots[p].attempts < MaxAttempts
  THEN budget.slots[p].id ELSE NoCode
OpenNow == [p \in Purposes |-> OpenFor(p)]
OpenIds == {OpenNow[p] : p \in Purposes}

\* Issuing and redeeming is the abstract contract of codes: an effect takes
\* the newest open code of its purpose and closes it (email_attempts.py).
Contract == INSTANCE CodeContract WITH
              Codes <- CodeIds, open <- OpenNow,
              closed <- (1 .. issued) \ OpenIds
CodesHonoured == Contract!CodeContractSpec

\* An address counts as verified only if a code for it was redeemed or it was
\* verified from the start (update_profile: a changed address is unverified).
VerifiedWasProven ==
  [][ account'.verified /\ account' # account
      => account'.email \in proven' ]_emailVars
=============================================================================
