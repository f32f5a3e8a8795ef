--------------------------- MODULE AccountsProofs ---------------------------
(***************************************************************************)
(* Theorems about the codes sent by e-mail, the owner's sessions with the  *)
(* management protection, and the OpenID provider, for every value of the  *)
(* constants.                                                              *)
(***************************************************************************)
EXTENDS MCAccounts, CollectionLemmas

(* Codes sent by e-mail.  The histories of the last window are what the    *)
(* budget row remembers, because pruning forgets only what is over; and a  *)
(* right guess is applied under the lock it was judged under, so the code  *)
(* of its purpose is still the one in the slot.                            *)

Budgets == [failures : Seq(0 .. Window), deliveries : Seq(0 .. Window), slots : [Purposes -> Slots]]
CodeRows == [id : CodeIds \cup {NoCode}, left : 0 .. Life, resent : 0 .. Window]
Requests == [op : {"none", "send", "resend", "redeem", "effect", "profile"}, purpose : Purposes,
             email : Emails \cup {NoOne}, was : Accounts \cup {Unknown}]

CodesTyped == EmailTypeOK /\ budget \in Budgets

\* The histories are what the row still remembers of the window.
Remembered == guesses = Running(budget.failures) /\ mails = Running(budget.deliveries)

\* Who is at work on an endpoint was asked for an address, and who applies an
\* effect holds the lock and has found the code of its purpose.
EffectsEarned == \A w \in EmailWorkers :
  /\ request[w].op # "none" => request[w].email \in Emails
  /\ request[w].op = "effect" <=> budgetLock = w
  /\ request[w].op = "effect" =>
       /\ Matches(request[w].purpose, request[w].email)
       /\ budget.slots[request[w].purpose].attempts < MaxAttempts

\* No two slots name one code, and none names a later one.
SlotsApart ==
  /\ \A p \in Purposes : budget.slots[p].id <= issued
  /\ \A p, q \in Purposes : budget.slots[p].id = budget.slots[q].id => p = q \/ budget.slots[p].id = NoCode

CodesInv == CodesTyped /\ Remembered /\ EffectsEarned /\ SlotsApart

-----------------------------------------------------------------------------
\* What pruning and ageing leave of a list of stamps.
LEMMA RunningKeeps ==
  ASSUME NEW s \in Seq(0 .. Window)
  PROVE  /\ Running(s) \in Seq(0 .. Window) /\ Running(s) \in Seq(1 .. Window)
         /\ Len(Running(s)) <= Len(s) /\ Len(Running(s)) \in Nat
         /\ Running(Running(s)) = Running(s)
  <1> USE EmailAssumption
  <1>1. (0 .. Window) \cap (1 .. Window) = 1 .. Window /\ 1 .. Window \subseteq 0 .. Window
    OBVIOUS
  <1>2. Running(s) \in Seq(1 .. Window) /\ Len(Running(s)) <= Len(s)
    BY <1>1, OnlyKeeps DEF Running
  <1>3. Running(s) \in Seq(0 .. Window) /\ Len(Running(s)) \in Nat
    BY <1>1, <1>2
  <1>4. Running(Running(s)) = Running(s)
    BY OnlyAgain DEF Running
  <1> QED BY <1>2, <1>3, <1>4

LEMMA RunningGrows ==
  ASSUME NEW s \in Seq(0 .. Window)
  PROVE  /\ Append(s, Window) \in Seq(0 .. Window)
         /\ Running(Append(s, Window)) = Append(Running(s), Window)
  <1> USE EmailAssumption
  <1>1. Window \in 0 .. Window /\ Window \in 1 .. Window
    OBVIOUS
  <1> QED BY <1>1, OnlyAppended DEF Running

LEMMA RunningAppended ==
  ASSUME NEW s \in Seq(0 .. Window), NEW t \in 0 .. Window
  PROVE  Running(Append(s, t)) = IF t = 0 THEN Running(s) ELSE Append(Running(s), t)
  <1>1. Running(Append(s, t)) = IF t \in 1 .. Window THEN Append(Running(s), t) ELSE Running(s)
    BY OnlyAppended DEF Running
  <1>2. t \in 1 .. Window <=> t # 0
    BY EmailAssumption
  <1> QED BY <1>1, <1>2

LEMMA AgedKeeps ==
  ASSUME NEW s \in Seq(0 .. Window)
  PROVE  Aged(s) \in Seq(0 .. Window) /\ Len(Aged(s)) = Len(s)
  <1> USE EmailAssumption
  <1>1. \A t \in 0 .. Window : Fewer(t) \in 0 .. Window
    BY DEF Fewer
  <1>2. DOMAIN s = 1 .. Len(s) /\ Len(s) \in Nat /\ \A i \in 1 .. Len(s) : s[i] \in 0 .. Window
    OBVIOUS
  <1> QED BY <1>1, <1>2 DEF Aged

LEMMA AgedAppended ==
  ASSUME NEW s \in Seq(0 .. Window), NEW t \in 0 .. Window
  PROVE  Aged(Append(s, t)) = Append(Aged(s), Fewer(t))
  <1> USE EmailAssumption
  <1> DEFINE u == Append(s, t)
             a == Aged(u)
             b == Append(Aged(s), Fewer(t))
  <1>1. Fewer(t) \in 0 .. Window
    BY DEF Fewer
  <1>2. /\ u \in Seq(0 .. Window) /\ DOMAIN u = 1 .. Len(s) + 1 /\ u[Len(s) + 1] = t
        /\ Len(s) \in Nat /\ \A i \in 1 .. Len(s) : u[i] = s[i]
    OBVIOUS
  <1>3. a = [i \in 1 .. Len(s) + 1 |-> Fewer(u[i])]
    BY <1>2 DEF Aged
  <1>4. Aged(s) \in Seq(0 .. Window) /\ Len(Aged(s)) = Len(s) /\ \A i \in 1 .. Len(s) : Aged(s)[i] = Fewer(s[i])
    <2>1. DOMAIN s = 1 .. Len(s)
      OBVIOUS
    <2> QED BY <2>1, AgedKeeps DEF Aged
  <1>5. /\ b = [i \in 1 .. Len(s) + 1 |-> b[i]] /\ b[Len(s) + 1] = Fewer(t)
        /\ \A i \in 1 .. Len(s) : b[i] = Aged(s)[i]
    <2>1. ASSUME NEW q \in Seq(0 .. Window), NEW e \in 0 .. Window, Len(q) = Len(s)
          PROVE  LET c == Append(q, e) IN
                 /\ c = [i \in 1 .. Len(s) + 1 |-> c[i]] /\ c[Len(s) + 1] = e
                 /\ \A i \in 1 .. Len(s) : c[i] = q[i]
      <3> DEFINE c == Append(q, e)
      <3>1. Len(s) \in Nat
        BY <1>2
      <3>2. c \in Seq(0 .. Window) /\ Len(c) = Len(q) + 1 /\ c[Len(q) + 1] = e
        OBVIOUS
      <3>3. \A i \in 1 .. Len(q) : c[i] = q[i]
        OBVIOUS
      <3>4. c = [i \in 1 .. Len(q) + 1 |-> c[i]]
        <4> HIDE DEF c
        <4> QED BY <3>2
      <3> HIDE DEF c
      <3>5. /\ c = [i \in 1 .. Len(s) + 1 |-> c[i]] /\ c[Len(s) + 1] = e
            /\ \A i \in 1 .. Len(s) : c[i] = q[i]
        BY <2>1, <3>2, <3>3, <3>4
      <3> QED BY <3>5 DEF c
    <2> QED BY <1>1, <1>4, <2>1
  <1> HIDE DEF a, b, u
  <1>6. ASSUME NEW i \in 1 .. Len(s) + 1 PROVE a[i] = b[i]
    <2>1. CASE i = Len(s) + 1
      BY <1>2, <1>3, <1>5, <2>1
    <2>2. CASE i # Len(s) + 1
      <3>1. i \in 1 .. Len(s)
        BY <1>2, <2>2
      <3> QED BY <1>2, <1>3, <1>4, <1>5, <3>1
    <2> QED BY <2>1, <2>2
  <1>7. a = b
    BY <1>3, <1>5, <1>6
  <1> QED BY <1>7 DEF a, b, u

\* A stamp that is over before time passes is over after it.
LEMMA RunningAges ==
  ASSUME NEW s \in Seq(0 .. Window)
  PROVE  Running(Aged(Running(s))) = Running(Aged(s))
  <1> USE EmailAssumption
  <1> DEFINE all == {t \in Seq(0 .. Window) : Running(Aged(Running(t))) = Running(Aged(t))}
  <1>1. <<>> \in all
    <2>1. Running(<<>>) = <<>>
      BY OnlyNone DEF Running
    <2> QED BY <2>1
  <1>2. ASSUME NEW t \in Seq(0 .. Window), NEW e \in 0 .. Window, t \in all PROVE Append(t, e) \in all
    <2>1. Append(t, e) \in Seq(0 .. Window) /\ Running(Aged(Running(t))) = Running(Aged(t))
      BY <1>2
    <2>2. /\ Running(t) \in Seq(0 .. Window) /\ Aged(t) \in Seq(0 .. Window)
          /\ Aged(Running(t)) \in Seq(0 .. Window)
      BY RunningKeeps, AgedKeeps
    <2>3. Aged(Append(t, e)) = Append(Aged(t), Fewer(e)) /\ Fewer(e) \in 0 .. Window
      BY AgedAppended DEF Fewer
    <2>4. CASE e = 0
      <3>1. Running(Append(t, e)) = Running(t)
        BY <2>4, RunningAppended
      <3>2. Fewer(e) = 0
        BY <2>4 DEF Fewer
      <3>3. Running(Append(Aged(t), Fewer(e))) = Running(Aged(t))
        BY <2>2, <2>3, <3>2, RunningAppended
      <3> QED BY <2>1, <2>3, <3>1, <3>3
    <2>5. CASE e # 0
      <3>1. Running(Append(t, e)) = Append(Running(t), e)
        BY <2>5, RunningAppended
      <3>2. Aged(Append(Running(t), e)) = Append(Aged(Running(t)), Fewer(e))
        BY <2>2, AgedAppended
      <3>3. ASSUME NEW q \in Seq(0 .. Window), NEW r \in Seq(0 .. Window), Running(q) = Running(r)
            PROVE  Running(Append(q, Fewer(e))) = Running(Append(r, Fewer(e)))
        <4>1. ASSUME NEW f \in 0 .. Window PROVE Running(Append(q, f)) = Running(Append(r, f))
          <5>1. Running(Append(q, f)) = IF f = 0 THEN Running(q) ELSE Append(Running(q), f)
            BY RunningAppended
          <5>2. Running(Append(r, f)) = IF f = 0 THEN Running(r) ELSE Append(Running(r), f)
            BY RunningAppended
          <5> QED BY <3>3, <5>1, <5>2
        <4> QED BY <2>3, <4>1
      <3>4. Running(Append(Aged(Running(t)), Fewer(e))) = Running(Append(Aged(t), Fewer(e)))
        BY <2>1, <2>2, <3>3
      <3> QED BY <2>1, <2>3, <3>1, <3>2, <3>4
    <2> QED BY <2>4, <2>5
  <1>3. Seq(0 .. Window) \subseteq all
    <2> HIDE DEF all
    <2> QED BY <1>1, <1>2, Growing
  <1> QED BY <1>3

-----------------------------------------------------------------------------
LEMMA PrunedIs ==
  ASSUME CodesInv
  PROVE  /\ Pruned = [failures |-> Running(budget.failures), deliveries |-> Running(budget.deliveries),
                      slots |-> budget.slots]
         /\ Pruned \in Budgets
         /\ Running(Pruned.failures) = Pruned.failures /\ Running(Pruned.deliveries) = Pruned.deliveries
         /\ Len(Pruned.failures) <= MaxAttempts /\ Len(Pruned.deliveries) <= MaxDeliveries
  <1> DEFINE f == Running(budget.failures)
             d == Running(budget.deliveries)
  <1>1. budget \in Budgets /\ Len(budget.failures) <= MaxAttempts /\ Len(budget.deliveries) <= MaxDeliveries
    BY DEF CodesInv, CodesTyped, EmailTypeOK, Stamps
  <1>2. Pruned = [failures |-> f, deliveries |-> d, slots |-> budget.slots]
    BY DEF Pruned
  <1>3. budget.failures \in Seq(0 .. Window) /\ budget.deliveries \in Seq(0 .. Window)
        /\ budget.slots \in [Purposes -> Slots]
    BY <1>1 DEF Budgets
  <1>4. f \in Seq(0 .. Window) /\ Len(f) <= Len(budget.failures) /\ Len(f) \in Nat /\ Running(f) = f
    BY <1>3, RunningKeeps
  <1>5. d \in Seq(0 .. Window) /\ Len(d) <= Len(budget.deliveries) /\ Len(d) \in Nat /\ Running(d) = d
    BY <1>3, RunningKeeps
  <1>6. Len(f) <= MaxAttempts /\ Len(d) <= MaxDeliveries
    <2>1. Len(budget.failures) \in Nat /\ Len(budget.deliveries) \in Nat
      BY <1>3
    <2> HIDE DEF f, d
    <2> QED BY <1>1, <1>4, <1>5, <2>1, EmailAssumption
  <1> HIDE DEF f, d
  <1>7. Pruned \in Budgets /\ Pruned.failures = f /\ Pruned.deliveries = d
    BY <1>2, <1>3, <1>4, <1>5 DEF Budgets
  <1> QED BY <1>2, <1>4, <1>5, <1>6, <1>7 DEF f, d

\* The invariant says that few wrong guesses and mails are remembered.
LEMMA InvWithin ==
  ASSUME CodesInv
  PROVE  WithinBudget
  BY PrunedIs DEF CodesInv, Remembered, WithinBudget, Budgets

LEMMA CodesStart == EmailInit => CodesInv
  <1> SUFFICES ASSUME EmailInit PROVE CodesInv
    OBVIOUS
  <1> USE EmailAssumption
  <1>1. budget.slots = [p \in Purposes |-> NoSlot] /\ budget.failures = <<>> /\ budget.deliveries = <<>>
        /\ issued = 0 /\ guesses = <<>> /\ mails = <<>>
    BY DEF EmailInit
  <1>2. NoSlot \in Slots /\ NoRow \in CodeRows /\ Quiet \in Requests
    BY DEF NoSlot, NoRow, Quiet, Unknown, Slots, CodeRows, Requests, NoCode, Life
  <1>3. <<>> \in Seq(0 .. Window) /\ <<>> \in Seq(1 .. Window) /\ Len(<<>>) = 0
    OBVIOUS
  <1>4. budget \in Budgets
    BY <1>2, <1>3 DEF EmailInit, Budgets
  <1>5. EmailTypeOK
    <2>1. /\ budget.failures \in Stamps(MaxAttempts) /\ budget.deliveries \in Stamps(MaxDeliveries)
          /\ budget.slots \in [Purposes -> Slots]
      BY <1>1, <1>2, <1>3 DEF Stamps
    <2>2. codes \in [Emails -> CodeRows] /\ request \in [EmailWorkers -> Requests]
      BY <1>2 DEF EmailInit
    <2>3. /\ issued \in 0 .. MaxCodes /\ account \in Accounts /\ budgetLock \in EmailWorkers \cup {NoOne}
          /\ guesses \in Seq(1 .. Window) /\ mails \in Seq(1 .. Window)
          /\ proven \subseteq Emails /\ effects \in Nat
      BY <1>1, <1>3 DEF EmailInit, Accounts
    <2> QED BY <2>1, <2>2, <2>3 DEF EmailTypeOK, CodeRows, Requests
  <1>6. Remembered
    BY <1>1, OnlyNone DEF Remembered, Running
  <1>7. EffectsEarned
    BY DEF EmailInit, EffectsEarned, Quiet
  <1>8. SlotsApart
    BY <1>1 DEF SlotsApart, NoSlot, NoCode
  <1> QED BY <1>4, <1>5, <1>6, <1>7, <1>8 DEF CodesInv, CodesTyped

LEMMA CodesTypes ==
  ASSUME CodesInv
  PROVE  /\ budget \in Budgets /\ budget.slots \in [Purposes -> Slots]
         /\ budget.failures \in Seq(0 .. Window) /\ budget.deliveries \in Seq(0 .. Window)
         /\ codes \in [Emails -> CodeRows] /\ request \in [EmailWorkers -> Requests]
         /\ issued \in 0 .. MaxCodes /\ account \in Accounts
         /\ budgetLock \in EmailWorkers \cup {NoOne}
         /\ guesses \in Seq(1 .. Window) /\ mails \in Seq(1 .. Window)
         /\ proven \subseteq Emails /\ effects \in Nat
  BY DEF CodesInv, CodesTyped, EmailTypeOK, CodeRows, Requests, Budgets

\* The type invariant from its parts.
LEMMA TypesMade ==
  ASSUME budget' \in Budgets, Len(budget'.failures) <= MaxAttempts, Len(budget'.deliveries) <= MaxDeliveries,
         codes' \in [Emails -> CodeRows], request' \in [EmailWorkers -> Requests],
         issued' \in 0 .. MaxCodes, account' \in Accounts, budgetLock' \in EmailWorkers \cup {NoOne},
         guesses' \in Seq(1 .. Window), mails' \in Seq(1 .. Window),
         proven' \subseteq Emails, effects' \in Nat
  PROVE  CodesTyped'
  BY DEF CodesTyped, EmailTypeOK, CodeRows, Requests, Budgets, Stamps

\* A request that moves without touching the row or the codes.
Aside(w) == Ask(w) \/ Turned(w) \/ GuessRight(w) \/ Abort(w) \/ ReadProfile(w) \/ CommitProfile(w)

\* What such a request is afterwards.
Sound(r, w, lock) ==
  /\ r.op # "none" => r.email \in Emails
  /\ r.op = "effect" <=> lock = w
  /\ r.op = "effect" => Matches(r.purpose, r.email) /\ budget.slots[r.purpose].attempts < MaxAttempts

LEMMA AsideIs ==
  ASSUME CodesInv, NEW w \in EmailWorkers, Aside(w)
  PROVE  /\ UNCHANGED <<budget, codes, issued, guesses, mails, proven, effects>>
         /\ \E r \in Requests : request' = [request EXCEPT ![w] = r] /\ Sound(r, w, budgetLock')
         /\ account' \in Accounts
         /\ budgetLock' \in EmailWorkers \cup {NoOne}
         /\ \A v \in EmailWorkers : v # w => (budgetLock' = v <=> budgetLock = v)
  <1> USE EmailAssumption
  <1>1. /\ request \in [EmailWorkers -> Requests] /\ account \in Accounts
        /\ budgetLock \in EmailWorkers \cup {NoOne}
    BY CodesTypes
  <1>2. /\ request[w].op # "none" => request[w].email \in Emails
        /\ request[w].op = "effect" <=> budgetLock = w
        /\ request[w].op = "effect" => /\ Matches(request[w].purpose, request[w].email)
                                       /\ budget.slots[request[w].purpose].attempts < MaxAttempts
    BY DEF CodesInv, EffectsEarned
  <1>3. Quiet \in Requests /\ Quiet.op = "none"
    BY DEF Requests, Quiet, Unknown
  <1>4. request[w] \in Requests /\ NoOne # w
    BY <1>1
  <1>5. CASE Ask(w)
    <2>1. PICK op \in {"send", "resend", "redeem"}, p \in Purposes, e \in Emails :
            request' = [request EXCEPT ![w] =
              [op |-> op, purpose |-> p, email |-> e,
               was |-> IF op = "redeem" /\ p = "bind" THEN account ELSE Unknown]]
      BY <1>5 DEF Ask
    <2> DEFINE r == [op |-> op, purpose |-> p, email |-> e,
                     was |-> IF op = "redeem" /\ p = "bind" THEN account ELSE Unknown]
    <2>2. r \in Requests /\ r.op # "effect" /\ r.email \in Emails /\ request' = [request EXCEPT ![w] = r]
      BY <1>1, <2>1 DEF Requests
    <2>3. budgetLock # w /\ budgetLock' = budgetLock
      BY <1>2, <1>5 DEF Ask
    <2> HIDE DEF r
    <2>4. Sound(r, w, budgetLock')
      BY <2>2, <2>3 DEF Sound
    <2> QED BY <1>1, <1>5, <2>2, <2>3, <2>4 DEF Ask
  <1>6. CASE Turned(w)
    <2>1. request' = [request EXCEPT ![w] = Quiet] /\ budgetLock' = budgetLock /\ budgetLock # w
      BY <1>2, <1>6 DEF Turned, Finish
    <2>2. Sound(Quiet, w, budgetLock')
      BY <1>3, <2>1 DEF Sound
    <2> QED BY <1>1, <1>3, <1>6, <2>1, <2>2 DEF Turned
  <1>7. CASE GuessRight(w)
    <2> DEFINE r == [request[w] EXCEPT !.op = "effect"]
    <2>1. request' = [request EXCEPT ![w] = r] /\ budgetLock' = w /\ budgetLock = NoOne
          /\ request[w].op = "redeem"
      BY <1>7 DEF GuessRight, Judged, BudgetFree
    <2>2. r \in Requests /\ r.op = "effect" /\ r.email = request[w].email /\ r.purpose = request[w].purpose
      BY <1>4 DEF Requests
    <2>3. Matches(r.purpose, r.email) /\ budget.slots[r.purpose].attempts < MaxAttempts
      BY <1>7, <2>2 DEF GuessRight, Judged
    <2> HIDE DEF r
    <2>4. Sound(r, w, budgetLock')
      BY <1>2, <2>1, <2>2, <2>3 DEF Sound
    <2> QED BY <1>1, <1>7, <2>1, <2>2, <2>4 DEF GuessRight
  <1>8. CASE Abort(w)
    <2>1. request' = [request EXCEPT ![w] = Quiet] /\ budgetLock' = NoOne /\ budgetLock = w
      BY <1>2, <1>8 DEF Abort, Finish
    <2>2. Sound(Quiet, w, budgetLock')
      BY <1>3, <1>4, <2>1 DEF Sound
    <2> QED BY <1>1, <1>3, <1>8, <2>1, <2>2 DEF Abort
  <1>9. CASE ReadProfile(w)
    <2>1. PICK e \in Emails : request' = [request EXCEPT ![w] =
            [op |-> "profile", purpose |-> "bind", email |-> e, was |-> account]]
      BY <1>9 DEF ReadProfile
    <2> DEFINE r == [op |-> "profile", purpose |-> "bind", email |-> e, was |-> account]
    <2>2. r \in Requests /\ r.op # "effect" /\ r.email \in Emails /\ request' = [request EXCEPT ![w] = r]
      BY <1>1, <2>1 DEF Requests
    <2>3. budgetLock # w /\ budgetLock' = budgetLock
      BY <1>2, <1>9 DEF ReadProfile
    <2> HIDE DEF r
    <2>4. Sound(r, w, budgetLock')
      BY <2>2, <2>3 DEF Sound
    <2> QED BY <1>1, <1>9, <2>2, <2>3, <2>4 DEF ReadProfile
  <1>10. CASE CommitProfile(w)
    <2>1. request' = [request EXCEPT ![w] = Quiet] /\ budgetLock' = budgetLock /\ budgetLock # w
      BY <1>2, <1>10 DEF CommitProfile, Finish
    <2>2. Sound(Quiet, w, budgetLock')
      BY <1>3, <2>1 DEF Sound
    <2>3. account' \in Accounts
      <3>1. request[w].was \in Accounts \cup {Unknown} /\ request[w].email \in Emails
        BY <1>2, <1>4, <1>10 DEF CommitProfile, Requests
      <3>2. request[w].was.verified \in BOOLEAN
        <4>1. Unknown.verified \in BOOLEAN
          BY DEF Unknown
        <4>2. \A a \in Accounts : a.verified \in BOOLEAN
          BY DEF Accounts
        <4> QED BY <3>1, <4>1, <4>2
      <3> QED BY <1>1, <1>10, <3>1, <3>2 DEF CommitProfile, Written, Accounts
    <2> QED BY <1>1, <1>3, <1>10, <2>1, <2>2, <2>3 DEF CommitProfile
  <1> QED BY <1>5, <1>6, <1>7, <1>8, <1>9, <1>10 DEF Aside

LEMMA AsideKeeps ==
  ASSUME CodesInv, NEW w \in EmailWorkers, Aside(w)
  PROVE  CodesInv'
  <1>1. PICK r \in Requests : request' = [request EXCEPT ![w] = r] /\ Sound(r, w, budgetLock')
    BY AsideIs
  <1>2. UNCHANGED <<budget, codes, issued, guesses, mails, proven, effects>>
    BY AsideIs
  <1>3. /\ account' \in Accounts /\ budgetLock' \in EmailWorkers \cup {NoOne}
        /\ \A v \in EmailWorkers : v # w => (budgetLock' = v <=> budgetLock = v)
    BY AsideIs
  <1>4. request \in [EmailWorkers -> Requests]
    BY CodesTypes
  <1>5. CodesTyped'
    <2>1. Len(budget.failures) <= MaxAttempts /\ Len(budget.deliveries) <= MaxDeliveries
      BY DEF CodesInv, CodesTyped, EmailTypeOK, Stamps
    <2>2. request' \in [EmailWorkers -> Requests]
      BY <1>1, <1>4
    <2> QED BY <1>2, <1>3, <2>1, <2>2, CodesTypes, TypesMade
  <1>6. Remembered'
    BY <1>2 DEF CodesInv, Remembered
  <1>7. EffectsEarned'
    <2>1. \A p, e : Matches(p, e)' = Matches(p, e)
      BY <1>2 DEF Matches
    <2>2. ASSUME NEW v \in EmailWorkers
          PROVE  /\ request'[v].op # "none" => request'[v].email \in Emails
                 /\ request'[v].op = "effect" <=> budgetLock' = v
                 /\ request'[v].op = "effect" =>
                      /\ Matches(request'[v].purpose, request'[v].email)
                      /\ budget.slots[request'[v].purpose].attempts < MaxAttempts
      <3>1. CASE v = w
        <4>1. request'[v] = r
          BY <1>1, <1>4, <3>1
        <4> QED BY <1>1, <3>1, <4>1 DEF Sound
      <3>2. CASE v # w
        <4>1. request'[v] = request[v] /\ (budgetLock' = v <=> budgetLock = v)
          BY <1>1, <1>3, <1>4, <3>2
        <4> QED BY <4>1 DEF CodesInv, EffectsEarned
      <3> QED BY <3>1, <3>2
    <2> QED BY <1>2, <2>1, <2>2 DEF EffectsEarned
  <1>8. SlotsApart'
    BY <1>2 DEF CodesInv, SlotsApart
  <1> QED BY <1>5, <1>6, <1>7, <1>8 DEF CodesInv

LEMMA TickKeeps ==
  ASSUME CodesInv, EmailTick
  PROVE  CodesInv'
  <1> USE EmailAssumption
  <1>1. /\ budget.failures \in Seq(0 .. Window) /\ budget.deliveries \in Seq(0 .. Window)
        /\ codes \in [Emails -> CodeRows] /\ budget.slots \in [Purposes -> Slots]
    BY CodesTypes
  <1>2. Len(budget.failures) <= MaxAttempts /\ Len(budget.deliveries) <= MaxDeliveries
    BY DEF CodesInv, CodesTyped, EmailTypeOK, Stamps
  <1>3. UNCHANGED <<issued, account, request, budgetLock, proven, effects>>
    BY DEF EmailTick
  <1>4. budget'.failures = Aged(budget.failures) /\ budget'.deliveries = Aged(budget.deliveries)
        /\ budget'.slots = budget.slots
    BY DEF EmailTick
  <1>5. /\ Aged(budget.failures) \in Seq(0 .. Window) /\ Len(Aged(budget.failures)) <= MaxAttempts
        /\ Aged(budget.deliveries) \in Seq(0 .. Window) /\ Len(Aged(budget.deliveries)) <= MaxDeliveries
    BY <1>1, <1>2, AgedKeeps
  <1>6. budget' \in Budgets
    BY <1>1, <1>5 DEF EmailTick, Budgets
  <1>7. /\ codes' \in [Emails -> CodeRows]
        /\ \A e \in Emails : codes'[e].id = codes[e].id
    <2>1. Life \in Nat
      BY DEF Life
    <2>2. \A c \in CodeRows : [id |-> c.id, left |-> Fewer(c.left), resent |-> Fewer(c.resent)] \in CodeRows
      BY <2>1 DEF CodeRows, Fewer
    <2> HIDE DEF CodeRows
    <2> QED BY <1>1, <2>2 DEF EmailTick
  <1>8. guesses' \in Seq(1 .. Window) /\ mails' \in Seq(1 .. Window) /\ Remembered'
    <2>1. /\ guesses = Running(budget.failures) /\ mails = Running(budget.deliveries)
      BY DEF CodesInv, Remembered
    <2>2. guesses' = Running(Aged(guesses)) /\ mails' = Running(Aged(mails))
      BY DEF EmailTick
    <2>3. guesses' = Running(Aged(budget.failures)) /\ mails' = Running(Aged(budget.deliveries))
      BY <1>1, <2>1, <2>2, RunningAges
    <2>4. guesses' \in Seq(1 .. Window) /\ mails' \in Seq(1 .. Window)
      BY <1>5, <2>3, RunningKeeps
    <2> QED BY <1>4, <2>3, <2>4 DEF Remembered
  <1>9. CodesTyped'
    BY <1>3, <1>4, <1>5, <1>6, <1>7, <1>8, CodesTypes, TypesMade
  <1>10. EffectsEarned'
    <2>1. \A p : \A e \in Emails : Matches(p, e)' = Matches(p, e)
      BY <1>4, <1>7 DEF Matches
    <2> QED BY <1>3, <1>4, <2>1 DEF CodesInv, EffectsEarned
  <1>11. SlotsApart'
    BY <1>3, <1>4 DEF CodesInv, SlotsApart
  <1> QED BY <1>8, <1>9, <1>10, <1>11 DEF CodesInv

LEMMA IssueKeeps ==
  ASSUME CodesInv, NEW w \in EmailWorkers, Issue(w)
  PROVE  CodesInv'
  <1> USE EmailAssumption
  <1> DEFINE p == request[w].purpose
             e == request[w].email
             made == [email |-> e, id |-> issued + 1, attempts |-> 0]
  <1>1. /\ budget.slots \in [Purposes -> Slots] /\ codes \in [Emails -> CodeRows]
        /\ request \in [EmailWorkers -> Requests] /\ issued \in 0 .. MaxCodes
        /\ mails \in Seq(1 .. Window)
    BY CodesTypes
  <1>2. /\ issued' = issued + 1 /\ issued < MaxCodes /\ budgetLock = NoOne /\ request[w].op \in {"send", "resend"}
        /\ Len(Pruned.deliveries) < MaxDeliveries
        /\ UNCHANGED <<account, budgetLock, guesses, proven, effects>>
        /\ mails' = Append(mails, Window) /\ request' = [request EXCEPT ![w] = Quiet]
    BY DEF Issue, BudgetFree, Finish
  <1>3. p \in Purposes /\ e \in Emails
    BY <1>1, <1>2 DEF Requests, CodesInv, EffectsEarned
  <1>4. budget' = [failures |-> Pruned.failures, deliveries |-> Append(Pruned.deliveries, Window),
                   slots |-> [budget.slots EXCEPT ![p] = made]]
    BY <1>2 DEF Issue
  <1>5. codes' = [a \in Emails |->
           IF a = e THEN [id |-> issued', left |-> Life,
                          resent |-> IF request[w].op = "resend" THEN Window ELSE 0]
           ELSE IF codes[a].id = budget.slots[p].id THEN NoRow ELSE codes[a]]
    BY DEF Issue
  <1>6. issued' \in 1 .. MaxCodes
    BY <1>1, <1>2
  <1> HIDE DEF p, e
  <1>7. made \in Slots
    BY <1>2, <1>3, <1>6 DEF Slots, CodeIds
  <1>8. codes' \in [Emails -> CodeRows]
    <2>1. Life \in Nat /\ NoRow \in CodeRows
      BY DEF Life, NoRow, CodeRows, NoCode
    <2>2. [id |-> issued', left |-> Life, resent |-> IF request[w].op = "resend" THEN Window ELSE 0] \in CodeRows
      BY <1>6, <2>1 DEF CodeRows, CodeIds
    <2> HIDE DEF CodeRows
    <2> QED BY <1>1, <1>5, <2>1, <2>2
  <1>9. /\ Pruned.failures \in Seq(0 .. Window) /\ Pruned.deliveries \in Seq(0 .. Window)
        /\ Pruned.failures = Running(budget.failures) /\ Pruned.deliveries = Running(budget.deliveries)
        /\ Running(Pruned.failures) = Pruned.failures /\ Running(Pruned.deliveries) = Pruned.deliveries
        /\ Len(Pruned.failures) <= MaxAttempts
    BY PrunedIs DEF Budgets
  <1>10. /\ Append(Pruned.deliveries, Window) \in Seq(0 .. Window)
         /\ Running(Append(Pruned.deliveries, Window)) = Append(Pruned.deliveries, Window)
         /\ Len(Append(Pruned.deliveries, Window)) <= MaxDeliveries
    <2>1. PICK d \in Seq(0 .. Window) : d = Pruned.deliveries
      BY <1>9
    <2>2. Len(d) < MaxDeliveries /\ Running(d) = d /\ Len(Append(d, Window)) = Len(d) + 1
      BY <1>2, <1>9, <2>1
    <2>3. Len(Append(d, Window)) <= MaxDeliveries
      BY <2>2
    <2> QED BY <2>1, <2>2, <2>3, RunningGrows
  <1>11. /\ budget'.failures = Pruned.failures /\ budget'.deliveries = Append(Pruned.deliveries, Window)
         /\ budget'.slots = [budget.slots EXCEPT ![p] = made]
    BY <1>4
  <1>12. budget' \in Budgets
    <2>1. [budget.slots EXCEPT ![p] = made] \in [Purposes -> Slots]
      BY <1>1, <1>3, <1>7
    <2> HIDE DEF made
    <2> QED BY <1>4, <1>9, <1>10, <2>1 DEF Budgets
  <1>13. Remembered'
    <2>1. guesses = Pruned.failures /\ mails = Pruned.deliveries
      BY <1>9 DEF CodesInv, Remembered
    <2> QED BY <1>2, <1>9, <1>10, <1>11, <2>1 DEF Remembered
  <1>14. request' \in [EmailWorkers -> Requests] /\ request'[w] = Quiet
         /\ \A v \in EmailWorkers \ {w} : request'[v] = request[v]
    <2>1. Quiet \in Requests
      BY DEF Requests, Quiet, Unknown
    <2> QED BY <1>1, <1>2, <2>1
  <1>15. CodesTyped'
    <2>1. mails' \in Seq(1 .. Window)
      BY <1>1, <1>2
    <2>2. issued' \in 0 .. MaxCodes
      BY <1>6
    <2> QED BY <1>2, <1>8, <1>9, <1>10, <1>11, <1>12, <1>14, <2>1, <2>2, CodesTypes, TypesMade
  <1>16. EffectsEarned'
    <2>1. ASSUME NEW v \in EmailWorkers
          PROVE  /\ request'[v].op # "none" => request'[v].email \in Emails
                 /\ request'[v].op # "effect" /\ budgetLock' # v
      <3>1. CASE v = w
        BY <1>2, <1>14, <3>1 DEF Quiet
      <3>2. CASE v # w
        BY <1>2, <1>14, <3>2 DEF CodesInv, EffectsEarned
      <3> QED BY <3>1, <3>2
    <2> QED BY <2>1 DEF EffectsEarned
  <1>17. SlotsApart'
    <2>1. /\ \A q \in Purposes : budget.slots[q].id <= issued
          /\ \A q, u \in Purposes : budget.slots[q].id = budget.slots[u].id
                                      => q = u \/ budget.slots[q].id = NoCode
      BY DEF CodesInv, SlotsApart
    <2>4. \A q \in Purposes : budget.slots[q].id \in Nat
      <3>1. \A s \in Slots : s.id \in Nat
        BY DEF Slots, CodeIds, NoCode
      <3> QED BY <1>1, <3>1
    <2>2. \A q \in Purposes : budget'.slots[q].id = IF q = p THEN issued + 1 ELSE budget.slots[q].id
      BY <1>1, <1>3, <1>11
    <2>3. issued \in Nat
      BY <1>1
    <2>5. \A q \in Purposes : budget'.slots[q].id <= issued'
      BY <1>2, <2>1, <2>2, <2>3, <2>4
    <2>6. ASSUME NEW q \in Purposes, NEW u \in Purposes, budget'.slots[q].id = budget'.slots[u].id
          PROVE  q = u \/ budget'.slots[q].id = NoCode
      <3>1. budget.slots[q].id < issued + 1 /\ budget.slots[u].id < issued + 1
        <4>1. \A n, m \in Nat : n <= m => n < m + 1
          OBVIOUS
        <4> QED BY <2>1, <2>3, <2>4, <4>1
      <3>2. q = p <=> u = p
        BY <2>2, <2>3, <2>4, <2>6, <3>1
      <3> QED BY <2>1, <2>2, <2>6, <3>2
    <2> QED BY <2>5, <2>6 DEF SlotsApart
  <1> QED BY <1>13, <1>15, <1>16, <1>17 DEF CodesInv

\* What a wrong guess leaves: one more attempt, and with the last one no row.
LEMMA WrongIs ==
  ASSUME CodesInv, NEW w \in EmailWorkers, GuessWrong(w)
  PROVE  LET p == request[w].purpose
             e == request[w].email
             slot == [budget.slots[p] EXCEPT !.attempts = budget.slots[p].attempts + 1]
         IN  /\ budget' = [failures |-> Append(Pruned.failures, Window), deliveries |-> Pruned.deliveries,
                           slots |-> [budget.slots EXCEPT ![p] = slot]]
             /\ codes' = IF slot.attempts >= MaxAttempts THEN [codes EXCEPT ![e] = NoRow] ELSE codes
             /\ slot \in Slots /\ slot.id = budget.slots[p].id /\ slot.email = budget.slots[p].email
             /\ slot.attempts = budget.slots[p].attempts + 1
  <1> USE EmailAssumption
  <1> DEFINE p == request[w].purpose
             e == request[w].email
             slot == [budget.slots[p] EXCEPT !.attempts = budget.slots[p].attempts + 1]
  <1>1. /\ budget.slots \in [Purposes -> Slots] /\ codes \in [Emails -> CodeRows]
        /\ request \in [EmailWorkers -> Requests] /\ guesses \in Seq(1 .. Window)
    BY CodesTypes
  <1>2. /\ request[w].op = "redeem" /\ budgetLock = NoOne /\ Len(Pruned.failures) < MaxAttempts
        /\ budget.slots[p].attempts < MaxAttempts
        /\ UNCHANGED <<issued, account, budgetLock, mails, proven, effects>>
        /\ guesses' = Append(guesses, Window) /\ request' = [request EXCEPT ![w] = Quiet]
    BY DEF GuessWrong, Judged, MayTry, BudgetFree, Finish
  <1>3. p \in Purposes /\ e \in Emails
    BY <1>1, <1>2 DEF Requests, CodesInv, EffectsEarned
  <1>4. /\ Pruned = [failures |-> Pruned.failures, deliveries |-> Pruned.deliveries, slots |-> budget.slots]
        /\ Pruned.failures \in Seq(0 .. Window) /\ Pruned.deliveries \in Seq(0 .. Window)
        /\ Pruned.failures = Running(budget.failures) /\ Pruned.deliveries = Running(budget.deliveries)
        /\ Running(Pruned.failures) = Pruned.failures /\ Running(Pruned.deliveries) = Pruned.deliveries
        /\ Len(Pruned.deliveries) <= MaxDeliveries
    <2>1. Pruned = [failures |-> Pruned.failures, deliveries |-> Pruned.deliveries, slots |-> budget.slots]
      BY DEF Pruned
    <2> QED BY <2>1, PrunedIs DEF Budgets
  <1>5. Tried(Pruned, p) = [failures |-> Pruned.failures, deliveries |-> Pruned.deliveries,
                            slots |-> [budget.slots EXCEPT ![p] = slot]]
    <2>1. PICK f, d : f = Pruned.failures /\ d = Pruned.deliveries
      OBVIOUS
    <2>2. Pruned = [failures |-> f, deliveries |-> d, slots |-> budget.slots]
      BY <1>4, <2>1
    <2> QED BY <1>3, <2>1, <2>2 DEF Tried
  <1>6. /\ budget' = [failures |-> Append(Pruned.failures, Window), deliveries |-> Pruned.deliveries,
                      slots |-> [budget.slots EXCEPT ![p] = slot]]
        /\ codes' = IF slot.attempts >= MaxAttempts THEN [codes EXCEPT ![e] = NoRow] ELSE codes
    <2>1. budget' = [Tried(Pruned, p) EXCEPT !.failures = Append(Tried(Pruned, p).failures, Window)]
      BY DEF GuessWrong
    <2>2. codes' = IF Tried(Pruned, p).slots[p].attempts >= MaxAttempts
                   THEN [codes EXCEPT ![e] = NoRow] ELSE codes
      BY DEF GuessWrong
    <2>3. [budget.slots EXCEPT ![p] = slot][p] = slot
      BY <1>1, <1>3
    <2> HIDE DEF slot, p, e
    <2>4. PICK f, d, t : /\ f = Pruned.failures /\ d = Pruned.deliveries
                         /\ t = [budget.slots EXCEPT ![p] = slot]
      OBVIOUS
    <2>5. Tried(Pruned, p) = [failures |-> f, deliveries |-> d, slots |-> t] /\ t[p] = slot
      BY <1>5, <2>3, <2>4
    <2>6. budget' = [failures |-> Append(f, Window), deliveries |-> d, slots |-> t]
      <3>1. PICK b : b = Tried(Pruned, p)
        OBVIOUS
      <3>2. b = [failures |-> f, deliveries |-> d, slots |-> t] /\ b.failures = f
        BY <2>5, <3>1
      <3>3. budget' = [b EXCEPT !.failures = Append(f, Window)]
        BY <2>1, <3>1, <3>2
      <3>4. PICK x : x = Append(f, Window)
        OBVIOUS
      <3> QED BY <3>2, <3>3, <3>4
    <2> QED BY <2>2, <2>4, <2>5, <2>6
  <1>7. slot \in Slots /\ slot.id = budget.slots[p].id /\ slot.attempts = budget.slots[p].attempts + 1
        /\ slot.email = budget.slots[p].email
    <2>1. budget.slots[p] \in Slots
      BY <1>1, <1>3
    <2>2. \A s \in Slots : s.attempts < MaxAttempts =>
            LET t == [s EXCEPT !.attempts = s.attempts + 1] IN
            t \in Slots /\ t.id = s.id /\ t.attempts = s.attempts + 1 /\ t.email = s.email
      BY DEF Slots
    <2> QED BY <1>2, <2>1, <2>2
  <1> QED BY <1>6, <1>7

LEMMA WrongKeeps ==
  ASSUME CodesInv, NEW w \in EmailWorkers, GuessWrong(w)
  PROVE  CodesInv'
  <1> USE EmailAssumption
  <1> DEFINE p == request[w].purpose
             e == request[w].email
             slot == [budget.slots[p] EXCEPT !.attempts = budget.slots[p].attempts + 1]
  <1>1. /\ budget.slots \in [Purposes -> Slots] /\ codes \in [Emails -> CodeRows]
        /\ request \in [EmailWorkers -> Requests] /\ guesses \in Seq(1 .. Window)
    BY CodesTypes
  <1>2. /\ request[w].op = "redeem" /\ budgetLock = NoOne /\ Len(Pruned.failures) < MaxAttempts
        /\ budget.slots[p].attempts < MaxAttempts
        /\ UNCHANGED <<issued, account, budgetLock, mails, proven, effects>>
        /\ guesses' = Append(guesses, Window) /\ request' = [request EXCEPT ![w] = Quiet]
    BY DEF GuessWrong, Judged, MayTry, BudgetFree, Finish
  <1>3. p \in Purposes /\ e \in Emails
    BY <1>1, <1>2 DEF Requests, CodesInv, EffectsEarned
  <1>4. /\ Pruned = [failures |-> Pruned.failures, deliveries |-> Pruned.deliveries, slots |-> budget.slots]
        /\ Pruned.failures \in Seq(0 .. Window) /\ Pruned.deliveries \in Seq(0 .. Window)
        /\ Pruned.failures = Running(budget.failures) /\ Pruned.deliveries = Running(budget.deliveries)
        /\ Running(Pruned.failures) = Pruned.failures /\ Running(Pruned.deliveries) = Pruned.deliveries
        /\ Len(Pruned.deliveries) <= MaxDeliveries
    <2>1. Pruned = [failures |-> Pruned.failures, deliveries |-> Pruned.deliveries, slots |-> budget.slots]
      BY DEF Pruned
    <2> QED BY <2>1, PrunedIs DEF Budgets
  <1>6. /\ budget' = [failures |-> Append(Pruned.failures, Window), deliveries |-> Pruned.deliveries,
                      slots |-> [budget.slots EXCEPT ![p] = slot]]
        /\ codes' = IF slot.attempts >= MaxAttempts THEN [codes EXCEPT ![e] = NoRow] ELSE codes
        /\ slot \in Slots /\ slot.id = budget.slots[p].id
    BY WrongIs
  <1> HIDE DEF p, e, slot
  <1>8. codes' \in [Emails -> CodeRows]
    <2>1. NoRow \in CodeRows
      BY DEF NoRow, CodeRows, NoCode, Life
    <2> HIDE DEF CodeRows
    <2> QED BY <1>1, <1>3, <1>6, <2>1
  <1>9. /\ Append(Pruned.failures, Window) \in Seq(0 .. Window)
        /\ Running(Append(Pruned.failures, Window)) = Append(Pruned.failures, Window)
        /\ Len(Append(Pruned.failures, Window)) <= MaxAttempts
    <2>1. PICK d \in Seq(0 .. Window) : d = Pruned.failures
      BY <1>4
    <2>2. Len(d) < MaxAttempts /\ Running(d) = d /\ Len(Append(d, Window)) = Len(d) + 1
      BY <1>2, <1>4, <2>1
    <2>3. Len(Append(d, Window)) <= MaxAttempts
      BY <2>2
    <2> QED BY <2>1, <2>2, <2>3, RunningGrows
  <1>10. /\ budget'.failures = Append(Pruned.failures, Window) /\ budget'.deliveries = Pruned.deliveries
         /\ budget'.slots = [budget.slots EXCEPT ![p] = slot]
    BY <1>6
  <1>11. budget' \in Budgets
    <2>1. [budget.slots EXCEPT ![p] = slot] \in [Purposes -> Slots]
      BY <1>1, <1>3, <1>6
    <2> QED BY <1>4, <1>6, <1>9, <2>1 DEF Budgets
  <1>12. Remembered'
    <2>1. guesses = Pruned.failures /\ mails = Pruned.deliveries
      BY <1>4 DEF CodesInv, Remembered
    <2> QED BY <1>2, <1>4, <1>9, <1>10, <2>1 DEF Remembered
  <1>13. request' \in [EmailWorkers -> Requests] /\ request'[w] = Quiet
         /\ \A v \in EmailWorkers \ {w} : request'[v] = request[v]
    <2>1. Quiet \in Requests
      BY DEF Requests, Quiet, Unknown
    <2> QED BY <1>1, <1>2, <2>1
  <1>14. CodesTyped'
    <2>1. guesses' \in Seq(1 .. Window)
      BY <1>1, <1>2
    <2> QED BY <1>2, <1>4, <1>8, <1>9, <1>10, <1>11, <1>13, <2>1, CodesTypes, TypesMade
  <1>15. EffectsEarned'
    <2>1. ASSUME NEW v \in EmailWorkers
          PROVE  /\ request'[v].op # "none" => request'[v].email \in Emails
                 /\ request'[v].op # "effect" /\ budgetLock' # v
      <3>1. CASE v = w
        BY <1>2, <1>13, <3>1 DEF Quiet
      <3>2. CASE v # w
        BY <1>2, <1>13, <3>2 DEF CodesInv, EffectsEarned
      <3> QED BY <3>1, <3>2
    <2> QED BY <2>1 DEF EffectsEarned
  <1>16. SlotsApart'
    <2>1. \A q \in Purposes : budget'.slots[q].id = budget.slots[q].id
      BY <1>1, <1>3, <1>6, <1>10
    <2> QED BY <1>2, <2>1 DEF CodesInv, SlotsApart
  <1> QED BY <1>12, <1>14, <1>15, <1>16 DEF CodesInv

LEMMA CommitIs ==
  ASSUME CodesInv, NEW w \in EmailWorkers, Commit(w)
  PROVE  budget' = [failures |-> Pruned.failures, deliveries |-> Pruned.deliveries,
                    slots |-> [budget.slots EXCEPT ![request[w].purpose] = NoSlot]]
  <1> USE EmailAssumption
  <1> DEFINE p == request[w].purpose
             e == request[w].email
  <1>1. /\ budget.slots \in [Purposes -> Slots] /\ codes \in [Emails -> CodeRows]
        /\ request \in [EmailWorkers -> Requests] /\ account \in Accounts
        /\ proven \subseteq Emails /\ effects \in Nat
    BY CodesTypes
  <1>2. /\ request[w].op = "effect" /\ budgetLock = w /\ budgetLock' = NoOne
        /\ UNCHANGED <<issued, guesses, mails>>
        /\ codes' = [codes EXCEPT ![e] = NoRow] /\ request' = [request EXCEPT ![w] = Quiet]
    BY DEF Commit, Finish, CodesInv, EffectsEarned
  <1>3. p \in Purposes /\ e \in Emails
    BY <1>1, <1>2 DEF Requests, CodesInv, EffectsEarned
  <1>4. /\ Pruned = [failures |-> Pruned.failures, deliveries |-> Pruned.deliveries, slots |-> budget.slots]
        /\ Pruned.failures \in Seq(0 .. Window) /\ Pruned.deliveries \in Seq(0 .. Window)
        /\ Pruned.failures = Running(budget.failures) /\ Pruned.deliveries = Running(budget.deliveries)
        /\ Running(Pruned.failures) = Pruned.failures /\ Running(Pruned.deliveries) = Pruned.deliveries
        /\ Len(Pruned.failures) <= MaxAttempts /\ Len(Pruned.deliveries) <= MaxDeliveries
    <2>1. Pruned = [failures |-> Pruned.failures, deliveries |-> Pruned.deliveries, slots |-> budget.slots]
      BY DEF Pruned
    <2> QED BY <2>1, PrunedIs DEF Budgets
  <1>5. budget' = [failures |-> Pruned.failures, deliveries |-> Pruned.deliveries,
                   slots |-> [budget.slots EXCEPT ![p] = NoSlot]]
    <2>1. budget' = [Pruned EXCEPT !.slots[p] = NoSlot]
      BY DEF Commit
    <2>2. PICK f, d : f = Pruned.failures /\ d = Pruned.deliveries
      OBVIOUS
    <2>3. Pruned = [failures |-> f, deliveries |-> d, slots |-> budget.slots]
      BY <1>4, <2>2
    <2> QED BY <2>1, <2>2, <2>3
  <1> QED BY <1>5

LEMMA CommitKeeps ==
  ASSUME CodesInv, NEW w \in EmailWorkers, Commit(w)
  PROVE  CodesInv'
  <1> USE EmailAssumption
  <1> DEFINE p == request[w].purpose
             e == request[w].email
  <1>1. /\ budget.slots \in [Purposes -> Slots] /\ codes \in [Emails -> CodeRows]
        /\ request \in [EmailWorkers -> Requests] /\ account \in Accounts
        /\ proven \subseteq Emails /\ effects \in Nat
    BY CodesTypes
  <1>2. /\ request[w].op = "effect" /\ budgetLock = w /\ budgetLock' = NoOne
        /\ UNCHANGED <<issued, guesses, mails>>
        /\ codes' = [codes EXCEPT ![e] = NoRow] /\ request' = [request EXCEPT ![w] = Quiet]
    BY DEF Commit, Finish, CodesInv, EffectsEarned
  <1>3. p \in Purposes /\ e \in Emails
    BY <1>1, <1>2 DEF Requests, CodesInv, EffectsEarned
  <1>4. /\ Pruned = [failures |-> Pruned.failures, deliveries |-> Pruned.deliveries, slots |-> budget.slots]
        /\ Pruned.failures \in Seq(0 .. Window) /\ Pruned.deliveries \in Seq(0 .. Window)
        /\ Pruned.failures = Running(budget.failures) /\ Pruned.deliveries = Running(budget.deliveries)
        /\ Running(Pruned.failures) = Pruned.failures /\ Running(Pruned.deliveries) = Pruned.deliveries
        /\ Len(Pruned.failures) <= MaxAttempts /\ Len(Pruned.deliveries) <= MaxDeliveries
    <2>1. Pruned = [failures |-> Pruned.failures, deliveries |-> Pruned.deliveries, slots |-> budget.slots]
      BY DEF Pruned
    <2> QED BY <2>1, PrunedIs DEF Budgets
  <1>5. budget' = [failures |-> Pruned.failures, deliveries |-> Pruned.deliveries,
                   slots |-> [budget.slots EXCEPT ![p] = NoSlot]]
    BY CommitIs
  <1>6. account' \in Accounts /\ proven' \subseteq Emails /\ effects' \in Nat
    <2>1. request[w].was \in Accounts \cup {Unknown}
      BY <1>1 DEF Requests
    <2>2. Written(request[w].was, [email |-> e, verified |-> TRUE]) \in Accounts
      BY <1>1, <1>3 DEF Written, Accounts
    <2> QED BY <1>1, <1>3, <2>2 DEF Commit
  <1> HIDE DEF p, e
  <1>7. NoSlot \in Slots /\ NoSlot.id = NoCode /\ NoRow \in CodeRows /\ Quiet \in Requests
    BY DEF NoSlot, Slots, NoRow, CodeRows, Quiet, Requests, Unknown, NoCode, Life
  <1>8. codes' \in [Emails -> CodeRows]
    <2> HIDE DEF CodeRows
    <2> QED BY <1>1, <1>2, <1>3, <1>7
  <1>9. budget'.failures = Pruned.failures /\ budget'.deliveries = Pruned.deliveries
        /\ budget'.slots = [budget.slots EXCEPT ![p] = NoSlot]
    BY <1>5
  <1>10. budget' \in Budgets
    <2>1. [budget.slots EXCEPT ![p] = NoSlot] \in [Purposes -> Slots]
      BY <1>1, <1>3, <1>7
    <2> QED BY <1>4, <1>5, <2>1 DEF Budgets
  <1>11. Remembered'
    BY <1>2, <1>4, <1>9 DEF CodesInv, Remembered
  <1>12. request' \in [EmailWorkers -> Requests] /\ request'[w] = Quiet
         /\ \A v \in EmailWorkers \ {w} : request'[v] = request[v]
    BY <1>1, <1>2, <1>7
  <1>13. CodesTyped'
    BY <1>2, <1>4, <1>6, <1>8, <1>9, <1>10, <1>12, CodesTypes, TypesMade
  <1>14. EffectsEarned'
    <2>1. ASSUME NEW v \in EmailWorkers
          PROVE  /\ request'[v].op # "none" => request'[v].email \in Emails
                 /\ request'[v].op # "effect" /\ budgetLock' # v
      <3>1. CASE v = w
        BY <1>2, <1>12, <3>1 DEF Quiet
      <3>2. CASE v # w
        BY <1>2, <1>12, <3>2 DEF CodesInv, EffectsEarned
      <3> QED BY <3>1, <3>2
    <2> QED BY <2>1 DEF EffectsEarned
  <1>15. SlotsApart'
    <2>1. \A q \in Purposes : budget'.slots[q].id = IF q = p THEN NoCode ELSE budget.slots[q].id
      BY <1>1, <1>3, <1>7, <1>9
    <2>2. issued \in Nat /\ NoCode <= issued
      BY CodesTypes DEF NoCode
    <2> QED BY <1>2, <2>1, <2>2 DEF CodesInv, SlotsApart
  <1> QED BY <1>11, <1>13, <1>14, <1>15 DEF CodesInv

LEMMA CodesStep == CodesInv /\ [EmailNext]_emailVars => CodesInv'
  <1> SUFFICES ASSUME CodesInv, [EmailNext]_emailVars PROVE CodesInv'
    OBVIOUS
  <1>1. CASE EmailTick
    BY <1>1, TickKeeps
  <1>2. ASSUME NEW w \in EmailWorkers,
               Aside(w) \/ Issue(w) \/ GuessWrong(w) \/ Commit(w)
        PROVE  CodesInv'
    BY <1>2, AsideKeeps, IssueKeeps, WrongKeeps, CommitKeeps
  <1>3. CASE UNCHANGED emailVars
    <2>1. UNCHANGED <<budget, codes, issued, account, request, budgetLock, guesses, mails, proven, effects>>
      BY <1>3 DEF emailVars
    <2>2. CodesTyped' /\ Remembered'
      BY <2>1 DEF CodesInv, CodesTyped, EmailTypeOK, Remembered
    <2>3. EffectsEarned' /\ SlotsApart'
      BY <2>1 DEF CodesInv, EffectsEarned, SlotsApart, Matches
    <2> QED BY <2>2, <2>3 DEF CodesInv
  <1> QED BY <1>1, <1>2, <1>3 DEF EmailNext, Aside

-----------------------------------------------------------------------------
LEMMA CodesKept == EmailSpec => []CodesInv
  BY CodesStart, CodesStep, PTL DEF EmailSpec

\* The budget row stays one that decode_state accepts, and every variable its type.
THEOREM CodesAreTyped == EmailSpec => []EmailTypeOK
  <1>1. CodesInv => EmailTypeOK
    BY DEF CodesInv, CodesTyped
  <1> QED BY <1>1, CodesKept, PTL

\* No window sees more wrong guesses or mails than allowed, whatever requests race.
THEOREM BudgetHolds == EmailSpec => []WithinBudget
  <1>1. CodesInv => WithinBudget
    BY InvWithin
  <1> QED BY <1>1, CodesKept, PTL

-----------------------------------------------------------------------------
(* Issuing, judging, redeeming and the passing of time are steps of         *)
(* CodeContract or leave what it sees as it is.                             *)

LEMMA OpenAre ==
  CodesInv =>
    /\ DOMAIN OpenNow = Purposes /\ \A p \in Purposes : OpenNow[p] = OpenFor(p)
    /\ \A p \in Purposes : OpenFor(p) \in {NoCode, budget.slots[p].id} /\ OpenFor(p) \in 0 .. issued
    /\ OpenIds = {OpenFor(p) : p \in Purposes} /\ OpenIds \subseteq 0 .. issued
    /\ Contract!OpenCodes(OpenNow) = OpenIds \ {NoCode}
    /\ issued \in 0 .. MaxCodes
  <1> SUFFICES ASSUME CodesInv
      PROVE /\ DOMAIN OpenNow = Purposes /\ \A p \in Purposes : OpenNow[p] = OpenFor(p)
            /\ \A p \in Purposes : OpenFor(p) \in {NoCode, budget.slots[p].id} /\ OpenFor(p) \in 0 .. issued
            /\ OpenIds = {OpenFor(p) : p \in Purposes} /\ OpenIds \subseteq 0 .. issued
            /\ Contract!OpenCodes(OpenNow) = OpenIds \ {NoCode}
            /\ issued \in 0 .. MaxCodes
    OBVIOUS
  <1>1. DOMAIN OpenNow = Purposes /\ \A p \in Purposes : OpenNow[p] = OpenFor(p)
    BY DEF OpenNow
  <1>2. \A p \in Purposes : OpenFor(p) \in {NoCode, budget.slots[p].id}
    BY DEF OpenFor
  <1>3. issued \in 0 .. MaxCodes /\ budget.slots \in [Purposes -> Slots]
    BY CodesTypes
  <1>4. \A p \in Purposes : budget.slots[p].id \in 0 .. issued
    <2>1. \A s \in Slots : s.id \in Nat
      BY DEF Slots, CodeIds, NoCode
    <2>2. \A p \in Purposes : budget.slots[p].id <= issued
      BY DEF CodesInv, SlotsApart
    <2>3. \A p \in Purposes : budget.slots[p].id \in Nat
      BY <1>3, <2>1
    <2> QED BY <1>3, <2>2, <2>3
  <1>5. \A p \in Purposes : OpenFor(p) \in 0 .. issued
    BY <1>2, <1>3, <1>4 DEF NoCode
  <1>6. OpenIds = {OpenFor(p) : p \in Purposes}
    BY <1>1 DEF OpenIds
  <1>7. OpenIds \subseteq 0 .. issued
    BY <1>5, <1>6
  <1>8. Contract!OpenCodes(OpenNow) = OpenIds \ {NoCode}
    BY DEF Contract!OpenCodes, OpenIds
  <1> QED BY <1>1, <1>2, <1>3, <1>5, <1>6, <1>7, <1>8

LEMMA OpenAreNext ==
  ASSUME CodesInv'
  PROVE  /\ DOMAIN OpenNow' = Purposes /\ \A p \in Purposes : OpenNow'[p] = OpenFor(p)'
         /\ OpenIds' = {OpenFor(p)' : p \in Purposes}
         /\ Contract!OpenCodes(OpenNow)' = OpenIds' \ {NoCode}
         /\ OpenIds' \subseteq 0 .. issued'
  <1>1. (CodesInv =>
          /\ DOMAIN OpenNow = Purposes /\ \A p \in Purposes : OpenNow[p] = OpenFor(p)
          /\ OpenIds = {OpenFor(p) : p \in Purposes}
          /\ Contract!OpenCodes(OpenNow) = OpenIds \ {NoCode}
          /\ OpenIds \subseteq 0 .. issued)'
    BY OpenAre, PTL
  <1> QED BY <1>1

\* What is issued and not open is closed, when codes close ...
LEMMA SameIssued ==
  ASSUME issued \in Nat, issued' = issued, OpenIds \subseteq 0 .. issued, OpenIds' \subseteq OpenIds \cup {0}
  PROVE  (1 .. issued') \ OpenIds'
           = ((1 .. issued) \ OpenIds) \cup ((OpenIds \ {NoCode}) \ (OpenIds' \ {NoCode}))
  <1>1. PICK n, O, P : n = issued /\ O = OpenIds /\ P = OpenIds'
    OBVIOUS
  <1>2. /\ 0 \notin 1 .. n /\ P \subseteq O \cup {0}
        /\ \A x \in O : x # 0 => x \in 1 .. n
    BY <1>1
  <1>3. PICK N : N = 1 .. n
    OBVIOUS
  <1>4. N \ P = (N \ O) \cup ((O \ {0}) \ (P \ {0}))
    BY Zenon, <1>2, <1>3
  <1> QED BY <1>1, <1>3, <1>4 DEF NoCode

\* ... and when the next one opens.
LEMMA NextIssued ==
  ASSUME issued \in Nat, issued' = issued + 1, OpenIds \subseteq 0 .. issued, issued + 1 \in OpenIds',
         OpenIds' \subseteq OpenIds \cup {0} \cup {issued + 1}
  PROVE  (1 .. issued') \ OpenIds'
           = ((1 .. issued) \ OpenIds) \cup ((OpenIds \ {NoCode}) \ (OpenIds' \ {NoCode}))
  <1>1. PICK n, O, P : n = issued /\ O = OpenIds /\ P = OpenIds'
    OBVIOUS
  <1>2. /\ 0 \notin 1 .. n /\ n + 1 \notin 1 .. n /\ n + 1 \notin O /\ n + 1 \in P
        /\ P \subseteq O \cup {0} \cup {n + 1}
        /\ \A x \in O : x # 0 => x \in 1 .. n
        /\ 1 .. n + 1 = (1 .. n) \cup {n + 1}
    BY <1>1
  <1>3. PICK N, m : N = 1 .. n /\ m = n + 1
    OBVIOUS
  <1>4. (N \cup {m}) \ P = (N \ O) \cup ((O \ {0}) \ (P \ {0}))
    BY Zenon, <1>2, <1>3
  <1> QED BY <1>1, <1>2, <1>3, <1>4 DEF NoCode

LEMMA Lapses ==
  ASSUME CodesInv, CodesInv', UNCHANGED <<issued, effects>>,
         \A p \in Purposes : OpenFor(p)' \in {OpenFor(p), NoCode}
  PROVE  Contract!Lapse
  <1>1. /\ DOMAIN OpenNow = Purposes /\ \A p \in Purposes : OpenNow[p] = OpenFor(p)
        /\ OpenIds = {OpenFor(p) : p \in Purposes} /\ OpenIds \subseteq 0 .. issued
        /\ Contract!OpenCodes(OpenNow) = OpenIds \ {NoCode} /\ issued \in Nat
    BY OpenAre
  <1>2. /\ DOMAIN OpenNow' = Purposes /\ \A p \in Purposes : OpenNow'[p] = OpenFor(p)'
        /\ OpenIds' = {OpenFor(p)' : p \in Purposes}
        /\ Contract!OpenCodes(OpenNow)' = OpenIds' \ {NoCode}
    BY OpenAreNext
  <1> DEFINE gone == {p \in Purposes : OpenFor(p)' = NoCode}
  <1>3. OpenNow' = [p \in Purposes |-> IF p \in gone THEN NoCode ELSE OpenNow[p]]
    <2>1. OpenNow' = [p \in Purposes |-> OpenNow'[p]]
      BY DEF OpenNow
    <2>2. \A p \in Purposes : OpenNow'[p] = IF p \in gone THEN NoCode ELSE OpenNow[p]
      BY <1>1, <1>2
    <2> HIDE DEF gone
    <2> QED BY <2>1, <2>2
  <1>4. (1 .. issued') \ OpenIds'
          = ((1 .. issued) \ OpenIds) \cup ((OpenIds \ {NoCode}) \ (OpenIds' \ {NoCode}))
    <2>1. OpenIds' \subseteq OpenIds \cup {0}
      BY <1>1, <1>2 DEF NoCode
    <2> QED BY <1>1, <2>1, SameIssued
  <1>5. Contract!Closes
    BY <1>1, <1>2, <1>4 DEF Contract!Closes, Contract!OpenCodes
  <1>6. gone \in SUBSET Purposes
    OBVIOUS
  <1> HIDE DEF gone
  <1> QED BY <1>3, <1>5, <1>6 DEF Contract!Lapse

LEMMA AsideLapses ==
  ASSUME CodesInv, NEW w \in EmailWorkers, Aside(w), NEW p \in Purposes
  PROVE  OpenFor(p)' \in {OpenFor(p), NoCode}
  <1> USE EmailAssumption
  <1>1. UNCHANGED <<budget, codes, issued>>
    BY AsideIs
  <1>2. /\ request \in [EmailWorkers -> Requests] /\ budgetLock \in EmailWorkers \cup {NoOne}
        /\ request[w].op = "effect" <=> budgetLock = w
        /\ w # NoOne
    BY CodesTypes DEF CodesInv, EffectsEarned
  <1> DEFINE held == budgetLock # NoOne /\ request[budgetLock].purpose = p
             fresh == Fresh(budget.slots[p].email)
  <1>3. ASSUME held', ~held, Matches(p, budget.slots[p].email) PROVE fresh
    <2>1. ASSUME request[w].op # "effect", budgetLock' = budgetLock,
                 \E r : request' = [request EXCEPT ![w] = r]
          PROVE  FALSE
      <3>1. budgetLock \in EmailWorkers \ {w}
        BY <1>2, <1>3, <2>1
      <3>2. request'[budgetLock] = request[budgetLock]
        BY <1>2, <2>1, <3>1
      <3> QED BY <1>3, <2>1, <3>2
    <2>2. CASE Ask(w)
      <3>1. request[w].op # "effect" /\ budgetLock' = budgetLock /\ \E r : request' = [request EXCEPT ![w] = r]
        BY <2>2 DEF Ask
      <3> QED BY <2>1, <3>1
    <2>3. CASE Turned(w)
      <3>1. request[w].op # "effect" /\ budgetLock' = budgetLock /\ \E r : request' = [request EXCEPT ![w] = r]
        BY <2>3 DEF Turned, Finish
      <3> QED BY <2>1, <3>1
    <2>4. CASE ReadProfile(w)
      <3>1. request[w].op # "effect" /\ budgetLock' = budgetLock /\ \E r : request' = [request EXCEPT ![w] = r]
        BY <2>4 DEF ReadProfile
      <3> QED BY <2>1, <3>1
    <2>5. CASE CommitProfile(w)
      <3>1. request[w].op # "effect" /\ budgetLock' = budgetLock /\ \E r : request' = [request EXCEPT ![w] = r]
        BY <2>5 DEF CommitProfile, Finish
      <3> QED BY <2>1, <3>1
    <2>6. CASE Abort(w)
      BY <1>3, <2>6 DEF Abort
    <2>7. CASE GuessRight(w)
      <3>1. /\ budgetLock' = w /\ request' = [request EXCEPT ![w].op = "effect"]
            /\ Matches(request[w].purpose, request[w].email) /\ Fresh(request[w].email)
        BY <2>7 DEF GuessRight, Judged
      <3>2. request'[w].purpose = request[w].purpose
        BY <1>2, <3>1 DEF Requests
      <3>3. request[w].purpose = p
        BY <1>3, <3>1, <3>2
      <3> QED BY <3>1, <3>3 DEF Matches
    <2> QED BY <2>2, <2>3, <2>4, <2>5, <2>6, <2>7 DEF Aside
  <1>4. /\ Fresh(budget.slots[p].email)' = fresh
        /\ Matches(p, budget.slots[p].email)' = Matches(p, budget.slots[p].email)
    BY <1>1 DEF Fresh, Matches
  <1>5. /\ OpenFor(p) = IF /\ budget.slots[p].email \in Emails /\ Matches(p, budget.slots[p].email)
                           /\ fresh \/ held
                           /\ budget.slots[p].attempts < MaxAttempts
                        THEN budget.slots[p].id ELSE NoCode
        /\ OpenFor(p)' = IF /\ budget.slots[p].email \in Emails /\ Matches(p, budget.slots[p].email)
                            /\ fresh \/ held'
                            /\ budget.slots[p].attempts < MaxAttempts
                         THEN budget.slots[p].id ELSE NoCode
    BY <1>1, <1>4 DEF OpenFor
  <1> HIDE DEF held, fresh
  <1> QED BY <1>3, <1>5

LEMMA TickLapses ==
  ASSUME CodesInv, EmailTick, NEW p \in Purposes
  PROVE  OpenFor(p)' \in {OpenFor(p), NoCode}
  <1>1. codes \in [Emails -> CodeRows]
    BY CodesTypes
  <1>2. budget'.slots = budget.slots /\ request' = request /\ budgetLock' = budgetLock
    BY DEF EmailTick
  <1>3. ASSUME NEW e \in Emails PROVE codes'[e].id = codes[e].id /\ (codes'[e].left > 0 => codes[e].left > 0)
    <2>1. codes'[e].id = codes[e].id /\ codes'[e].left = Fewer(codes[e].left)
      BY DEF EmailTick
    <2>2. codes[e].left \in Nat
      <3>1. Life \in Nat
        BY EmailAssumption DEF Life
      <3> QED BY <1>1, <3>1 DEF CodeRows
    <2> QED BY <2>1, <2>2 DEF Fewer
  <1> DEFINE e == budget.slots[p].email
  <1>4. CASE e \in Emails
    <2>1. (Fresh(e))' => Fresh(e)
      BY <1>2, <1>3, <1>4 DEF Fresh
    <2>2. (Matches(p, e))' = Matches(p, e)
      BY <1>2, <1>3, <1>4 DEF Matches
    <2> QED BY <1>2, <2>1, <2>2 DEF OpenFor
  <1>5. CASE e \notin Emails
    BY <1>2, <1>5 DEF OpenFor
  <1> QED BY <1>4, <1>5

LEMMA WrongLapses ==
  ASSUME CodesInv, NEW w \in EmailWorkers, GuessWrong(w), NEW q \in Purposes
  PROVE  OpenFor(q)' \in {OpenFor(q), NoCode}
  <1> USE EmailAssumption
  <1> DEFINE p == request[w].purpose
             e == request[w].email
             slot == [budget.slots[p] EXCEPT !.attempts = budget.slots[p].attempts + 1]
  <1>1. /\ budget'.slots = [budget.slots EXCEPT ![p] = slot]
        /\ codes' = IF slot.attempts >= MaxAttempts THEN [codes EXCEPT ![e] = NoRow] ELSE codes
        /\ slot.id = budget.slots[p].id /\ slot.email = budget.slots[p].email
        /\ slot.attempts = budget.slots[p].attempts + 1
    BY WrongIs
  <1>2. /\ budget.slots \in [Purposes -> Slots] /\ codes \in [Emails -> CodeRows]
        /\ request \in [EmailWorkers -> Requests]
    BY CodesTypes
  <1>3. /\ request[w].op = "redeem" /\ budgetLock = NoOne /\ budgetLock' = NoOne
        /\ Matches(p, e) /\ Fresh(e) /\ budget.slots[p].attempts < MaxAttempts
    BY DEF GuessWrong, Judged, BudgetFree
  <1>4. p \in Purposes /\ e \in Emails
    BY <1>2, <1>3 DEF Requests, CodesInv, EffectsEarned
  <1> HIDE DEF p, e, slot
  <1>5. \A a \in Emails : codes'[a] = codes[a] \/ (codes'[a] = NoRow)
    BY <1>1, <1>2, <1>4
  <1>10. PICK a : a = budget.slots[q].email
    OBVIOUS
  <1>6. budget'.slots[q].email = a /\ budget'.slots[q].id = budget.slots[q].id
    BY <1>1, <1>2, <1>4, <1>10
  <1>7. budget'.slots[q].attempts < MaxAttempts => budget.slots[q].attempts < MaxAttempts
    <2>1. \A s \in Slots : s.attempts \in Nat
      BY DEF Slots
    <2>2. budget.slots[q].attempts \in Nat
      BY <1>2, <2>1
    <2>3. CASE q = p
      BY <1>1, <1>2, <1>3, <1>4, <2>2, <2>3
    <2>4. CASE q # p
      BY <1>1, <1>2, <1>4, <2>2, <2>4
    <2> QED BY <2>2, <2>3, <2>4
  <1>8. CASE a \in Emails
    <2>1. Matches(q, a)' => Matches(q, a) /\ codes'[a] = codes[a]
      <3>1. NoRow.id = NoCode
        BY DEF NoRow
      <3> QED BY <1>5, <1>6, <1>8, <1>10, <3>1 DEF Matches
    <2>2. Fresh(a)' /\ codes'[a] = codes[a] => Fresh(a)
      BY DEF Fresh
    <2>3. OpenFor(q) = IF Matches(q, a) /\ Fresh(a) /\ budget.slots[q].attempts < MaxAttempts
                       THEN budget.slots[q].id ELSE NoCode
      BY <1>3, <1>8, <1>10 DEF OpenFor
    <2>4. OpenFor(q)' = IF Matches(q, a)' /\ Fresh(a)' /\ budget'.slots[q].attempts < MaxAttempts
                        THEN budget.slots[q].id ELSE NoCode
      <3>1. /\ OpenFor(q)' = IF /\ budget'.slots[q].email \in Emails
                                /\ Matches(q, budget.slots[q].email)'
                                /\ \/ Fresh(budget.slots[q].email)'
                                   \/ (budgetLock' # NoOne /\ request'[budgetLock'].purpose = q)
                                /\ budget'.slots[q].attempts < MaxAttempts
                             THEN budget'.slots[q].id ELSE NoCode
        BY DEF OpenFor
      <3>2. /\ Matches(q, a)' = Matches(q, budget.slots[q].email)'
            /\ Fresh(a)' = Fresh(budget.slots[q].email)'
        BY <1>6 DEF Matches, Fresh
      <3> QED BY <1>3, <1>6, <1>8, <3>1, <3>2
    <2> SUFFICES ASSUME OpenFor(q)' # NoCode PROVE OpenFor(q)' = OpenFor(q)
      OBVIOUS
    <2>5. Matches(q, a)' /\ Fresh(a)' /\ budget'.slots[q].attempts < MaxAttempts
          /\ OpenFor(q)' = budget.slots[q].id
      BY <2>4
    <2>6. Matches(q, a) /\ Fresh(a) /\ budget.slots[q].attempts < MaxAttempts
      BY <1>7, <2>1, <2>2, <2>5
    <2> QED BY <2>3, <2>5, <2>6
  <1>9. CASE a \notin Emails
    BY <1>6, <1>9, <1>10 DEF OpenFor
  <1> QED BY <1>8, <1>9

\* The commit of an endpoint takes the code it found, and no other.
LEMMA CommitRedeems ==
  ASSUME CodesInv, CodesInv', NEW w \in EmailWorkers, Commit(w)
  PROVE  \E p \in Purposes : Contract!Redeem(p)
  <1> USE EmailAssumption
  <1>0. PICK p, e : p = request[w].purpose /\ e = request[w].email
    OBVIOUS
  <1>1. /\ budget.slots \in [Purposes -> Slots] /\ codes \in [Emails -> CodeRows]
        /\ request \in [EmailWorkers -> Requests]
    BY CodesTypes
  <1>2. /\ request[w].op = "effect" /\ budgetLock = w /\ budgetLock' = NoOne /\ w # NoOne
        /\ issued' = issued /\ effects' = effects + 1 /\ codes' = [codes EXCEPT ![e] = NoRow]
        /\ Matches(p, e) /\ budget.slots[p].attempts < MaxAttempts
    BY <1>0 DEF Commit, CodesInv, EffectsEarned
  <1>3. p \in Purposes /\ e \in Emails
    BY <1>0, <1>1, <1>2 DEF Requests, CodesInv, EffectsEarned
  <1>4. budget'.slots = [budget.slots EXCEPT ![p] = NoSlot]
    BY <1>0, CommitIs
  <1>5. OpenFor(p) = budget.slots[p].id /\ OpenFor(p) # NoCode
    BY <1>0, <1>2, <1>3 DEF OpenFor, Matches
  <1>6. OpenFor(p)' = NoCode
    <2>1. budget'.slots[p].email \notin Emails
      BY <1>1, <1>3, <1>4 DEF NoSlot
    <2> QED BY <2>1 DEF OpenFor
  <1>7. ASSUME NEW q \in Purposes \ {p} PROVE OpenFor(q)' = OpenFor(q)
    <2>1. PICK a : a = budget.slots[q].email
      OBVIOUS
    <2>2. budget'.slots[q] = budget.slots[q]
      BY <1>1, <1>3, <1>4
    <2>3. CASE a = e
      <3>1. codes'[e].id = NoCode
        BY <1>1, <1>2, <1>3 DEF NoRow
      <3>2. ~Matches(q, a)'
        BY <2>3, <3>1 DEF Matches
      <3>3. ~Matches(q, a)
        <4>1. budget.slots[q].id # budget.slots[p].id \/ budget.slots[p].id = NoCode
          BY <1>3 DEF CodesInv, SlotsApart
        <4> QED BY <1>2, <2>3, <4>1 DEF Matches
      <3>4. OpenFor(q) = NoCode
        BY <2>1, <3>3 DEF OpenFor
      <3>5. OpenFor(q)' = NoCode
        <4>1. Matches(q, a)' = Matches(q, budget.slots[q].email)'
          BY <2>1, <2>2 DEF Matches
        <4> QED BY <3>2, <4>1 DEF OpenFor
      <3> QED BY <3>4, <3>5
    <2>4. CASE a # e
      <3>1. a \in Emails => codes'[a] = codes[a]
        BY <1>1, <1>2, <2>4
      <3>2. a \in Emails => (Matches(q, a)' = Matches(q, a) /\ Fresh(a)' = Fresh(a))
        BY <2>2, <3>1 DEF Matches, Fresh
      <3>3. request[budgetLock].purpose # q
        BY <1>0, <1>2
      <3>4. OpenFor(q) = IF a \in Emails /\ Matches(q, a) /\ Fresh(a) /\ budget.slots[q].attempts < MaxAttempts
                         THEN budget.slots[q].id ELSE NoCode
        BY <2>1, <3>3 DEF OpenFor
      <3>5. OpenFor(q)' = IF a \in Emails /\ Matches(q, a)' /\ Fresh(a)' /\ budget.slots[q].attempts < MaxAttempts
                          THEN budget.slots[q].id ELSE NoCode
        <4>1. /\ OpenFor(q)' = IF /\ budget'.slots[q].email \in Emails
                                  /\ Matches(q, budget.slots[q].email)'
                                  /\ \/ Fresh(budget.slots[q].email)'
                                     \/ (budgetLock' # NoOne /\ request'[budgetLock'].purpose = q)
                                  /\ budget'.slots[q].attempts < MaxAttempts
                               THEN budget'.slots[q].id ELSE NoCode
          BY DEF OpenFor
        <4>2. /\ Matches(q, a)' = Matches(q, budget.slots[q].email)'
              /\ Fresh(a)' = Fresh(budget.slots[q].email)'
          BY <2>1, <2>2 DEF Matches, Fresh
        <4> QED BY <1>2, <2>1, <2>2, <4>1, <4>2
      <3> QED BY <3>2, <3>4, <3>5
    <2> QED BY <2>3, <2>4
  <1>8. /\ DOMAIN OpenNow = Purposes /\ \A q \in Purposes : OpenNow[q] = OpenFor(q)
        /\ OpenIds = {OpenFor(q) : q \in Purposes} /\ OpenIds \subseteq 0 .. issued
        /\ Contract!OpenCodes(OpenNow) = OpenIds \ {NoCode} /\ issued \in Nat
    BY OpenAre
  <1>9. /\ DOMAIN OpenNow' = Purposes /\ \A q \in Purposes : OpenNow'[q] = OpenFor(q)'
        /\ OpenIds' = {OpenFor(q)' : q \in Purposes}
        /\ Contract!OpenCodes(OpenNow)' = OpenIds' \ {NoCode}
    BY OpenAreNext
  <1>10. OpenNow' = [OpenNow EXCEPT ![p] = NoCode]
    <2>1. OpenNow' = [q \in Purposes |-> OpenNow'[q]] /\ OpenNow = [q \in Purposes |-> OpenNow[q]]
      BY DEF OpenNow
    <2>2. \A q \in Purposes : OpenNow'[q] = IF q = p THEN NoCode ELSE OpenNow[q]
      BY <1>6, <1>7, <1>8, <1>9
    <2> QED BY <2>1, <2>2
  <1>11. Contract!Closes
    <2>1. OpenIds' \subseteq OpenIds \cup {0}
      BY <1>6, <1>7, <1>8, <1>9 DEF NoCode
    <2> QED BY <1>2, <1>8, <1>9, <2>1, SameIssued DEF Contract!Closes, Contract!OpenCodes
  <1> QED BY <1>2, <1>3, <1>5, <1>8, <1>10, <1>11 DEF Contract!Redeem

\* A new code opens for its purpose; the address it went to holds no other.
LEMMA IssueSends ==
  ASSUME CodesInv, CodesInv', NEW w \in EmailWorkers, Issue(w)
  PROVE  \E p \in Purposes : Contract!Send(p)
  <1> USE EmailAssumption
  <1>0. PICK p, e : p = request[w].purpose /\ e = request[w].email
    OBVIOUS
  <1>1. /\ budget.slots \in [Purposes -> Slots] /\ codes \in [Emails -> CodeRows]
        /\ request \in [EmailWorkers -> Requests] /\ issued \in 0 .. MaxCodes
    BY CodesTypes
  <1>2. /\ issued' = issued + 1 /\ issued < MaxCodes /\ effects' = effects
        /\ budgetLock = NoOne /\ budgetLock' = NoOne /\ request[w].op \in {"send", "resend"}
    BY DEF Issue, BudgetFree
  <1>3. p \in Purposes /\ e \in Emails
    BY <1>0, <1>1, <1>2 DEF Requests, CodesInv, EffectsEarned
  <1>4. budget'.slots = [budget.slots EXCEPT ![p] = [email |-> e, id |-> issued', attempts |-> 0]]
    BY <1>0 DEF Issue
  <1>5. codes' = [a \in Emails |->
           IF a = e THEN [id |-> issued', left |-> Life,
                          resent |-> IF request[w].op = "resend" THEN Window ELSE 0]
           ELSE IF codes[a].id = budget.slots[p].id THEN NoRow ELSE codes[a]]
    BY <1>0 DEF Issue
  <1>6. /\ DOMAIN OpenNow = Purposes /\ \A q \in Purposes : OpenNow[q] = OpenFor(q)
        /\ OpenIds = {OpenFor(q) : q \in Purposes} /\ OpenIds \subseteq 0 .. issued
        /\ Contract!OpenCodes(OpenNow) = OpenIds \ {NoCode}
        /\ \A q \in Purposes : OpenFor(q) \in 0 .. issued
    BY OpenAre
  <1>7. /\ DOMAIN OpenNow' = Purposes /\ \A q \in Purposes : OpenNow'[q] = OpenFor(q)'
        /\ OpenIds' = {OpenFor(q)' : q \in Purposes}
        /\ Contract!OpenCodes(OpenNow)' = OpenIds' \ {NoCode}
    BY OpenAreNext
  <1>8. issued' \in CodeIds /\ issued' # NoCode /\ issued \in Nat
    BY <1>1, <1>2 DEF CodeIds, NoCode
  <1>9. OpenFor(p)' = issued'
    <2>1. /\ budget'.slots[p].email = e /\ budget'.slots[p].id = issued' /\ budget'.slots[p].attempts = 0
      BY <1>1, <1>3, <1>4
    <2>2. codes'[e].id = issued' /\ codes'[e].left = Life /\ Life > 0
      BY <1>3, <1>5 DEF Life
    <2>3. Matches(p, budget.slots[p].email)' /\ Fresh(budget.slots[p].email)'
      BY <1>8, <2>1, <2>2 DEF Matches, Fresh
    <2>4. 0 < MaxAttempts
      OBVIOUS
    <2> QED BY <1>3, <2>1, <2>3, <2>4 DEF OpenFor
  <1>10. ASSUME NEW q \in Purposes \ {p} PROVE OpenFor(q)' \in {OpenFor(q), NoCode}
    <2>1. PICK a : a = budget.slots[q].email
      OBVIOUS
    <2>2. budget'.slots[q] = budget.slots[q]
      BY <1>1, <1>3, <1>4
    <2> SUFFICES ASSUME OpenFor(q)' # NoCode PROVE OpenFor(q)' = OpenFor(q)
      OBVIOUS
    <2>3. /\ a \in Emails /\ Matches(q, a)' /\ Fresh(a)' /\ budget.slots[q].attempts < MaxAttempts
          /\ OpenFor(q)' = budget.slots[q].id
      <3>1. /\ OpenFor(q)' = IF /\ budget'.slots[q].email \in Emails
                                /\ Matches(q, budget.slots[q].email)'
                                /\ \/ Fresh(budget.slots[q].email)'
                                   \/ (budgetLock' # NoOne /\ request'[budgetLock'].purpose = q)
                                /\ budget'.slots[q].attempts < MaxAttempts
                             THEN budget'.slots[q].id ELSE NoCode
        BY DEF OpenFor
      <3>2. /\ Matches(q, a)' = Matches(q, budget.slots[q].email)'
            /\ Fresh(a)' = Fresh(budget.slots[q].email)'
        BY <2>1, <2>2 DEF Matches, Fresh
      <3> QED BY <1>2, <2>1, <2>2, <3>1, <3>2
    <2>4. codes'[a].id = budget.slots[q].id /\ codes'[a].id # NoCode /\ codes'[a].left > 0
      BY <2>2, <2>3 DEF Matches, Fresh
    <2>5. a # e
      <3>1. budget.slots[q].id <= issued
        BY DEF CodesInv, SlotsApart
      <3>2. \A s \in Slots : s.id \in Nat
        BY DEF Slots, CodeIds, NoCode
      <3>3. budget.slots[q].id \in Nat
        BY <1>1, <3>2
      <3>4. budget.slots[q].id # issued'
        BY <1>2, <1>8, <3>1, <3>3
      <3>5. a = e => codes'[a].id = issued'
        BY <1>3, <1>5
      <3> QED BY <2>4, <3>4, <3>5
    <2>6. codes'[a] = codes[a]
      <3>1. NoRow.id = NoCode
        BY DEF NoRow
      <3> QED BY <1>5, <2>3, <2>4, <2>5, <3>1
    <2>7. Matches(q, a) /\ Fresh(a)
      BY <2>1, <2>4, <2>6 DEF Matches, Fresh
    <2> QED BY <2>1, <2>3, <2>7 DEF OpenFor
  <1>11. issued' \in CodeIds \ (((1 .. issued) \ OpenIds) \cup Contract!OpenCodes(OpenNow))
    <2>1. issued' \notin 0 .. issued
      BY <1>2, <1>8
    <2> QED BY <1>6, <1>8, <2>1
  <1>12. Contract!Closes
    <2>1. issued + 1 \in OpenIds'
      BY <1>2, <1>3, <1>7, <1>9
    <2>2. OpenIds' \subseteq OpenIds \cup {0} \cup {issued + 1}
      BY <1>2, <1>6, <1>7, <1>9, <1>10 DEF NoCode
    <2> QED BY <1>2, <1>6, <1>7, <1>8, <2>1, <2>2, NextIssued DEF Contract!Closes, Contract!OpenCodes
  <1>13. OpenNow'[p] = issued' /\ \A q \in Purposes \ {p} : OpenNow'[q] \in {OpenNow[q], NoCode}
    BY <1>3, <1>6, <1>7, <1>9, <1>10
  <1> QED BY <1>2, <1>3, <1>7, <1>11, <1>12, <1>13 DEF Contract!Send

LEMMA ContractKept ==
  ASSUME CodesInv, CodesInv', [EmailNext]_emailVars
  PROVE  [Contract!ContractNext]_(Contract!codeVars)
  <1>1. CASE EmailTick
    <2>1. UNCHANGED <<issued, effects>>
      BY <1>1 DEF EmailTick
    <2>2. Contract!Lapse
      BY <1>1, <2>1, TickLapses, Lapses
    <2> QED BY <2>2 DEF Contract!ContractNext
  <1>2. ASSUME NEW w \in EmailWorkers, Aside(w) PROVE Contract!ContractNext
    <2>1. UNCHANGED <<issued, effects>>
      BY <1>2, AsideIs
    <2>2. Contract!Lapse
      BY <1>2, <2>1, AsideLapses, Lapses
    <2> QED BY <2>2 DEF Contract!ContractNext
  <1>3. ASSUME NEW w \in EmailWorkers, GuessWrong(w) PROVE Contract!ContractNext
    <2>1. UNCHANGED <<issued, effects>>
      BY <1>3 DEF GuessWrong
    <2>2. Contract!Lapse
      BY <1>3, <2>1, WrongLapses, Lapses
    <2> QED BY <2>2 DEF Contract!ContractNext
  <1>4. ASSUME NEW w \in EmailWorkers, Issue(w) PROVE Contract!ContractNext
    BY <1>4, IssueSends DEF Contract!ContractNext
  <1>5. ASSUME NEW w \in EmailWorkers, Commit(w) PROVE Contract!ContractNext
    BY <1>5, CommitRedeems DEF Contract!ContractNext
  <1>6. CASE UNCHANGED emailVars
    <2>1. UNCHANGED <<budget, codes, issued, request, budgetLock, effects>>
      BY <1>6 DEF emailVars
    <2>2. OpenNow' = OpenNow /\ OpenIds' = OpenIds
      BY <2>1 DEF OpenNow, OpenIds, OpenFor, Matches, Fresh
    <2> QED BY <2>1, <2>2 DEF Contract!codeVars
  <1> QED BY <1>1, <1>2, <1>3, <1>4, <1>5, <1>6 DEF EmailNext, Aside

\* Issuing and redeeming is the abstract contract of codes: an effect takes the open
\* code of its purpose and closes it for ever (issue_code, consume_code).
THEOREM CodesAreHonoured == EmailSpec => CodesHonoured
  <1>1. EmailInit => Contract!ContractInit
    <2> SUFFICES ASSUME EmailInit PROVE Contract!ContractInit
      OBVIOUS
    <2>1. \A p \in Purposes : OpenFor(p) = NoCode
      BY EmailAssumption DEF EmailInit, OpenFor, NoSlot
    <2>2. OpenNow = [p \in Purposes |-> NoCode]
      BY <2>1 DEF OpenNow
    <2>3. issued = 0 /\ effects = 0 /\ 1 .. 0 = {}
      BY DEF EmailInit
    <2> QED BY <2>2, <2>3 DEF Contract!ContractInit
  <1>2. CodesInv /\ CodesInv' /\ [EmailNext]_emailVars => [Contract!ContractNext]_(Contract!codeVars)
    BY ContractKept
  <1> QED BY <1>1, <1>2, CodesKept, PTL DEF EmailSpec, CodesHonoured, Contract!CodeContractSpec

-----------------------------------------------------------------------------
(* The owner's sessions and the management protection.                      *)

Callees == [at : {"away", "register", "rotate", "seen", "admin"},
            sid : 0 .. MaxSessions, left : Spans, token : 0 .. MaxTokens]
Rows == [token : 0 .. MaxTokens, revoked : BOOLEAN, remember : BOOLEAN, left : Spans]
Grants == [version : 0 .. MaxVersion, left : Spans]
Safes == [configured : BOOLEAN, enabled : BOOLEAN, version : 1 .. MaxVersion,
          grants : [Sids -> Grants]]

Types ==
  /\ users \in 0 .. 1
  /\ sessions \in [Sids -> Rows]
  /\ created \in 0 .. MaxSessions /\ tokens \in 0 .. MaxTokens
  /\ safe \in Safes
  /\ caller \in [Callers -> Callees]
  /\ safeLock \in Callers \cup {Nobody}
  /\ rowLock \in [Sids -> Callers \cup {Nobody}]
  /\ exchanged \in [1 .. MaxTokens -> Nat]

\* The security row has room for every grant it keeps.
Roomy == Cardinality(Granted) <= MaxGrants

\* Who is inside a section holds its lock, and a rotation the token it replaces.
LocksHeld == \A c \in Callers :
  /\ At(c, "register") => safeLock = c /\ users = 0
  /\ At(c, "admin") => safeLock = c
  /\ At(c, "rotate") => /\ caller[c].sid \in 1 .. created
                        /\ rowLock[caller[c].sid] = c
                        /\ caller[c].token = sessions[caller[c].sid].token
  /\ At(c, "seen") \/ At(c, "admin") => caller[c].sid \in Sids

\* The current tokens are distinct and none was exchanged; no token is from later.
TokensFresh ==
  /\ \A s \in Sids : s > created => sessions[s] = NoSession
  /\ \A s \in 1 .. created : /\ sessions[s].token \in 1 .. tokens
                             /\ exchanged[sessions[s].token] = 0
  /\ \A s, u \in 1 .. created : sessions[s].token = sessions[u].token => s = u
  /\ \A t \in 1 .. MaxTokens : t > tokens => exchanged[t] = 0

SessionInv == Types /\ Roomy /\ LocksHeld /\ TokensFresh /\ TokenOnce /\ AdminHolds

LEMMA SessionsStart == SessionInit => SessionInv
  <1> SUFFICES ASSUME SessionInit PROVE SessionInv
    OBVIOUS
  <1> USE SessionAssumption DEF SessionInit, Sids, Never
  <1>1. Types
    BY DEF Types, Rows, Grants, Safes, Callees, Spans, NoSession, NoGrant, Away
  <1>2. Roomy
    <2>1. Granted = {}
      BY DEF Granted, NoGrant
    <2> QED BY <2>1, FS_EmptySet DEF Roomy
  <1>3. LocksHeld /\ TokensFresh /\ TokenOnce /\ AdminHolds
    BY DEF LocksHeld, TokensFresh, TokenOnce, AdminHolds, At, Away
  <1> QED BY <1>1, <1>2, <1>3 DEF SessionInv

\* What "invalidate" writes, field by field.
LEMMA InvalidatedIs ==
  ASSUME Types, MayInvalidate
  PROVE  /\ Invalidated(safe) \in Safes
         /\ Invalidated(safe).configured = safe.configured
         /\ Invalidated(safe).enabled = safe.enabled
         /\ Invalidated(safe).version = safe.version + 1
         /\ Invalidated(safe).grants = [s \in Sids |-> NoGrant]
  <1>1. [s \in Sids |-> NoGrant] \in [Sids -> Grants]
    BY SessionAssumption DEF NoGrant, Grants, Never, Spans
  <1>2. safe.version + 1 \in 1 .. MaxVersion
    BY SessionAssumption DEF Types, Safes, MayInvalidate
  <1> QED BY <1>1, <1>2 DEF Invalidated, Types, Safes

LEMMA GrantsFinite == \A S \in SUBSET Sids : IsFiniteSet(S) /\ Cardinality(S) \in Nat
  <1>1. IsFiniteSet(Sids)
    BY SessionAssumption, FS_Interval DEF Sids
  <1> QED BY <1>1, FS_Subset, FS_CardinalityType

\* What the records of the model may be changed to.
LEMMA RecordsTyped ==
  /\ Away \in Callees /\ NoGrant \in Grants
  /\ \A r \in Callees :
       /\ r.sid \in 0 .. MaxSessions /\ r.left \in Spans /\ r.token \in 0 .. MaxTokens
       /\ \A n \in Spans : [r EXCEPT !.left = n] \in Callees
       /\ \A p \in {"register", "admin"} : [r EXCEPT !.at = p] \in Callees
  /\ \A r \in Rows :
       /\ r.left \in Spans /\ r.token \in 0 .. MaxTokens
       /\ [r EXCEPT !.revoked = TRUE] \in Rows
       /\ \A n \in Spans : [r EXCEPT !.left = n] \in Rows
       /\ \A t \in 0 .. MaxTokens : [r EXCEPT !.token = t] \in Rows
  /\ \A g \in Grants : g.left \in Spans /\ \A n \in Spans : [g EXCEPT !.left = n] \in Grants
  /\ \A f \in Safes : /\ f.grants \in [Sids -> Grants] /\ f.version \in 1 .. MaxVersion
                      /\ \A g \in [Sids -> Grants] : [f EXCEPT !.grants = g] \in Safes
                      /\ \A b \in BOOLEAN : [f EXCEPT !.enabled = b] \in Safes
                      /\ [f EXCEPT !.configured = TRUE] \in Safes
  <1>1. Away \in Callees /\ NoGrant \in Grants
    BY SessionAssumption DEF Away, NoGrant, Callees, Grants, Spans, Never
  <1>2. \A r \in Callees :
          /\ r.sid \in 0 .. MaxSessions /\ r.left \in Spans /\ r.token \in 0 .. MaxTokens
          /\ \A n \in Spans : [r EXCEPT !.left = n] \in Callees
          /\ \A p \in {"register", "admin"} : [r EXCEPT !.at = p] \in Callees
    BY DEF Callees
  <1>3. \A r \in Rows :
          /\ r.left \in Spans /\ r.token \in 0 .. MaxTokens
          /\ [r EXCEPT !.revoked = TRUE] \in Rows
          /\ \A n \in Spans : [r EXCEPT !.left = n] \in Rows
          /\ \A t \in 0 .. MaxTokens : [r EXCEPT !.token = t] \in Rows
    BY DEF Rows
  <1>4. \A g \in Grants : g.left \in Spans /\ \A n \in Spans : [g EXCEPT !.left = n] \in Grants
    BY DEF Grants
  <1>5. \A f \in Safes : /\ f.grants \in [Sids -> Grants] /\ f.version \in 1 .. MaxVersion
                         /\ \A g \in [Sids -> Grants] : [f EXCEPT !.grants = g] \in Safes
                         /\ \A b \in BOOLEAN : [f EXCEPT !.enabled = b] \in Safes
                         /\ [f EXCEPT !.configured = TRUE] \in Safes
    BY DEF Safes
  <1> QED BY <1>1, <1>2, <1>3, <1>4, <1>5

LEMMA SpansTyped ==
  /\ Idle \in Spans /\ Remember \in Spans
  /\ \A n \in Spans : Less(n) \in Spans /\ Less(n) <= n
  /\ \A n \in Spans : n < Elevation \/ Elevation \in Spans
  BY SessionAssumption DEF Spans, Less

LEMMA TypesKept ==
  ASSUME SessionInv, SessionNext
  PROVE  Types'
  <1> USE SessionAssumption, RecordsTyped, SpansTyped DEF SessionInv, Types
  <1>1. CASE SessionTick
    BY <1>1 DEF SessionTick
  <1> SUFFICES ASSUME NEW c \in Callers,
        \/ BeginRegister(c) \/ CommitRegister(c) \/ Login(c)
        \/ BeginRotate(c) \/ CommitRotate(c) \/ Logout(c)
        \/ Enter(c) \/ Activity(c) \/ Revoke(c) \/ ChangePassword(c)
        \/ Setup(c) \/ Protect(c) \/ Unlock(c) \/ Relock(c)
        \/ BeginAdmin(c) \/ CommitAdmin(c) \/ GiveUp(c)
      PROVE Types'
    BY <1>1 DEF SessionNext
  <1> USE DEF Move, Leave
  <1>2. CASE BeginRegister(c)
    BY <1>2 DEF BeginRegister
  <1>3. CASE CommitRegister(c)
    <2>1. users' \in 0 .. 1 /\ created' \in 0 .. MaxSessions /\ tokens' \in 0 .. MaxTokens
      BY <1>3 DEF CommitRegister, NewSession, LocksHeld, At
    <2>2. NewRow(TRUE) \in Rows
      BY <2>1 DEF NewRow, Rows
    <2> QED BY <1>3, <2>1, <2>2 DEF CommitRegister
  <1>4. CASE Login(c)
    <2>1. created' \in 0 .. MaxSessions /\ tokens' \in 0 .. MaxTokens
      BY <1>4 DEF Login, NewSession
    <2>2. \A remember \in BOOLEAN : NewRow(remember) \in Rows
      BY <2>1 DEF NewRow, Rows
    <2> QED BY <1>4, <2>1, <2>2 DEF Login
  <1>5. CASE BeginRotate(c)
    <2>1. PICK s \in Sids : caller' = [caller EXCEPT ![c] = [at |-> "rotate", sid |-> s,
                               left |-> sessions[s].left, token |-> sessions[s].token]]
      BY <1>5 DEF BeginRotate
    <2>2. sessions[s].left \in Spans /\ sessions[s].token \in 0 .. MaxTokens
      OBVIOUS
    <2>3. [at |-> "rotate", sid |-> s, left |-> sessions[s].left,
           token |-> sessions[s].token] \in Callees
      BY <2>2 DEF Callees, Sids
    <2> QED BY <1>5, <2>1, <2>3 DEF BeginRotate
  <1>6. CASE CommitRotate(c)
    <2>1. tokens' \in 0 .. MaxTokens
      BY <1>6 DEF CommitRotate
    <2>2. sessions' = [sessions EXCEPT ![caller[c].sid] = [sessions[caller[c].sid] EXCEPT !.token = tokens']]
      BY <1>6 DEF CommitRotate
    <2>3. sessions' \in [Sids -> Rows]
      BY <2>1, <2>2
    <2>4. sessions[caller[c].sid].token \in 1 .. tokens
          /\ caller[c].token = sessions[caller[c].sid].token
      BY <1>6 DEF CommitRotate, LocksHeld, TokensFresh, At
    <2>5. caller[c].token \in 1 .. MaxTokens
      BY <2>4
    <2>6. exchanged' \in [1 .. MaxTokens -> Nat]
      BY <1>6, <2>5 DEF CommitRotate
    <2> QED BY <1>6, <2>1, <2>3, <2>6 DEF CommitRotate
  <1>7. CASE Logout(c)
    <2>1. PICK s \in 1 .. created :
            /\ sessions' = [sessions EXCEPT ![s].revoked = TRUE]
            /\ safe' = [safe EXCEPT !.grants[s] = NoGrant]
      BY <1>7 DEF Logout
    <2>0. s \in Sids
      BY DEF Sids
    <2>2. sessions' \in [Sids -> Rows] /\ safe' \in Safes
      BY <2>0, <2>1
    <2> QED BY <1>7, <2>2 DEF Logout
  <1>8. CASE Enter(c)
    <2>1. PICK s \in Sids : caller' = [caller EXCEPT ![c] = [at |-> "seen", sid |-> s,
                               left |-> sessions[s].left, token |-> Never]]
      BY <1>8 DEF Enter
    <2>2. sessions[s].left \in Spans
      OBVIOUS
    <2>3. [at |-> "seen", sid |-> s, left |-> sessions[s].left, token |-> Never] \in Callees
      BY <2>2 DEF Callees, Sids, Never
    <2> QED BY <1>8, <2>1, <2>3 DEF Enter
  <1>9. CASE Activity(c)
    BY <1>9 DEF Activity
  <1>10. CASE Revoke(c)
    <2>1. PICK s \in 1 .. created : sessions' = [sessions EXCEPT ![s] = [sessions[s] EXCEPT !.revoked = TRUE]]
      BY <1>10 DEF Revoke
    <2>2. s \in Sids
      BY DEF Sids
    <2>3. sessions' \in [Sids -> Rows]
      BY <2>1, <2>2
    <2> QED BY <1>10, <2>3 DEF Revoke
  <1>11. CASE ChangePassword(c)
    BY <1>11, InvalidatedIs DEF ChangePassword
  <1>12. CASE Setup(c)
    <2>1. Invalidated(safe) \in Safes
      BY <1>12, InvalidatedIs DEF Setup
    <2>2. [Invalidated(safe) EXCEPT !.configured = TRUE, !.enabled = TRUE] \in Safes
      BY <2>1 DEF Safes
    <2> QED BY <1>12, <2>2 DEF Setup
  <1>13. CASE Protect(c)
    <2>1. PICK on \in BOOLEAN : safe' = [Invalidated(safe) EXCEPT !.enabled = on]
      BY <1>13 DEF Protect
    <2>2. Invalidated(safe) \in Safes
      BY <1>13, InvalidatedIs DEF Protect
    <2> QED BY <1>13, <2>1, <2>2 DEF Protect
  <1>14. CASE Unlock(c)
    <2>1. caller[c].left \in Spans /\ safe.version \in 1 .. MaxVersion
      OBVIOUS
    <2>2. Until(c) \in Spans
      BY <2>1 DEF Until, Spans
    <2>3. [version |-> safe.version, left |-> Until(c)] \in Grants
      BY <2>1, <2>2 DEF Grants
    <2>4. PICK gone \in Sids : safe' = [safe EXCEPT !.grants = [s \in Sids |->
            IF s = caller[c].sid THEN [version |-> safe.version, left |-> Until(c)]
            ELSE IF s \in Kept(gone) THEN safe.grants[s] ELSE NoGrant]]
      BY <1>14 DEF Unlock
    <2>5. safe' \in Safes
      BY <2>3, <2>4
    <2> QED BY <1>14, <2>5 DEF Unlock
  <1>15. CASE Relock(c)
    BY <1>15 DEF Relock
  <1>16. CASE BeginAdmin(c)
    BY <1>16 DEF BeginAdmin
  <1>17. CASE CommitAdmin(c)
    BY <1>17 DEF CommitAdmin
  <1>18. CASE GiveUp(c)
    BY <1>18 DEF GiveUp
  <1> QED BY <1>2, <1>3, <1>4, <1>5, <1>6, <1>7, <1>8, <1>9, <1>10, <1>11, <1>12, <1>13,
             <1>14, <1>15, <1>16, <1>17, <1>18

\* The three parts of the security row that a step may leave alone.
LEMMA RoomyKept ==
  ASSUME SessionInv, SessionNext
  PROVE  Roomy'
  <1> USE SessionAssumption DEF SessionInv
  <1> DEFINE Shrunk == Granted' \in SUBSET Granted
  <1>1. ASSUME Shrunk PROVE Roomy'
    <2>1. Granted \in SUBSET Sids
      BY DEF Granted
    <2>2. Cardinality(Granted') <= Cardinality(Granted)
      BY <1>1, <2>1, GrantsFinite, FS_Subset
    <2>3. Cardinality(Granted) \in Nat /\ Cardinality(Granted') \in Nat
      BY <1>1, <2>1, GrantsFinite
    <2> QED BY <2>2, <2>3 DEF Roomy
  <1>2. CASE UNCHANGED safe
    BY <1>1, <1>2 DEF Granted
  <1>3. CASE SessionTick
    <2>1. \A s \in Sids : safe'.grants[s].version = safe.grants[s].version
      BY <1>3 DEF SessionTick, Types, Safes, Grants
    <2> QED BY <1>1, <2>1 DEF Granted
  <1>4. ASSUME NEW c \in Callers, ChangePassword(c) \/ Setup(c) \/ Protect(c)
        PROVE  Roomy'
    <2>1. MayInvalidate
      BY <1>4 DEF ChangePassword, Setup, Protect
    <2>2. safe'.grants = [s \in Sids |-> NoGrant]
      <3>1. CASE ChangePassword(c)
        BY <2>1, <3>1, InvalidatedIs DEF ChangePassword
      <3>2. CASE Setup(c)
        BY <2>1, <3>2, InvalidatedIs DEF Setup, Safes
      <3>3. CASE Protect(c)
        BY <2>1, <3>3, InvalidatedIs DEF Protect, Safes
      <3> QED BY <1>4, <3>1, <3>2, <3>3
    <2> QED BY <1>1, <2>2 DEF Granted, NoGrant
  <1>5. ASSUME NEW c \in Callers, Logout(c) \/ Relock(c)
        PROVE  Roomy'
    <2>1. PICK s : safe' = [safe EXCEPT !.grants[s] = NoGrant]
      BY <1>5 DEF Logout, Relock
    <2>2. \A u \in Sids : safe'.grants[u] \in {safe.grants[u], NoGrant}
      BY <2>1 DEF Types, Safes
    <2> QED BY <1>1, <2>2 DEF Granted, NoGrant
  <1>6. ASSUME NEW c \in Callers, Unlock(c)
        PROVE  Roomy'
    <2>1. PICK gone \in Sids :
            /\ \A s \in Current : gone \in Current
            /\ safe' = [safe EXCEPT !.grants = [s \in Sids |->
                 IF s = caller[c].sid
                 THEN [version |-> safe.version, left |-> Until(c)]
                 ELSE IF s \in Kept(gone) THEN safe.grants[s] ELSE NoGrant]]
      BY <1>6 DEF Unlock
    <2>2. \A s \in Sids : safe'.grants[s] =
                 IF s = caller[c].sid
                 THEN [version |-> safe.version, left |-> Until(c)]
                 ELSE IF s \in Kept(gone) THEN safe.grants[s] ELSE NoGrant
      BY <2>1 DEF Types, Safes
    <2>3. Granted' \in SUBSET (Kept(gone) \cup {caller[c].sid})
      BY <2>2 DEF Granted, NoGrant
    <2>4. Current \in SUBSET Granted /\ Granted \in SUBSET Sids /\ Kept(gone) \in SUBSET Sids
      BY DEF Current, Granted, Kept
    <2>5. IsFiniteSet(Current) /\ Cardinality(Current) \in Nat /\ IsFiniteSet(Kept(gone))
          /\ Cardinality(Kept(gone)) \in Nat /\ Cardinality(Granted) \in Nat
          /\ Cardinality(Current) <= Cardinality(Granted)
      BY <2>4, GrantsFinite, FS_Subset
    <2>6. Cardinality(Kept(gone)) + 1 <= MaxGrants
      <3>1. CASE Cardinality(Current) >= MaxGrants
        <4>1. Current # {}
          BY <2>5, <3>1, FS_EmptySet
        <4>2. gone \in Current
          BY <2>1, <4>1
        <4>3. Cardinality(Current \ {gone}) = Cardinality(Current) - 1
          BY <2>5, <4>2, FS_RemoveElement
        <4> QED BY <2>5, <3>1, <4>3 DEF Kept, Roomy
      <3>2. CASE ~(Cardinality(Current) >= MaxGrants)
        BY <2>5, <3>2 DEF Kept
      <3> QED BY <3>1, <3>2
    <2>7. IsFiniteSet(Kept(gone) \cup {caller[c].sid})
          /\ Cardinality(Kept(gone) \cup {caller[c].sid}) <= MaxGrants
          /\ Cardinality(Kept(gone) \cup {caller[c].sid}) \in Nat
      <3> DEFINE K == Kept(gone)  x == caller[c].sid
      <3>1. IsFiniteSet(K) /\ Cardinality(K) \in Nat /\ Cardinality(K) + 1 <= MaxGrants
        BY <2>5, <2>6
      <3> HIDE DEF K, x
      <3>2. IsFiniteSet(K \cup {x})
            /\ Cardinality(K \cup {x}) = IF x \in K THEN Cardinality(K) ELSE Cardinality(K) + 1
        BY <3>1, FS_AddElement
      <3>3. Cardinality(K \cup {x}) <= MaxGrants /\ Cardinality(K \cup {x}) \in Nat
        BY <3>1, <3>2
      <3> QED BY <3>2, <3>3 DEF K, x
    <2>8. Cardinality(Granted') <= Cardinality(Kept(gone) \cup {caller[c].sid})
          /\ Cardinality(Granted') \in Nat
      BY <2>3, <2>7, FS_Subset, FS_CardinalityType
    <2> QED BY <2>7, <2>8 DEF Roomy
  <1> QED BY <1>2, <1>3, <1>4, <1>5, <1>6 DEF SessionNext, BeginRegister, CommitRegister, Login,
             BeginRotate, CommitRotate, Enter, Activity, Revoke, BeginAdmin, CommitAdmin, GiveUp

Acts(c) == \/ BeginRegister(c) \/ CommitRegister(c) \/ Login(c)
           \/ BeginRotate(c) \/ CommitRotate(c) \/ Logout(c)
           \/ Enter(c) \/ Activity(c) \/ Revoke(c) \/ ChangePassword(c)
           \/ Setup(c) \/ Protect(c) \/ Unlock(c) \/ Relock(c)
           \/ BeginAdmin(c) \/ CommitAdmin(c) \/ GiveUp(c)

\* A step of one request leaves the others where they are.
LEMMA OthersWait ==
  ASSUME SessionInv, NEW c \in Callers, Acts(c)
  PROVE  \A d \in Callers \ {c} : caller'[d] = caller[d]
  BY DEF SessionInv, Types, Acts, BeginRegister, CommitRegister, Login, BeginRotate, CommitRotate,
         Logout, Enter, Activity, Revoke, ChangePassword, Setup, Protect, Unlock, Relock,
         BeginAdmin, CommitAdmin, GiveUp, Move, Leave

\* Tokens change for a new session and for a session whose row is held.
LEMMA TokensStay ==
  ASSUME SessionInv, NEW c \in Callers, Acts(c), NEW s \in 1 .. created
  PROVE  /\ s \in 1 .. created' /\ s \in Sids
         /\ sessions'[s].token = sessions[s].token \/ (CommitRotate(c) /\ rowLock[s] = c)
  <1>1. CASE CommitRegister(c)
    <2>1. /\ created \in 0 .. MaxSessions /\ created' = created + 1 /\ created < MaxSessions
          /\ sessions' = [sessions EXCEPT ![created'] = NewRow(TRUE)]
      BY <1>1 DEF CommitRegister, NewSession, SessionInv, Types
    <2>2. s \in Sids /\ s # created' /\ s \in 1 .. created'
      BY <2>1, SessionAssumption DEF Sids
    <2> QED BY <2>1, <2>2 DEF SessionInv, Types
  <1>2. CASE Login(c)
    <2>1. PICK previous \in Sids \cup {Never}, remember \in BOOLEAN :
            /\ created' = created + 1 /\ created < MaxSessions
            /\ sessions' = [u \in Sids |->
                 IF u = created' THEN NewRow(remember)
                 ELSE IF u = previous THEN [sessions[u] EXCEPT !.revoked = TRUE]
                 ELSE sessions[u]]
      BY <1>2 DEF Login, NewSession
    <2>2. s \in Sids /\ s # created' /\ s \in 1 .. created'
      BY <2>1, SessionAssumption DEF SessionInv, Types, Sids
    <2>3. sessions'[s] = sessions[s] \/ sessions'[s] = [sessions[s] EXCEPT !.revoked = TRUE]
      BY <2>1, <2>2
    <2>4. sessions[s] \in Rows
      BY <2>2 DEF SessionInv, Types
    <2> QED BY <2>2, <2>3, <2>4 DEF Rows
  <1>3. s \in Sids
    BY SessionAssumption DEF SessionInv, Types, Sids
  <1>4. sessions \in [Sids -> Rows] /\ sessions[s] \in Rows
    BY <1>3 DEF SessionInv, Types
  <1>5. CASE CommitRotate(c)
    BY <1>3, <1>4, <1>5 DEF CommitRotate, LocksHeld, At, SessionInv
  <1>6. CASE Logout(c)
    BY <1>3, <1>4, <1>6 DEF Logout, Rows
  <1>7. CASE Activity(c)
    BY <1>3, <1>4, <1>7 DEF Activity, Rows
  <1>8. CASE Revoke(c)
    BY <1>3, <1>4, <1>8 DEF Revoke, Rows
  <1>9. CASE ChangePassword(c)
    BY <1>3, <1>4, <1>9 DEF ChangePassword, Rows
  <1> QED BY <1>1, <1>2, <1>3, <1>5, <1>6, <1>7, <1>8, <1>9 DEF Acts, BeginRegister, BeginRotate,
             Enter, Setup, Protect, Unlock, Relock, BeginAdmin, CommitAdmin, GiveUp

LEMMA LocksKept ==
  ASSUME SessionInv, SessionNext
  PROVE  LocksHeld'
  <1> USE SessionAssumption DEF SessionInv, Types, LocksHeld, At
  <1>1. CASE SessionTick
    <2>1. \A c \in Callers : /\ caller'[c].at = caller[c].at /\ caller'[c].sid = caller[c].sid
                             /\ caller'[c].token = caller[c].token
      BY <1>1 DEF SessionTick, Callees
    <2>2. \A s \in Sids : sessions'[s].token = sessions[s].token
      BY <1>1 DEF SessionTick, Rows
    <2>3. 1 .. created \subseteq Sids
      BY DEF Sids
    <2> QED BY <1>1, <2>1, <2>2, <2>3 DEF SessionTick
  <1> SUFFICES ASSUME NEW c \in Callers, Acts(c) PROVE LocksHeld'
    BY <1>1 DEF SessionNext, Acts
  <1>2. ASSUME NEW d \in Callers \ {c}
        PROVE  /\ safeLock = d => safeLock' = d /\ users' = users
               /\ \A s \in Sids : rowLock[s] = d => rowLock'[s] = d
    <2> Nobody # d
      BY <1>2
    <2>1. CASE BeginRegister(c) \/ CommitRegister(c) \/ BeginAdmin(c) \/ CommitAdmin(c)
      BY <1>2, <2>1 DEF BeginRegister, CommitRegister, BeginAdmin, CommitAdmin, SafeFree
    <2>2. CASE BeginRotate(c)
      BY <1>2, <2>2 DEF BeginRotate, RowFree
    <2>3. CASE CommitRotate(c)
      BY <1>2, <2>3 DEF CommitRotate
    <2>4. CASE GiveUp(c)
      BY <1>2, <2>4 DEF GiveUp
    <2> QED BY <2>1, <2>2, <2>3, <2>4 DEF Acts, Login, Logout, Enter, Activity, Revoke,
               ChangePassword, Setup, Protect, Unlock, Relock
  <1>3. ASSUME NEW d \in Callers \ {c}
        PROVE  /\ At(d, "register")' => safeLock' = d /\ users' = 0
               /\ At(d, "admin")' => safeLock' = d
               /\ At(d, "rotate")' => /\ caller'[d].sid \in 1 .. created'
                                      /\ rowLock'[caller'[d].sid] = d
                                      /\ caller'[d].token = sessions'[caller'[d].sid].token
               /\ At(d, "seen")' \/ At(d, "admin")' => caller'[d].sid \in Sids
    <2>1. caller'[d] = caller[d]
      BY <1>3, OthersWait
    <2>2. ASSUME At(d, "rotate")
          PROVE  /\ caller[d].sid \in 1 .. created' /\ rowLock'[caller[d].sid] = d
                 /\ caller[d].token = sessions'[caller[d].sid].token
      <3> DEFINE r == caller[d].sid
      <3>1. r \in 1 .. created /\ rowLock[r] = d /\ rowLock[r] # c /\ caller[d].token = sessions[r].token
        BY <1>3, <2>2
      <3>2. r \in 1 .. created' /\ r \in Sids /\ sessions'[r].token = sessions[r].token
        BY <3>1, TokensStay
      <3> QED BY <1>2, <1>3, <3>1, <3>2
    <2> QED BY <1>2, <1>3, <2>1, <2>2
  <1>4. /\ At(c, "register")' => safeLock' = c /\ users' = 0
        /\ At(c, "admin")' => safeLock' = c
        /\ At(c, "rotate")' => /\ caller'[c].sid \in 1 .. created'
                               /\ rowLock'[caller'[c].sid] = c
                               /\ caller'[c].token = sessions'[caller'[c].sid].token
        /\ At(c, "seen")' \/ At(c, "admin")' => caller'[c].sid \in Sids
    <2>1. CASE caller'[c] = Away
      BY <2>1 DEF Away
    <2>2. CASE BeginRegister(c)
      BY <2>2 DEF BeginRegister, Move, Callees
    <2>3. CASE BeginRotate(c)
      <3>1. PICK s \in Sids : /\ Live(s) /\ rowLock' = [rowLock EXCEPT ![s] = c]
                              /\ caller'[c] = [at |-> "rotate", sid |-> s, left |-> sessions[s].left,
                                               token |-> sessions[s].token]
        <4>1. PICK s \in Sids : /\ Live(s) /\ rowLock' = [rowLock EXCEPT ![s] = c]
                /\ caller' = [caller EXCEPT ![c] = [at |-> "rotate", sid |-> s,
                                left |-> sessions[s].left, token |-> sessions[s].token]]
          BY <2>3 DEF BeginRotate
        <4> QED BY <4>1
      <3>2. s \in 1 .. created
        BY <3>1 DEF TokensFresh, Live, NoSession, Sids
      <3> QED BY <2>3, <3>1, <3>2 DEF BeginRotate
    <2>4. CASE Enter(c)
      BY <2>4 DEF Enter
    <2>5. CASE BeginAdmin(c)
      BY <2>5 DEF BeginAdmin, Move, Callees
    <2>6. CASE Login(c)
      BY <2>6, TokensStay DEF Login
    <2>7. CASE Logout(c)
      BY <2>7, TokensStay DEF Logout
    <2> QED BY <2>1, <2>2, <2>3, <2>4, <2>5, <2>6, <2>7 DEF Acts, CommitRegister, CommitRotate,
               Activity, Revoke, ChangePassword, Setup, Protect, Unlock, Relock, CommitAdmin,
               GiveUp, Leave
  <1> QED BY <1>3, <1>4

LEMMA FreshKept ==
  ASSUME SessionInv, SessionNext
  PROVE  TokensFresh' /\ TokenOnce'
  <1> USE SessionAssumption DEF SessionInv
  <1>1. CASE SessionTick
    <2>1. \A s \in Sids : sessions'[s].token = sessions[s].token
      BY <1>1 DEF SessionTick, Types, Rows
    <2>2. \A s \in Sids : sessions[s] = NoSession => sessions'[s] = NoSession
      BY <1>1 DEF SessionTick, NoSession, Less
    <2>3. 1 .. created \subseteq Sids
      BY DEF Sids, Types
    <2> QED BY <1>1, <2>1, <2>2, <2>3 DEF SessionTick, TokensFresh, TokenOnce
  <1> SUFFICES ASSUME NEW c \in Callers, Acts(c) PROVE TokensFresh' /\ TokenOnce'
    BY <1>1 DEF SessionNext, Acts
  <1>2. ASSUME NEW s \in Sids, s > created', s > created
        PROVE  sessions'[s] = NoSession
    <2> USE <1>2 DEF Types
    <2>1. sessions[s] = NoSession /\ ~Live(s)
      BY DEF TokensFresh, Live, NoSession
    <2>2. CASE CommitRegister(c)
      <3>1. created' = created + 1 /\ sessions' = [sessions EXCEPT ![created'] = NewRow(TRUE)]
        BY <2>2 DEF CommitRegister, NewSession
      <3>2. s # created'
        BY <3>1 DEF Sids
      <3> QED BY <2>1, <3>1, <3>2
    <2>3. CASE Login(c)
      <3>1. PICK previous \in Sids \cup {Never}, remember \in BOOLEAN :
            /\ created' = created + 1 /\ (previous # Never => Live(previous))
            /\ sessions' = [u \in Sids |->
                 IF u = created' THEN NewRow(remember)
                 ELSE IF u = previous THEN [sessions[u] EXCEPT !.revoked = TRUE]
                 ELSE sessions[u]]
        BY <2>3 DEF Login, NewSession
      <3>2. s # previous /\ s # created'
        BY <2>1, <3>1 DEF Never, Sids
      <3> QED BY <2>1, <3>1, <3>2
    <2>4. CASE CommitRotate(c)
      BY <2>1, <2>4 DEF CommitRotate, LocksHeld, At
    <2>5. CASE Logout(c)
      BY <2>1, <2>5 DEF Logout
    <2>6. CASE Activity(c)
      BY <2>1, <2>6 DEF Activity, Renewable
    <2>7. CASE Revoke(c)
      BY <2>1, <2>7 DEF Revoke
    <2>8. CASE ChangePassword(c)
      <3>1. sessions'[s] = [sessions[s] EXCEPT !.revoked = TRUE]
        BY <2>8 DEF ChangePassword
      <3>2. \A r \in Rows : r.revoked => [r EXCEPT !.revoked = TRUE] = r
        BY DEF Rows
      <3>3. sessions[s].revoked
        BY <2>1 DEF NoSession
      <3>4. sessions[s] \in Rows
        OBVIOUS
      <3> QED BY <2>1, <3>1, <3>2, <3>3, <3>4
    <2> QED BY <2>1, <2>2, <2>3, <2>4, <2>5, <2>6, <2>7, <2>8 DEF Acts, BeginRegister, BeginRotate,
               Enter, Setup, Protect, Unlock, Relock, BeginAdmin, CommitAdmin, GiveUp
  \* A new session takes the next token.
  <1>3. ASSUME created' = created + 1, tokens' = tokens + 1, tokens < MaxTokens, exchanged' = exchanged,
               created < MaxSessions, sessions'[created'].token = tokens', ~CommitRotate(c)
        PROVE  TokensFresh' /\ TokenOnce'
    <2>1. \A s \in 1 .. created' : s = created' \/ s \in 1 .. created
      BY <1>3 DEF Types
    <2>2. \A s \in 1 .. created : sessions'[s].token = sessions[s].token
      BY <1>3, TokensStay
    <2>3. exchanged'[tokens'] = 0 /\ tokens' \in 1 .. MaxTokens /\ tokens \in Nat
      BY <1>3 DEF TokensFresh, Types
    <2>4. \A s \in 1 .. created : sessions'[s].token \in 1 .. tokens /\ sessions'[s].token # tokens'
                                 /\ exchanged'[sessions'[s].token] = 0
      BY <1>3, <2>2, <2>3 DEF TokensFresh
    <2>5. \A s \in Sids : s > created' => sessions'[s] = NoSession
      BY <1>2, <1>3 DEF Sids, Types
    <2>6. \A s \in 1 .. created' : sessions'[s].token \in 1 .. tokens' /\ exchanged'[sessions'[s].token] = 0
      BY <1>3, <2>1, <2>3, <2>4
    <2>7. \A s, u \in 1 .. created' : sessions'[s].token = sessions'[u].token => s = u
      BY <1>3, <2>1, <2>2, <2>4 DEF TokensFresh
    <2>8. \A t \in 1 .. MaxTokens : t > tokens' => exchanged'[t] = 0
      BY <1>3, <2>3 DEF TokensFresh
    <2> QED BY <1>3, <2>5, <2>6, <2>7, <2>8 DEF TokensFresh, TokenOnce
  <1>4. CASE CommitRegister(c)
    <2>1. /\ created' = created + 1 /\ tokens' = tokens + 1 /\ tokens < MaxTokens /\ exchanged' = exchanged
          /\ created < MaxSessions /\ sessions' = [sessions EXCEPT ![created'] = NewRow(TRUE)]
      BY <1>4 DEF CommitRegister, NewSession
    <2>2. created' \in Sids
      BY <2>1 DEF Sids, Types
    <2>3. sessions'[created'].token = tokens'
      BY <2>1, <2>2 DEF NewRow, Types
    <2>4. ~CommitRotate(c)
      BY <1>4 DEF CommitRegister, CommitRotate, At
    <2> QED BY <1>3, <2>1, <2>3, <2>4
  <1>5. CASE Login(c)
    <2>1. /\ created' = created + 1 /\ tokens' = tokens + 1 /\ tokens < MaxTokens /\ exchanged' = exchanged
          /\ created < MaxSessions
      BY <1>5 DEF Login, NewSession
    <2>2. created' \in Sids
      BY <2>1 DEF Sids, Types
    <2>3. sessions'[created'].token = tokens'
      BY <1>5, <2>2 DEF Login, NewRow
    <2>4. ~CommitRotate(c)
      BY <1>5 DEF Login, CommitRotate, At
    <2> QED BY <1>3, <2>1, <2>3, <2>4
  <1>6. CASE CommitRotate(c)
    <2> DEFINE r == caller[c].sid  old == caller[c].token
    <2>1. /\ r \in 1 .. created /\ rowLock[r] = c /\ old = sessions[r].token
          /\ tokens' = tokens + 1 /\ tokens < MaxTokens /\ created' = created
          /\ exchanged' = [exchanged EXCEPT ![old] = @ + 1]
          /\ sessions' = [sessions EXCEPT ![r].token = tokens']
      BY <1>6 DEF CommitRotate, LocksHeld, At
    <2>2. r \in Sids /\ created \in Nat /\ tokens \in Nat /\ 1 .. created \subseteq Sids
      BY <2>1 DEF Sids, Types
    <2>3. old \in 1 .. tokens /\ old \in 1 .. MaxTokens /\ exchanged[old] = 0
      BY <2>1, <2>2 DEF TokensFresh
    <2>4. exchanged'[old] = 1 /\ \A t \in 1 .. MaxTokens : t # old => exchanged'[t] = exchanged[t]
      BY <2>1, <2>3 DEF Types
    <2>5. TokenOnce'
      BY <2>4 DEF TokenOnce
    <2>6. sessions'[r].token = tokens' /\ \A s \in Sids \ {r} : sessions'[s] = sessions[s]
      BY <2>1, <2>2 DEF Types, Rows
    <2>7. exchanged'[tokens'] = 0 /\ tokens' \in 1 .. MaxTokens
      BY <2>1, <2>2, <2>3, <2>4 DEF TokensFresh
    <2>8. \A s \in 1 .. created : s # r => /\ sessions'[s].token = sessions[s].token
                                         /\ sessions[s].token \in 1 .. tokens
                                         /\ sessions[s].token # old
                                         /\ exchanged'[sessions[s].token] = 0
      BY <2>1, <2>2, <2>4, <2>6 DEF TokensFresh, Types
    <2>9. \A s \in Sids : s > created' => sessions'[s] = NoSession
      BY <1>2, <2>1
    <2>10. \A s \in 1 .. created' : sessions'[s].token \in 1 .. tokens' /\ exchanged'[sessions'[s].token] = 0
      BY <2>1, <2>2, <2>6, <2>7, <2>8
    <2>11. \A s, u \in 1 .. created' : sessions'[s].token = sessions'[u].token => s = u
      BY <2>1, <2>2, <2>6, <2>8 DEF TokensFresh
    <2>12. \A t \in 1 .. MaxTokens : t > tokens' => exchanged'[t] = 0
      BY <2>1, <2>2, <2>3, <2>4 DEF TokensFresh
    <2> QED BY <2>5, <2>9, <2>10, <2>11, <2>12 DEF TokensFresh
  <1>7. CASE UNCHANGED <<created, tokens, exchanged>>
    <2>1. ~CommitRotate(c)
      BY <1>7 DEF CommitRotate, Types
    <2>2. \A s \in 1 .. created : sessions'[s].token = sessions[s].token
      BY <2>1, TokensStay
    <2>3. \A s \in Sids : s > created' => sessions'[s] = NoSession
      BY <1>2, <1>7
    <2> QED BY <1>7, <2>2, <2>3 DEF TokensFresh, TokenOnce
  <1> QED BY <1>4, <1>5, <1>6, <1>7 DEF Acts, BeginRegister, BeginRotate, Logout, Enter, Activity,
             Revoke, ChangePassword, Setup, Protect, Unlock, Relock, BeginAdmin, CommitAdmin, GiveUp

LEMMA AdminKept ==
  ASSUME SessionInv, SessionNext
  PROVE  AdminHolds'
  <1> USE SessionAssumption DEF SessionInv, AdminHolds, At
  <1>1. CASE SessionTick
    <2>1. \A c \in Callers : caller'[c].at = caller[c].at /\ caller'[c].sid = caller[c].sid
      BY <1>1 DEF SessionTick, Types, Callees
    <2>2. /\ safe'.configured = safe.configured /\ safe'.enabled = safe.enabled
          /\ safe'.version = safe.version
          /\ \A s \in Sids : safe'.grants[s].version = safe.grants[s].version
      BY <1>1 DEF SessionTick, Types, Safes, Grants
    <2> QED BY <2>1, <2>2 DEF LocksHeld
  <1> SUFFICES ASSUME NEW c \in Callers, Acts(c) PROVE AdminHolds'
    BY <1>1 DEF SessionNext, Acts
  <1>2. CASE BeginAdmin(c)
    <2>1. safe' = safe /\ Elevated(caller[c].sid) /\ \A d \in Callers : caller'[d].sid = caller[d].sid
      BY <1>2 DEF BeginAdmin, Move, Types, Callees
    <2>2. \A d \in Callers : caller'[d].at = "admin" => d = c \/ caller[d].at = "admin"
      BY <1>2 DEF BeginAdmin, Move, Types, Callees
    <2> QED BY <2>1, <2>2 DEF Elevated
  <1>3. CASE UNCHANGED safe /\ ~BeginAdmin(c)
    <2>1. caller'[c].at # "admin" \/ caller'[c] = caller[c]
      <3> USE <1>3 DEF Types, Away
      <3>1. CASE Leave(c)
        BY <3>1 DEF Leave
      <3>2. CASE BeginRegister(c)
        BY <3>2 DEF BeginRegister, Move, Callees
      <3>3. CASE BeginRotate(c)
        BY <3>3 DEF BeginRotate
      <3>4. CASE Enter(c)
        BY <3>4 DEF Enter
      <3> QED BY <3>1, <3>2, <3>3, <3>4 DEF Acts, CommitRegister, Login, CommitRotate, Logout,
                 Activity, Revoke, ChangePassword, Setup, Protect, Unlock, Relock, CommitAdmin, GiveUp
    <2> QED BY <1>3, <2>1, OthersWait
  <1>4. CASE SafeFree /\ (caller'[c] = Away \/ caller'[c] = caller[c])
    BY <1>4, OthersWait DEF SafeFree, LocksHeld, Away
  <1>5. CASE Logout(c) \/ ChangePassword(c) \/ Setup(c) \/ Protect(c) \/ Unlock(c) \/ Relock(c)
    BY <1>4, <1>5 DEF Logout, ChangePassword, Setup, Protect, Unlock, Relock, Leave, Types
  <1> QED BY <1>2, <1>3, <1>5 DEF Acts, BeginRegister, CommitRegister, Login, BeginRotate,
             CommitRotate, Enter, Activity, Revoke, CommitAdmin, GiveUp

LEMMA SessionsKept == SessionInv /\ [SessionNext]_sessionVars => SessionInv'
  <1> SUFFICES ASSUME SessionInv, [SessionNext]_sessionVars PROVE SessionInv'
    OBVIOUS
  <1>1. CASE SessionNext
    BY <1>1, TypesKept, RoomyKept, LocksKept, FreshKept, AdminKept DEF SessionInv
  <1>2. CASE UNCHANGED sessionVars
    BY <1>2 DEF sessionVars, SessionInv, Types, Roomy, Granted, LocksHeld, TokensFresh, TokenOnce,
                AdminHolds, At
  <1> QED BY <1>1, <1>2

\* A step that makes a dead session live would have to be the one that makes it.
LEMMA DeadKept ==
  ASSUME SessionInv, [SessionNext]_sessionVars, NEW s \in 1 .. created, ~Live(s)
  PROVE  ~Live(s)'
  <1> USE SessionAssumption DEF SessionInv
  <1>0. s \in Sids /\ sessions \in [Sids -> Rows] /\ sessions[s] \in Rows /\ s # created + 1
    BY DEF Types, Sids
  <1> USE <1>0
  <1>1. CASE SessionTick
    <2>1. sessions'[s] = [sessions[s] EXCEPT !.left = Less(@)]
      BY <1>1 DEF SessionTick
    <2>2. sessions'[s].revoked = sessions[s].revoked /\ sessions'[s].left = Less(sessions[s].left)
      BY <2>1 DEF Rows
    <2>3. sessions[s].left \in Nat
      BY DEF Rows, Spans
    <2> QED BY <2>2, <2>3 DEF Live, Less
  <1>2. CASE UNCHANGED sessionVars
    BY <1>2 DEF sessionVars, Live
  <1> SUFFICES ASSUME NEW c \in Callers, Acts(c) PROVE ~Live(s)'
    BY <1>1, <1>2 DEF SessionNext, Acts
  <1>3. CASE CommitRegister(c)
    BY <1>3 DEF CommitRegister, NewSession, Live
  <1>4. CASE Login(c)
    BY <1>4 DEF Login, NewSession, Live, Rows
  <1>5. CASE CommitRotate(c)
    BY <1>5 DEF CommitRotate, Live, Rows
  <1>6. CASE Logout(c)
    BY <1>6 DEF Logout, Live, Rows
  <1>7. CASE Activity(c)
    BY <1>7 DEF Activity, Renewable, Live
  <1>8. CASE Revoke(c)
    BY <1>8 DEF Revoke, Live, Rows
  <1>9. CASE ChangePassword(c)
    BY <1>9 DEF ChangePassword, Live, Rows
  <1> QED BY <1>3, <1>4, <1>5, <1>6, <1>7, <1>8, <1>9 DEF Acts, BeginRegister, BeginRotate, Enter,
             Setup, Protect, Unlock, Relock, BeginAdmin, CommitAdmin, GiveUp, Live

\* Two first visitors never make two accounts, and the security row never keeps more
\* grants than it may, whatever requests overlap (register, unlock).
THEOREM SessionsTyped == SessionSpec => []SessionTypeOK
  <1>1. SessionInv => SessionTypeOK
    BY DEF SessionInv, SessionTypeOK, Types, Roomy, Rows, Safes, Grants, Callees
  <1> QED BY <1>1, SessionsStart, SessionsKept, PTL DEF SessionSpec

\* A refresh token is exchanged at most once (rotate_refresh).
THEOREM TokensAreSpentOnce == SessionSpec => []TokenOnce
  <1>1. SessionInv => TokenOnce
    BY DEF SessionInv
  <1> QED BY <1>1, SessionsStart, SessionsKept, PTL DEF SessionSpec

\* The protection an administrative request was judged by stands until it is
\* through (require_admin).
THEOREM ProtectionHolds == SessionSpec => []AdminHolds
  <1>1. SessionInv => AdminHolds
    BY DEF SessionInv
  <1> QED BY <1>1, SessionsStart, SessionsKept, PTL DEF SessionSpec

\* A session that was revoked or has expired stays dead (activity).
THEOREM NoResurrection == SessionSpec => DeadStaysDead
  <1>1. SessionInv /\ [SessionNext]_sessionVars
        => [\A s \in 1 .. created : ~Live(s) => ~Live(s)']_sessionVars
    BY DeadKept
  <1> QED BY <1>1, SessionsStart, SessionsKept, PTL DEF SessionSpec, DeadStaysDead

-----------------------------------------------------------------------------
(* The OpenID provider.  Every code is in one place at a time: with the     *)
(* server that creates it, in the document, with the server that exchanges  *)
(* it, or spent.  What a server has copied differs from the document only   *)
(* by what has expired.                                                     *)

Holds(records, n) == \E r \in records : r.serial = n
OneClient(records) == \A r, q \in records : r.serial = q.serial => r.client = q.client

Codes == [serial : Serials, client : Clients, left : 0 .. CodeTTL]
Tokens == [serial : Serials, client : Clients, left : 0 .. TokenTTL]
Places == {"rest", "authorize", "userinfo", "exchange", "signing", "store"}
Inside == {"authorize", "userinfo", "exchange", "store"}
Hands == [at : Places, copy : Documents,
          record : [serial : 0 .. MaxIssued, client : Clients \cup {NoServer}, left : Nat]]

\* The type invariant, and what a server is about to store is a code or a token.
Typed ==
  /\ document \in Documents
  /\ documentLock \in Servers \cup {NoServer}
  /\ serial \in 0 .. MaxIssued
  /\ secret \in [Clients -> BOOLEAN]
  /\ answered \in [Serials -> Nat]
  /\ \A s \in Servers : /\ server[s].at \in Places /\ server[s].copy \in Documents
                        /\ server[s].at \in Inside <=> documentLock = s

ServersTyped ==
  /\ server \in [Servers -> Hands]
  /\ \A s \in Servers :
       /\ server[s].at = "authorize" => server[s].record \in Codes
       /\ server[s].at \in {"exchange", "signing", "store"} => server[s].record \in Tokens

\* Server s took code n and has not answered; it has made n and not stored it.
Exchanging(v, s, n) == v[s].at \in {"signing", "store"} /\ v[s].record.serial = n
Creating(v, s, n) == v[s].at = "authorize" /\ v[s].record.serial = n

\* A code is with one server, or in the document, or spent.
OnePlace ==
  /\ \A n \in Serials : answered[n] \in {0, 1}
  /\ \A n \in Serials : (answered[n] = 1 \/ Holds(document.tokens, n)) => ~Holds(document.codes, n)
  /\ \A n \in Serials, s \in Servers : Exchanging(server, s, n) =>
       /\ answered[n] = 0 /\ ~Holds(document.codes, n)
       /\ \A t \in Servers : Exchanging(server, t, n) => t = s
  /\ \A n \in Serials, s \in Servers : Creating(server, s, n) =>
       /\ answered[n] = 0 /\ ~Holds(document.codes, n) /\ ~Holds(document.tokens, n)
       /\ \A t \in Servers : ~Exchanging(server, t, n)
  /\ OneClient(document.codes)

\* Nothing is known of a code that was not created yet.
Unborn ==
  \A n \in Serials : n > serial =>
    /\ answered[n] = 0 /\ ~Holds(document.codes, n) /\ ~Holds(document.tokens, n)
    /\ \A s \in Servers : ~Exchanging(server, s, n) /\ ~Creating(server, s, n)

\* The holder of the lock has what the document has, but for what expired.
CopySound ==
  \A s \in Servers : server[s].at \in Inside =>
    /\ \A n \in Serials : Holds(server[s].copy.codes, n) => Holds(document.codes, n)
    /\ \A n \in Serials : Holds(server[s].copy.tokens, n) => Holds(document.tokens, n)
    /\ \A n \in Serials : Holds(Alive(document.codes), n) => Holds(server[s].copy.codes, n)
    /\ \A n \in Serials : Holds(Alive(document.tokens), n) => Holds(server[s].copy.tokens, n)
    /\ OneClient(server[s].copy.codes)

OidcInv == Typed /\ ServersTyped /\ OnePlace /\ Unborn /\ CopySound

-----------------------------------------------------------------------------
(* Records that grow older.                                                 *)

LEMMA Ageing ==
  ASSUME NEW T \in Nat, NEW records \in SUBSET [serial : Serials, client : Clients, left : 0 .. T]
  PROVE  /\ Older(records) \in SUBSET [serial : Serials, client : Clients, left : 0 .. T]
         /\ \A n : Holds(Older(records), n) <=> Holds(records, n)
         /\ \A n : Holds(Alive(Older(records)), n) => Holds(Alive(records), n)
         /\ OneClient(records) => OneClient(Older(records))
  <1> DEFINE AgedRecord(r) == [r EXCEPT !.left = IF @ = 0 THEN 0 ELSE @ - 1]
  <1>1. ASSUME NEW r \in records
        PROVE  /\ AgedRecord(r) \in [serial : Serials, client : Clients, left : 0 .. T]
               /\ AgedRecord(r).serial = r.serial /\ AgedRecord(r).client = r.client
               /\ AgedRecord(r).left > 0 => r.left > 0
    OBVIOUS
  <1>2. Older(records) = {AgedRecord(r) : r \in records}
    BY DEF Older
  <1> HIDE DEF AgedRecord
  <1>3. Older(records) \in SUBSET [serial : Serials, client : Clients, left : 0 .. T]
    BY <1>1, <1>2
  <1>4. \A n : Holds(Older(records), n) <=> Holds(records, n)
    BY <1>1, <1>2 DEF Holds
  <1>5. \A n : Holds(Alive(Older(records)), n) => Holds(Alive(records), n)
    BY <1>1, <1>2 DEF Holds, Alive
  <1>6. OneClient(records) => OneClient(Older(records))
    BY <1>1, <1>2 DEF OneClient
  <1> QED BY <1>3, <1>4, <1>5, <1>6

LEMMA Living ==
  ASSUME NEW records
  PROVE  /\ Alive(records) \subseteq records
         /\ \A n : Holds(Alive(records), n) => Holds(records, n)
         /\ OneClient(records) => OneClient(Alive(records))
  BY DEF Alive, Holds, OneClient

LEMMA DocumentsAre == Documents = [codes : SUBSET Codes, tokens : SUBSET Tokens]
  BY DEF Documents, Codes, Tokens

LEMMA EmptyTyped == Resting \in Hands /\ Empty \in Documents
  BY OidcAssumption DEF Resting, Hands, Empty, Documents, Record, Places

LEMMA OidcStarts == OidcInit => OidcInv
  <1> SUFFICES ASSUME OidcInit PROVE OidcInv
    OBVIOUS
  <1> USE OidcAssumption, EmptyTyped DEF OidcInit
  <1>0. \A s \in Servers : server[s] = Resting /\ server[s].at = "rest" /\ server[s].copy = Empty
    BY DEF Resting
  <1>1. Typed
    <2>1. answered \in [Serials -> Nat] /\ secret \in [Clients -> BOOLEAN] /\ serial \in 0 .. MaxIssued
      OBVIOUS
    <2>2. documentLock \notin Servers
      OBVIOUS
    <2>3. \A s \in Servers : server[s].at \in Places /\ (server[s].at \in Inside <=> documentLock = s)
      BY <1>0, <2>2 DEF Inside, Places
    <2> HIDE DEF OidcInit
    <2> QED BY <1>0, <2>1, <2>2, <2>3, OidcInit DEF Typed, OidcInit
  <1>2. ServersTyped
    BY DEF ServersTyped, Resting
  <1>3. OnePlace /\ Unborn
    BY DEF OnePlace, Unborn, Exchanging, Creating, Holds, OneClient, Empty, Resting
  <1>4. CopySound
    BY DEF CopySound, Inside, Resting
  <1> QED BY <1>1, <1>2, <1>3, <1>4 DEF OidcInv

-----------------------------------------------------------------------------
(* What the steps of a server share.                                        *)

LEMMA OnlyHolderInside ==
  ASSUME Typed
  PROVE  /\ \A s \in Servers : server[s].at \in Inside <=> documentLock = s
         /\ \A s, t \in Servers : server[s].at \in Inside /\ server[t].at \in Inside => s = t
  BY DEF Typed, Inside

\* A server enters the section: what it copies is the document without what expired.
Storable(next, record) == /\ next = "authorize" => record \in Codes
                          /\ next \in {"exchange", "store"} => record \in Tokens

LEMMA Enters ==
  ASSUME OidcInv, NEW s \in Servers, NEW next \in Inside, NEW record,
         server[s].at \in {"rest", "signing"},
         record \in [serial : 0 .. MaxIssued, client : Clients \cup {NoServer}, left : Nat],
         Storable(next, record),
         Section(s, next, record), document' = document
  PROVE  /\ \A t \in Servers : server'[t] = IF t = s THEN [at |-> next, record |-> record,
                copy |-> [codes |-> Alive(document.codes), tokens |-> Alive(document.tokens)]]
                ELSE server[t]
         /\ ServersTyped' /\ CopySound'
         /\ documentLock' \in Servers \cup {NoServer}
         /\ \A t \in Servers : /\ server'[t].at \in Places /\ server'[t].copy \in Documents
                               /\ server'[t].at \in Inside <=> documentLock' = t
  <1> DEFINE copied == [codes |-> Alive(document.codes), tokens |-> Alive(document.tokens)]
  <1> USE OidcAssumption DEF OidcInv
  <1>1. copied \in Documents
    BY Living DEF Typed, Documents
  <1>2. next \in Places /\ next # "signing" /\ next # "rest"
    BY DEF Inside, Places
  <1>3. \A t \in Servers : server'[t] = IF t = s THEN [at |-> next, record |-> record, copy |-> copied]
                                      ELSE server[t]
    BY DEF Section, ServersTyped
  <1>4. server' \in [Servers -> Hands]
    BY <1>1, <1>2 DEF Section, ServersTyped, Hands
  <1>5. ServersTyped'
    BY <1>2, <1>3, <1>4 DEF ServersTyped, Storable
  <1>6. documentLock = NoServer /\ documentLock' = s
    BY DEF Section, Unlocked
  <1>7. \A t \in Servers : server[t].at \notin Inside
    BY <1>6, OnlyHolderInside
  <1>8. \A t \in Servers : server'[t].at \in Inside <=> documentLock' = t
    BY <1>3, <1>6, <1>7
  <1>9. CopySound'
    <2> SUFFICES ASSUME NEW t \in Servers, server'[t].at \in Inside
                 PROVE  /\ \A n \in Serials : Holds(server'[t].copy.codes, n) => Holds(document'.codes, n)
                        /\ \A n \in Serials : Holds(server'[t].copy.tokens, n) => Holds(document'.tokens, n)
                        /\ \A n \in Serials : Holds(Alive(document'.codes), n) => Holds(server'[t].copy.codes, n)
                        /\ \A n \in Serials : Holds(Alive(document'.tokens), n) => Holds(server'[t].copy.tokens, n)
                        /\ OneClient(server'[t].copy.codes)
      BY DEF CopySound
    <2>1. server'[t].copy = copied
      BY <1>3, <1>7
    <2>2. OneClient(document.codes)
      BY DEF OnePlace
    <2> QED BY <2>1, <2>2, Living
  <1>10. \A t \in Servers : server'[t].at \in Places /\ server'[t].copy \in Documents
    BY <1>4 DEF Hands
  <1> QED BY <1>3, <1>5, <1>6, <1>8, <1>9, <1>10

\* A server leaves it, having put back copy.
LEMMA Leaves ==
  ASSUME OidcInv, NEW s \in Servers, NEW copy \in Documents, NEW next \in {"rest", "signing"},
         server[s].at \in Inside, PutBack(copy),
         server' \in [Servers -> Hands],
         \A t \in Servers \ {s} : server'[t] = server[t],
         server'[s].at = next,
         next = "signing" => server'[s].record = server[s].record /\ server[s].at = "exchange"
  PROVE  /\ ServersTyped' /\ CopySound'
         /\ document' \in Documents /\ documentLock' \in Servers \cup {NoServer}
         /\ \A t \in Servers : /\ server'[t].at \in Places /\ server'[t].copy \in Documents
                               /\ server'[t].at \in Inside <=> documentLock' = t
  <1> USE OidcAssumption DEF OidcInv
  <1>1. \A t \in Servers \ {s} : server[t].at \notin Inside
    BY OnlyHolderInside
  <1>2. \A t \in Servers : server'[t].at \notin Inside
    BY <1>1 DEF Inside
  <1>3. ServersTyped'
    BY DEF ServersTyped
  <1>4. CopySound'
    BY <1>2 DEF CopySound
  <1>5. document' \in Documents /\ documentLock' = NoServer
    BY DEF PutBack
  <1>6. \A t \in Servers : server'[t].at \in Places /\ server'[t].copy \in Documents
    BY DEF Hands
  <1> QED BY <1>2, <1>3, <1>4, <1>5, <1>6

-----------------------------------------------------------------------------
(* One lemma per action.                                                    *)

LEMMA TickKeepsGrants == OidcInv /\ OidcTick => OidcInv'
  <1> SUFFICES ASSUME OidcInv, OidcTick PROVE OidcInv'
    OBVIOUS
  <1> USE OidcAssumption DEF OidcInv, OidcTick
  <1>1. document.codes \in SUBSET Codes /\ document.tokens \in SUBSET Tokens
    BY DocumentsAre DEF Typed
  <1>2. /\ Older(document.codes) \in SUBSET Codes
        /\ \A n : Holds(Older(document.codes), n) <=> Holds(document.codes, n)
        /\ \A n : Holds(Alive(Older(document.codes)), n) => Holds(Alive(document.codes), n)
        /\ OneClient(document.codes) => OneClient(Older(document.codes))
    BY <1>1, Ageing DEF Codes
  <1>3. /\ Older(document.tokens) \in SUBSET Tokens
        /\ \A n : Holds(Older(document.tokens), n) <=> Holds(document.tokens, n)
        /\ \A n : Holds(Alive(Older(document.tokens)), n) => Holds(Alive(document.tokens), n)
    BY <1>1, Ageing DEF Tokens
  <1>4. document'.codes = Older(document.codes) /\ document'.tokens = Older(document.tokens)
    OBVIOUS
  <1>5. document' \in Documents
    BY <1>2, <1>3, DocumentsAre
  <1>6. Typed'
    BY <1>5 DEF Typed
  <1>7. ServersTyped'
    BY DEF ServersTyped
  <1>8. OnePlace'
    BY <1>2, <1>3, <1>4 DEF OnePlace, Exchanging, Creating
  <1>9. Unborn'
    BY <1>2, <1>3, <1>4 DEF Unborn, Exchanging, Creating
  <1>10. CopySound'
    BY <1>2, <1>3, <1>4 DEF CopySound
  <1> QED BY <1>6, <1>7, <1>8, <1>9, <1>10

LEMMA BeginAuthorizeKeeps ==
  ASSUME OidcInv, NEW s \in Servers, BeginAuthorize(s) PROVE OidcInv'
  <1> USE OidcAssumption DEF OidcInv
  <1>1. PICK c \in Clients : Section(s, "authorize", Record(serial + 1, c, CodeTTL))
    BY DEF BeginAuthorize
  <1>2. serial' = serial + 1 /\ serial' \in Serials /\ serial \in Nat /\ serial' \in 0 .. MaxIssued
    BY DEF BeginAuthorize, Typed, Serials
  <1> DEFINE new == Record(serial + 1, c, CodeTTL)
  <1>3. new \in Codes /\ new.serial = serial + 1
    BY <1>2 DEF Codes, Record
  <1>4. new \in [serial : 0 .. MaxIssued, client : Clients \cup {NoServer}, left : Nat]
    BY <1>2 DEF Record
  <1> HIDE DEF new
  <1>5. /\ \A t \in Servers : server'[t].at = (IF t = s THEN "authorize" ELSE server[t].at)
                            /\ server'[t].record = (IF t = s THEN new ELSE server[t].record)
        /\ ServersTyped' /\ CopySound'
        /\ documentLock' \in Servers \cup {NoServer}
        /\ \A t \in Servers : /\ server'[t].at \in Places /\ server'[t].copy \in Documents
                              /\ server'[t].at \in Inside <=> documentLock' = t
    <2>1. "authorize" \in Inside /\ server[s].at \in {"rest", "signing"} /\ document' = document
      BY DEF Inside, BeginAuthorize
    <2>2. Section(s, "authorize", new) /\ Storable("authorize", new)
      BY <1>1, <1>3 DEF new, Storable
    <2>3. \A t \in Servers : server'[t] = IF t = s THEN [at |-> "authorize", record |-> new,
               copy |-> [codes |-> Alive(document.codes), tokens |-> Alive(document.tokens)]]
               ELSE server[t]
      BY <1>3, <1>4, <2>1, <2>2, Enters
    <2>4. /\ ServersTyped' /\ CopySound'
          /\ documentLock' \in Servers \cup {NoServer}
          /\ \A t \in Servers : /\ server'[t].at \in Places /\ server'[t].copy \in Documents
                                /\ server'[t].at \in Inside <=> documentLock' = t
      BY <1>3, <1>4, <2>1, <2>2, <2>3, Enters
    <2> QED BY <2>3, <2>4
  <1>6. document' = document /\ answered' = answered /\ secret' = secret /\ server[s].at = "rest"
    BY DEF BeginAuthorize
  <1>7. Typed'
    BY <1>2, <1>5, <1>6 DEF Typed
  <1>8. \A n \in Serials : n > serial' => n > serial /\ n # serial + 1
    BY <1>2 DEF Serials
  <1>9. \A t \in Servers, n \in Serials : /\ Exchanging(server', t, n) <=> Exchanging(server, t, n)
                                          /\ Creating(server', t, n) <=> Creating(server, t, n) \/ (t = s /\ n = serial + 1)
    BY <1>3, <1>5, <1>6 DEF Exchanging, Creating
  <1>10. serial + 1 > serial /\ serial + 1 \in Serials
    BY <1>2
  <1>11. OnePlace'
    BY <1>6, <1>9, <1>10 DEF OnePlace, Unborn
  <1>12. Unborn'
    BY <1>6, <1>8, <1>9 DEF Unborn
  <1> QED BY <1>5, <1>7, <1>11, <1>12

LEMMA EndAuthorizeKeeps ==
  ASSUME OidcInv, NEW s \in Servers, EndAuthorize(s) PROVE OidcInv'
  <1> USE OidcAssumption DEF OidcInv
  <1> DEFINE copy == [server[s].copy EXCEPT !.codes = @ \cup {server[s].record}]
             new == server[s].record
  <1>1. server[s].at = "authorize" /\ server[s].at \in Inside /\ new \in Codes
    BY DEF EndAuthorize, Inside, ServersTyped
  <1>2. server[s].copy \in Documents
    BY DEF Typed
  <1>3. copy \in Documents /\ copy.tokens = server[s].copy.tokens
        /\ copy.codes = server[s].copy.codes \cup {new}
    BY <1>1, <1>2, DocumentsAre
  <1>4. PutBack(copy) /\ server' = [server EXCEPT ![s] = Resting]
        /\ serial' = serial /\ secret' = secret /\ answered' = answered
    BY DEF EndAuthorize, Rest
  <1>5. document' = copy
    BY <1>4 DEF PutBack
  <1> HIDE DEF copy
  <1>6. server' \in [Servers -> Hands] /\ server'[s].at = "rest"
        /\ \A t \in Servers \ {s} : server'[t] = server[t]
    BY <1>4, EmptyTyped DEF ServersTyped, Resting
  <1>7. /\ ServersTyped' /\ CopySound'
        /\ document' \in Documents /\ documentLock' \in Servers \cup {NoServer}
        /\ \A t \in Servers : /\ server'[t].at \in Places /\ server'[t].copy \in Documents
                              /\ server'[t].at \in Inside <=> documentLock' = t
    <2>1. "rest" \in {"rest", "signing"} /\ "rest" # "signing"
      OBVIOUS
    <2> QED BY <1>1, <1>3, <1>4, <1>6, <2>1, Leaves
  <1>8. Typed'
    BY <1>4, <1>7 DEF Typed
  <1>9. \A t \in Servers, n \in Serials : /\ Exchanging(server', t, n) <=> Exchanging(server, t, n)
                                          /\ Creating(server', t, n) => Creating(server, t, n) /\ t # s
    BY <1>1, <1>6 DEF Exchanging, Creating
  <1>10. \A n \in Serials : Creating(server, s, n) <=> n = new.serial
    BY <1>1 DEF Creating
  <1>11. new.serial \in Serials
    BY <1>1 DEF Codes
  <1>12. \A n \in Serials : /\ Holds(document'.codes, n) => Holds(document.codes, n) \/ n = new.serial
                            /\ Holds(document'.tokens, n) => Holds(document.tokens, n)
    BY <1>1, <1>3, <1>5 DEF CopySound, Holds
  <1>13. \A t \in Servers, n \in Serials : ~Creating(server', t, n)
    <2> SUFFICES ASSUME NEW t \in Servers, NEW n \in Serials, Creating(server', t, n) PROVE FALSE
      OBVIOUS
    <2>1. Creating(server, t, n) /\ t # s
      BY <1>9
    <2>2. server[t].at \in Inside
      BY <2>1 DEF Creating, Inside
    <2> QED BY <1>1, <2>1, <2>2, OnlyHolderInside
  <1>14. OneClient(document'.codes)
    <2>1. OneClient(server[s].copy.codes)
      BY <1>1 DEF CopySound
    <2>2. \A r \in server[s].copy.codes : r.serial # new.serial
      <3>1. ~Holds(document.codes, new.serial)
        BY <1>10, <1>11 DEF OnePlace
      <3>2. ~Holds(server[s].copy.codes, new.serial)
        BY <1>1, <1>11, <3>1 DEF CopySound
      <3> QED BY <3>2 DEF Holds
    <2> QED BY <1>3, <1>5, <2>1, <2>2 DEF OneClient
  <1>15. OnePlace'
    <2>1. \A n \in Serials : answered'[n] \in {0, 1}
      BY <1>4 DEF OnePlace
    <2>2. \A n \in Serials : (answered'[n] = 1 \/ Holds(document'.tokens, n))
                               => ~Holds(document'.codes, n)
      <3>1. answered[new.serial] = 0 /\ ~Holds(document.tokens, new.serial)
        BY <1>10, <1>11 DEF OnePlace
      <3> QED BY <1>4, <1>12, <3>1 DEF OnePlace
    <2>3. \A n \in Serials, t \in Servers : Exchanging(server', t, n) =>
            /\ answered'[n] = 0 /\ ~Holds(document'.codes, n)
            /\ \A u \in Servers : Exchanging(server', u, n) => u = t
      <3>1. \A t \in Servers : ~Exchanging(server, t, new.serial)
        BY <1>10, <1>11 DEF OnePlace
      <3> SUFFICES ASSUME NEW n \in Serials, NEW t \in Servers, Exchanging(server', t, n)
                   PROVE  /\ answered'[n] = 0 /\ ~Holds(document'.codes, n)
                          /\ \A u \in Servers : Exchanging(server', u, n) => u = t
        OBVIOUS
      <3>2. Exchanging(server, t, n) /\ n # new.serial
        BY <1>9, <3>1
      <3>3. answered[n] = 0 /\ ~Holds(document.codes, n)
        BY <3>2 DEF OnePlace
      <3>4. \A u \in Servers : Exchanging(server, u, n) => u = t
        BY <3>2 DEF OnePlace
      <3> QED BY <1>4, <1>9, <1>12, <3>2, <3>3, <3>4
    <2> QED BY <1>13, <1>14, <2>1, <2>2, <2>3 DEF OnePlace
  <1>16. Unborn'
    <2>1. ~(new.serial > serial)
      BY <1>10, <1>11 DEF Unborn
    <2> QED BY <1>4, <1>9, <1>12, <2>1 DEF Unborn
  <1> QED BY <1>7, <1>8, <1>15, <1>16

\* Steps that bring nothing to a new place.
LEMMA NothingNew ==
  ASSUME OnePlace, Unborn, answered' = answered, serial' = serial,
         \A t \in Servers, n \in Serials :
           /\ Exchanging(server', t, n) => Exchanging(server, t, n)
           /\ Creating(server', t, n) => Creating(server, t, n),
         \A n \in Serials : /\ Holds(document'.codes, n) => Holds(document.codes, n)
                            /\ Holds(document'.tokens, n) => Holds(document.tokens, n),
         OneClient(document'.codes)
  PROVE  OnePlace' /\ Unborn'
  <1>1. OnePlace'
    BY DEF OnePlace
  <1>2. Unborn'
    BY DEF Unborn
  <1> QED BY <1>1, <1>2

LEMMA BeginExchangeKeeps ==
  ASSUME OidcInv, NEW s \in Servers, BeginExchange(s) PROVE OidcInv'
  <1> USE OidcAssumption DEF OidcInv
  <1>1. PICK n \in 1 .. serial, c \in Clients : Section(s, "exchange", Record(n, c, TokenTTL))
    BY DEF BeginExchange
  <1> DEFINE new == Record(n, c, TokenTTL)
  <1>2. n \in Serials
    BY DEF Typed, Serials
  <1>3. /\ Storable("exchange", new)
        /\ new \in [serial : 0 .. MaxIssued, client : Clients \cup {NoServer}, left : Nat]
    BY <1>2 DEF Record, Storable, Tokens, Serials
  <1> HIDE DEF new
  <1>4. /\ server[s].at = "rest" /\ document' = document /\ serial' = serial
        /\ secret' = secret /\ answered' = answered
        /\ Section(s, "exchange", new) /\ "exchange" \in Inside
    BY <1>1 DEF BeginExchange, new, Inside
  <1>5. \A t \in Servers : server'[t] = IF t = s THEN [at |-> "exchange", record |-> new,
             copy |-> [codes |-> Alive(document.codes), tokens |-> Alive(document.tokens)]]
             ELSE server[t]
    BY <1>3, <1>4, Enters
  <1>6. /\ ServersTyped' /\ CopySound'
        /\ documentLock' \in Servers \cup {NoServer}
        /\ \A t \in Servers : /\ server'[t].at \in Places /\ server'[t].copy \in Documents
                              /\ server'[t].at \in Inside <=> documentLock' = t
    BY <1>3, <1>4, <1>5, Enters
  <1>7. Typed'
    BY <1>4, <1>6 DEF Typed
  <1>8. OnePlace' /\ Unborn'
    <2>1. \A t \in Servers, m \in Serials : /\ Exchanging(server', t, m) => Exchanging(server, t, m)
                                            /\ Creating(server', t, m) => Creating(server, t, m)
      BY <1>5 DEF Exchanging, Creating
    <2>2. OneClient(document.codes)
      BY DEF OnePlace
    <2> QED BY <1>4, <2>1, <2>2, NothingNew
  <1> QED BY <1>6, <1>7, <1>8

LEMMA BeginUserinfoKeeps ==
  ASSUME OidcInv, NEW s \in Servers, BeginUserinfo(s) PROVE OidcInv'
  <1> USE OidcAssumption DEF OidcInv
  <1> DEFINE new == Resting.record
  <1>1. /\ Storable("userinfo", new)
        /\ new \in [serial : 0 .. MaxIssued, client : Clients \cup {NoServer}, left : Nat]
    BY DEF Record, Resting, Storable
  <1> HIDE DEF new
  <1>2. /\ server[s].at = "rest" /\ document' = document /\ serial' = serial
        /\ secret' = secret /\ answered' = answered
        /\ Section(s, "userinfo", new) /\ "userinfo" \in Inside
    BY DEF BeginUserinfo, new, Inside
  <1>3. \A t \in Servers : server'[t] = IF t = s THEN [at |-> "userinfo", record |-> new,
             copy |-> [codes |-> Alive(document.codes), tokens |-> Alive(document.tokens)]]
             ELSE server[t]
    BY <1>1, <1>2, Enters
  <1>4. /\ ServersTyped' /\ CopySound'
        /\ documentLock' \in Servers \cup {NoServer}
        /\ \A t \in Servers : /\ server'[t].at \in Places /\ server'[t].copy \in Documents
                              /\ server'[t].at \in Inside <=> documentLock' = t
    BY <1>1, <1>2, <1>3, Enters
  <1>5. Typed'
    BY <1>2, <1>4 DEF Typed
  <1>6. OnePlace' /\ Unborn'
    <2>1. \A t \in Servers, m \in Serials : /\ Exchanging(server', t, m) => Exchanging(server, t, m)
                                            /\ Creating(server', t, m) => Creating(server, t, m)
      BY <1>3 DEF Exchanging, Creating
    <2>2. OneClient(document.codes)
      BY DEF OnePlace
    <2> QED BY <1>2, <2>1, <2>2, NothingNew
  <1> QED BY <1>4, <1>5, <1>6

LEMMA BeginStoreKeeps ==
  ASSUME OidcInv, NEW s \in Servers, BeginStore(s) PROVE OidcInv'
  <1> USE OidcAssumption DEF OidcInv
  <1> DEFINE new == server[s].record
  <1>1. /\ server[s].at = "signing" /\ document' = document /\ serial' = serial
        /\ secret' = secret /\ answered' = answered
        /\ Section(s, "store", new) /\ "store" \in Inside
    BY DEF BeginStore, Inside
  <1>2. /\ Storable("store", new)
        /\ new \in [serial : 0 .. MaxIssued, client : Clients \cup {NoServer}, left : Nat]
    BY <1>1 DEF ServersTyped, Storable, Hands
  <1>3. \A t \in Servers : server'[t] = IF t = s THEN [at |-> "store", record |-> new,
             copy |-> [codes |-> Alive(document.codes), tokens |-> Alive(document.tokens)]]
             ELSE server[t]
    BY <1>1, <1>2, Enters
  <1>4. /\ ServersTyped' /\ CopySound'
        /\ documentLock' \in Servers \cup {NoServer}
        /\ \A t \in Servers : /\ server'[t].at \in Places /\ server'[t].copy \in Documents
                              /\ server'[t].at \in Inside <=> documentLock' = t
    BY <1>1, <1>2, <1>3, Enters
  <1>5. Typed'
    BY <1>1, <1>4 DEF Typed
  <1>6. OnePlace' /\ Unborn'
    <2>1. \A t \in Servers, m \in Serials : /\ Exchanging(server', t, m) => Exchanging(server, t, m)
                                            /\ Creating(server', t, m) => Creating(server, t, m)
      BY <1>1, <1>3 DEF Exchanging, Creating
    <2>2. OneClient(document.codes)
      BY DEF OnePlace
    <2> QED BY <1>1, <2>1, <2>2, NothingNew
  <1> QED BY <1>4, <1>5, <1>6

\* userinfo, and an exchange that is refused: the copy goes back as it is.
LEMMA UntouchedKeeps ==
  ASSUME OidcInv, NEW s \in Servers, server[s].at \in Inside, PutBack(server[s].copy), Rest(s),
         serial' = serial, secret' \in [Clients -> BOOLEAN], answered' = answered
  PROVE  OidcInv'
  <1> USE OidcAssumption DEF OidcInv
  <1> DEFINE copy == server[s].copy
  <1>1. copy \in Documents /\ document' = copy
    BY DEF Typed, PutBack
  <1> HIDE DEF copy
  <1>2. server' \in [Servers -> Hands] /\ server'[s].at = "rest"
        /\ \A t \in Servers \ {s} : server'[t] = server[t]
    BY EmptyTyped DEF ServersTyped, Resting, Rest
  <1>3. /\ ServersTyped' /\ CopySound'
        /\ document' \in Documents /\ documentLock' \in Servers \cup {NoServer}
        /\ \A t \in Servers : /\ server'[t].at \in Places /\ server'[t].copy \in Documents
                              /\ server'[t].at \in Inside <=> documentLock' = t
    <2>1. "rest" \in {"rest", "signing"} /\ "rest" # "signing" /\ PutBack(copy)
      BY DEF copy
    <2> QED BY <1>1, <1>2, <2>1, Leaves
  <1>4. Typed'
    BY <1>3 DEF Typed
  <1>5. OnePlace' /\ Unborn'
    <2>1. \A t \in Servers, m \in Serials : /\ Exchanging(server', t, m) => Exchanging(server, t, m)
                                            /\ Creating(server', t, m) => Creating(server, t, m)
      BY <1>2 DEF Exchanging, Creating
    <2>2. \A n \in Serials : /\ Holds(document'.codes, n) => Holds(document.codes, n)
                             /\ Holds(document'.tokens, n) => Holds(document.tokens, n)
      BY <1>1 DEF CopySound, copy
    <2>3. OneClient(document'.codes)
      BY <1>1 DEF CopySound, copy
    <2> QED BY <2>1, <2>2, <2>3, NothingNew
  <1> QED BY <1>3, <1>4, <1>5

LEMMA EndUserinfoKeeps ==
  ASSUME OidcInv, NEW s \in Servers, EndUserinfo(s) PROVE OidcInv'
  <1>1. server[s].at \in Inside /\ secret' \in [Clients -> BOOLEAN]
    BY DEF EndUserinfo, Inside, OidcInv, Typed
  <1> QED BY <1>1, UntouchedKeeps DEF EndUserinfo

LEMMA RefuseKeeps ==
  ASSUME OidcInv, NEW s \in Servers, Refuse(s) PROVE OidcInv'
  <1>1. server[s].at \in Inside /\ secret' \in [Clients -> BOOLEAN]
    BY DEF Refuse, Inside, OidcInv, Typed
  <1> QED BY <1>1, UntouchedKeeps DEF Refuse

LEMMA TakeCodeKeeps ==
  ASSUME OidcInv, NEW s \in Servers, TakeCode(s)
  PROVE  /\ OidcInv'
         /\ server'[s].at = "signing" /\ server'[s].record = server[s].record
         /\ \A n \in Serials : n # server[s].record.serial /\ Holds(server[s].copy.codes, n)
                                 => Holds(document'.codes, n)
  <1> USE OidcAssumption DEF OidcInv
  <1> DEFINE old == server[s].copy
             m == server[s].record.serial
             copy == [old EXCEPT !.codes = @ \ Presented(s)]
  <1>1. server[s].at = "exchange" /\ server[s].at \in Inside /\ old \in Documents /\ m \in Serials
    BY DEF TakeCode, Inside, Typed, ServersTyped, Tokens
  <1>2. copy \in Documents /\ copy.tokens = old.tokens /\ copy.codes = old.codes \ Presented(s)
    BY <1>1, DocumentsAre
  <1>3. /\ PutBack(copy) /\ document' = copy /\ serial' = serial /\ answered' = answered
        /\ secret' \in [Clients -> BOOLEAN]
    BY DEF TakeCode, PutBack, Typed
  <1>4. PICK r \in Presented(s) : r \in old.codes /\ r.serial = m /\ r.client = server[s].record.client
    BY DEF TakeCode, Presented
  <1>5. OneClient(old.codes)
    BY <1>1 DEF CopySound
  <1>6. /\ ~Holds(copy.codes, m)
        /\ \A n \in Serials : Holds(copy.codes, n) => Holds(old.codes, n)
        /\ \A n \in Serials : n # m /\ Holds(old.codes, n) => Holds(copy.codes, n)
        /\ OneClient(copy.codes)
    BY <1>2, <1>4, <1>5 DEF Presented, OneClient, Holds
  <1>7. Holds(document.codes, m)
    BY <1>1, <1>4 DEF CopySound, Holds
  <1> HIDE DEF copy
  <1>8. /\ server' \in [Servers -> Hands] /\ server'[s].at = "signing"
        /\ server'[s].record = server[s].record
        /\ \A t \in Servers \ {s} : server'[t] = server[t]
    BY EmptyTyped DEF ServersTyped, TakeCode, Hands, Places
  <1>9. /\ ServersTyped' /\ CopySound'
        /\ document' \in Documents /\ documentLock' \in Servers \cup {NoServer}
        /\ \A t \in Servers : /\ server'[t].at \in Places /\ server'[t].copy \in Documents
                              /\ server'[t].at \in Inside <=> documentLock' = t
    <2>1. "signing" \in {"rest", "signing"}
      OBVIOUS
    <2> QED BY <1>1, <1>2, <1>3, <1>8, <2>1, Leaves
  <1>10. Typed'
    BY <1>3, <1>9 DEF Typed
  <1>11. \A t \in Servers, n \in Serials :
           /\ Exchanging(server', t, n) <=> (Exchanging(server, t, n) \/ (t = s /\ n = m))
           /\ Creating(server', t, n) => Creating(server, t, n)
    BY <1>1, <1>8 DEF Exchanging, Creating
  <1>12. /\ answered[m] = 0
         /\ \A t \in Servers : ~Exchanging(server, t, m) /\ ~Creating(server, t, m)
         /\ ~(m > serial)
    BY <1>1, <1>7 DEF OnePlace, Unborn
  <1>13. \A n \in Serials : /\ Holds(document'.codes, n) => Holds(document.codes, n)
                            /\ Holds(document'.tokens, n) => Holds(document.tokens, n)
    BY <1>1, <1>2, <1>3, <1>6 DEF CopySound
  <1>14. OnePlace'
    <2>1. \A n \in Serials : answered'[n] \in {0, 1}
      BY <1>3 DEF OnePlace
    <2>2. \A n \in Serials : (answered'[n] = 1 \/ Holds(document'.tokens, n))
                               => ~Holds(document'.codes, n)
      BY <1>3, <1>13 DEF OnePlace
    <2>3. ASSUME NEW n \in Serials, NEW t \in Servers, Exchanging(server', t, n)
          PROVE  /\ answered'[n] = 0 /\ ~Holds(document'.codes, n)
                 /\ \A u \in Servers : Exchanging(server', u, n) => u = t
      <3>1. CASE n = m
        BY <1>3, <1>6, <1>11, <1>12, <2>3, <3>1
      <3>2. CASE n # m
        <4>1. Exchanging(server, t, n)
          BY <1>11, <2>3, <3>2
        <4>2. answered[n] = 0 /\ ~Holds(document.codes, n)
          BY <4>1 DEF OnePlace
        <4>3. \A u \in Servers : Exchanging(server, u, n) => u = t
          BY <4>1 DEF OnePlace
        <4> QED BY <1>3, <1>11, <1>13, <3>2, <4>2, <4>3
      <3> QED BY <3>1, <3>2
    <2>4. ASSUME NEW n \in Serials, NEW t \in Servers, Creating(server', t, n)
          PROVE  /\ answered'[n] = 0 /\ ~Holds(document'.codes, n) /\ ~Holds(document'.tokens, n)
                 /\ \A u \in Servers : ~Exchanging(server', u, n)
      <3>1. Creating(server, t, n) /\ n # m
        BY <1>11, <1>12, <2>4
      <3>2. answered[n] = 0 /\ ~Holds(document.codes, n) /\ ~Holds(document.tokens, n)
        BY <3>1 DEF OnePlace
      <3>3. \A u \in Servers : ~Exchanging(server, u, n)
        BY <3>1 DEF OnePlace
      <3> QED BY <1>3, <1>11, <1>13, <3>1, <3>2, <3>3
    <2>5. OneClient(document'.codes)
      BY <1>3, <1>6
    <2> QED BY <2>1, <2>2, <2>3, <2>4, <2>5 DEF OnePlace
  <1>15. Unborn'
    BY <1>3, <1>11, <1>12, <1>13 DEF Unborn
  <1> QED BY <1>3, <1>6, <1>8, <1>9, <1>10, <1>14, <1>15

LEMMA EndStoreKeeps ==
  ASSUME OidcInv, NEW s \in Servers, EndStore(s) PROVE OidcInv'
  <1> USE OidcAssumption DEF OidcInv
  <1> DEFINE new == server[s].record
             m == server[s].record.serial
             copy == [server[s].copy EXCEPT !.tokens = @ \cup {server[s].record}]
  <1>1. server[s].at = "store" /\ server[s].at \in Inside /\ new \in Tokens /\ m \in Serials
    BY DEF EndStore, Inside, ServersTyped, Tokens
  <1>2. server[s].copy \in Documents
    BY DEF Typed
  <1>3. /\ copy \in Documents /\ copy.codes = server[s].copy.codes
        /\ copy.tokens = server[s].copy.tokens \cup {new}
    BY <1>1, <1>2, DocumentsAre
  <1>4. /\ PutBack(copy) /\ document' = copy /\ server' = [server EXCEPT ![s] = Resting]
        /\ serial' = serial /\ secret' = secret
        /\ answered' = [answered EXCEPT ![m] = @ + 1]
    BY DEF EndStore, Rest, PutBack
  <1> HIDE DEF copy
  <1>5. Exchanging(server, s, m)
    BY <1>1 DEF Exchanging
  <1>6. /\ answered[m] = 0 /\ ~Holds(document.codes, m) /\ ~(m > serial)
        /\ \A t \in Servers : Exchanging(server, t, m) => t = s
        /\ \A t \in Servers : ~Creating(server, t, m)
    BY <1>1, <1>5 DEF OnePlace, Unborn
  <1>7. /\ answered' \in [Serials -> Nat] /\ answered'[m] = 1
        /\ \A n \in Serials : n # m => answered'[n] = answered[n]
    BY <1>1, <1>4, <1>6 DEF Typed
  <1>8. /\ server' \in [Servers -> Hands] /\ server'[s].at = "rest"
        /\ \A t \in Servers \ {s} : server'[t] = server[t]
    BY <1>4, EmptyTyped DEF ServersTyped, Resting
  <1>9. /\ ServersTyped' /\ CopySound'
        /\ document' \in Documents /\ documentLock' \in Servers \cup {NoServer}
        /\ \A t \in Servers : /\ server'[t].at \in Places /\ server'[t].copy \in Documents
                              /\ server'[t].at \in Inside <=> documentLock' = t
    <2>1. "rest" \in {"rest", "signing"} /\ "rest" # "signing"
      OBVIOUS
    <2> QED BY <1>1, <1>3, <1>4, <1>8, <2>1, Leaves
  <1>10. Typed'
    BY <1>4, <1>7, <1>9 DEF Typed
  <1>11. \A t \in Servers, n \in Serials :
           /\ Exchanging(server', t, n) => Exchanging(server, t, n) /\ n # m
           /\ Creating(server', t, n) => Creating(server, t, n) /\ n # m
    <2>1. \A t \in Servers, n \in Serials :
            /\ Exchanging(server', t, n) => Exchanging(server, t, n) /\ t # s
            /\ Creating(server', t, n) => Creating(server, t, n)
      BY <1>8 DEF Exchanging, Creating
    <2> QED BY <1>6, <2>1
  <1>12. \A n \in Serials : /\ Holds(document'.codes, n) => Holds(document.codes, n)
                            /\ Holds(document'.tokens, n) => Holds(document.tokens, n) \/ n = m
    BY <1>1, <1>3, <1>4 DEF CopySound, Holds
  <1>13. OnePlace'
    <2>1. \A n \in Serials : answered'[n] \in {0, 1}
      BY <1>7 DEF OnePlace
    <2>2. \A n \in Serials : (answered'[n] = 1 \/ Holds(document'.tokens, n))
                               => ~Holds(document'.codes, n)
      BY <1>6, <1>7, <1>12 DEF OnePlace
    <2>3. ASSUME NEW n \in Serials, NEW t \in Servers, Exchanging(server', t, n)
          PROVE  /\ answered'[n] = 0 /\ ~Holds(document'.codes, n)
                 /\ \A u \in Servers : Exchanging(server', u, n) => u = t
      <3>1. Exchanging(server, t, n) /\ n # m
        BY <1>11, <2>3
      <3>2. answered[n] = 0 /\ ~Holds(document.codes, n)
        BY <3>1 DEF OnePlace
      <3>3. \A u \in Servers : Exchanging(server, u, n) => u = t
        BY <3>1 DEF OnePlace
      <3> QED BY <1>7, <1>11, <1>12, <3>1, <3>2, <3>3
    <2>4. ASSUME NEW n \in Serials, NEW t \in Servers, Creating(server', t, n)
          PROVE  /\ answered'[n] = 0 /\ ~Holds(document'.codes, n) /\ ~Holds(document'.tokens, n)
                 /\ \A u \in Servers : ~Exchanging(server', u, n)
      <3>1. Creating(server, t, n) /\ n # m
        BY <1>11, <2>4
      <3>2. answered[n] = 0 /\ ~Holds(document.codes, n) /\ ~Holds(document.tokens, n)
        BY <3>1 DEF OnePlace
      <3>3. \A u \in Servers : ~Exchanging(server, u, n)
        BY <3>1 DEF OnePlace
      <3> QED BY <1>7, <1>11, <1>12, <3>1, <3>2, <3>3
    <2>5. OneClient(document'.codes)
      BY <1>1, <1>3, <1>4 DEF CopySound
    <2> QED BY <2>1, <2>2, <2>3, <2>4, <2>5 DEF OnePlace
  <1>14. Unborn'
    BY <1>4, <1>6, <1>7, <1>11, <1>12 DEF Unborn
  <1> QED BY <1>9, <1>10, <1>13, <1>14

\* A crash: the record in hand is lost, the document is as it was.
LEMMA CrashKeeps ==
  ASSUME OidcInv, NEW s \in Servers, Crash(s) PROVE OidcInv'
  <1> USE OidcAssumption DEF OidcInv
  <1>1. /\ server' \in [Servers -> Hands] /\ server'[s] = Resting
        /\ server'[s].at = "rest" /\ server'[s].copy = Empty
        /\ \A t \in Servers \ {s} : server'[t] = server[t]
    BY EmptyTyped DEF ServersTyped, Resting, Rest, Crash
  <1>2. /\ document' = document /\ serial' = serial /\ secret' = secret /\ answered' = answered
        /\ documentLock' = IF documentLock = s THEN NoServer ELSE documentLock
    BY DEF Crash
  <1>3. /\ documentLock' \in Servers \cup {NoServer}
        /\ \A t \in Servers : server'[t].at \in Inside <=> documentLock' = t
    BY <1>1, <1>2 DEF Typed, Inside
  <1>4. \A t \in Servers : server'[t].at \in Places /\ server'[t].copy \in Documents
    BY <1>1 DEF Hands
  <1>5. Typed'
    BY <1>2, <1>3, <1>4 DEF Typed
  <1>6. ServersTyped'
    BY <1>1 DEF ServersTyped
  <1>7. CopySound'
    <2> SUFFICES ASSUME NEW t \in Servers, server'[t].at \in Inside
                 PROVE  t \in Servers /\ server[t].at \in Inside /\ server'[t] = server[t]
      BY <1>2 DEF CopySound
    <2> QED BY <1>1 DEF Inside
  <1>8. OnePlace' /\ Unborn'
    <2>1. \A t \in Servers, m \in Serials : /\ Exchanging(server', t, m) => Exchanging(server, t, m)
                                            /\ Creating(server', t, m) => Creating(server, t, m)
      BY <1>1 DEF Exchanging, Creating
    <2>2. OneClient(document.codes)
      BY DEF OnePlace
    <2> QED BY <1>2, <2>1, <2>2, NothingNew
  <1> QED BY <1>5, <1>6, <1>7, <1>8

-----------------------------------------------------------------------------
LEMMA OidcKept == OidcInv /\ [OidcNext]_oidcVars => OidcInv'
  <1> SUFFICES ASSUME OidcInv, [OidcNext]_oidcVars PROVE OidcInv'
    OBVIOUS
  <1>1. CASE OidcTick
    BY <1>1, TickKeepsGrants
  <1>2. ASSUME NEW s \in Servers,
               \/ BeginAuthorize(s) \/ EndAuthorize(s) \/ BeginUserinfo(s) \/ EndUserinfo(s)
               \/ BeginExchange(s) \/ Refuse(s) \/ TakeCode(s) \/ BeginStore(s) \/ EndStore(s)
               \/ Crash(s)
        PROVE  OidcInv'
    BY <1>2, BeginAuthorizeKeeps, EndAuthorizeKeeps, BeginUserinfoKeeps, EndUserinfoKeeps,
       BeginExchangeKeeps, RefuseKeeps, TakeCodeKeeps, BeginStoreKeeps, EndStoreKeeps, CrashKeeps
  <1>3. CASE UNCHANGED oidcVars
    <2>1. /\ document' = document /\ documentLock' = documentLock /\ server' = server
          /\ serial' = serial /\ secret' = secret /\ answered' = answered
      BY <1>3 DEF oidcVars
    <2> QED BY <2>1 DEF OidcInv, Typed, ServersTyped, OnePlace, Unborn, CopySound
  <1> QED BY <1>1, <1>2, <1>3 DEF OidcNext

\* A server that puts back what it copied loses nothing that has not expired, but
\* for the code it takes.
LEMMA StepKeepsGrants ==
  ASSUME OidcInv, [OidcNext]_oidcVars
  PROVE  \/ UNCHANGED oidcVars
         \/ /\ \A r \in Alive(document.tokens) : \E q \in document'.tokens : q.serial = r.serial
            /\ \A r \in Alive(document.codes) :
                 \/ \E q \in document'.codes : q.serial = r.serial
                 \/ \E s \in Servers : server'[s].at = "signing"
                                       /\ server'[s].record.serial = r.serial
  <1> USE DEF OidcInv
  <1>1. document.codes \in SUBSET Codes /\ document.tokens \in SUBSET Tokens
    BY DocumentsAre DEF Typed
  <1>2. /\ \A r \in Alive(document.codes) : r.serial \in Serials /\ Holds(Alive(document.codes), r.serial)
        /\ \A r \in Alive(document.tokens) : r.serial \in Serials /\ Holds(Alive(document.tokens), r.serial)
    BY <1>1, Living DEF Codes, Tokens, Holds
  <1> DEFINE TokenRecordsStay == \A n \in Serials : Holds(Alive(document.tokens), n) => Holds(document'.tokens, n)
             CodesStay == \A n \in Serials : Holds(Alive(document.codes), n) =>
               \/ Holds(document'.codes, n)
               \/ \E s \in Servers : server'[s].at = "signing" /\ server'[s].record.serial = n
  <1>3. CASE document' = document
    BY <1>3, Living DEF Holds
  <1>4. ASSUME NEW s \in Servers, server[s].at \in Inside, TokenRecordsStay, CodesStay
        PROVE  /\ \A r \in Alive(document.tokens) : \E q \in document'.tokens : q.serial = r.serial
               /\ \A r \in Alive(document.codes) :
                    \/ \E q \in document'.codes : q.serial = r.serial
                    \/ \E t \in Servers : server'[t].at = "signing"
                                          /\ server'[t].record.serial = r.serial
    BY <1>2, <1>4 DEF Holds
  <1>5. CASE OidcTick
    <2>1. /\ \A n : Holds(Older(document.codes), n) <=> Holds(document.codes, n)
          /\ \A n : Holds(Older(document.tokens), n) <=> Holds(document.tokens, n)
      BY <1>1, Ageing, OidcAssumption DEF Codes, Tokens
    <2>2. document'.codes = Older(document.codes) /\ document'.tokens = Older(document.tokens)
      BY <1>5 DEF OidcTick
    <2>3. /\ \A r \in Alive(document.tokens) : Holds(document'.tokens, r.serial)
          /\ \A r \in Alive(document.codes) : Holds(document'.codes, r.serial)
      BY <1>2, <2>1, <2>2, Living
    <2> QED BY <2>3 DEF Holds
  <1>6. ASSUME NEW s \in Servers, EndAuthorize(s)
        PROVE  server[s].at \in Inside /\ TokenRecordsStay /\ CodesStay
    <2>1. server[s].at \in Inside /\ server[s].copy \in Documents
      BY <1>6 DEF EndAuthorize, Inside, Typed
    <2>2. /\ document'.codes = server[s].copy.codes \cup {server[s].record}
          /\ document'.tokens = server[s].copy.tokens
      BY <1>6, <2>1, DocumentsAre DEF EndAuthorize, PutBack
    <2> QED BY <2>1, <2>2 DEF CopySound, Holds
  <1>7. ASSUME NEW s \in Servers, EndUserinfo(s) \/ Refuse(s)
        PROVE  server[s].at \in Inside /\ TokenRecordsStay /\ CodesStay
    BY <1>7 DEF EndUserinfo, Refuse, PutBack, Inside, CopySound
  <1>8. ASSUME NEW s \in Servers, EndStore(s)
        PROVE  server[s].at \in Inside /\ TokenRecordsStay /\ CodesStay
    <2>1. server[s].at \in Inside /\ server[s].copy \in Documents
      BY <1>8 DEF EndStore, Inside, Typed
    <2>2. /\ document'.codes = server[s].copy.codes
          /\ document'.tokens = server[s].copy.tokens \cup {server[s].record}
      BY <1>8, <2>1, DocumentsAre DEF EndStore, PutBack
    <2> QED BY <2>1, <2>2 DEF CopySound, Holds
  <1>9. ASSUME NEW s \in Servers, TakeCode(s)
        PROVE  server[s].at \in Inside /\ TokenRecordsStay /\ CodesStay
    <2>1. server[s].at \in Inside /\ server[s].copy \in Documents
      BY <1>9 DEF TakeCode, Inside, Typed
    <2>2. document'.tokens = server[s].copy.tokens
      BY <1>9, <2>1, DocumentsAre DEF TakeCode, PutBack
    <2>3. /\ server'[s].at = "signing" /\ server'[s].record = server[s].record
          /\ \A n \in Serials : n # server[s].record.serial /\ Holds(server[s].copy.codes, n)
                                  => Holds(document'.codes, n)
      BY <1>9, TakeCodeKeeps
    <2> QED BY <2>1, <2>2, <2>3 DEF CopySound
  <1>10. ASSUME NEW s \in Servers, BeginAuthorize(s) \/ BeginUserinfo(s) \/ BeginExchange(s)
                                   \/ BeginStore(s) \/ Crash(s)
         PROVE  document' = document
    BY <1>10 DEF BeginAuthorize, BeginUserinfo, BeginExchange, BeginStore, Crash
  <1> HIDE DEF TokenRecordsStay, CodesStay
  <1>11. CASE \E s \in Servers : server[s].at \in Inside /\ TokenRecordsStay /\ CodesStay
    <2>1. PICK s \in Servers : server[s].at \in Inside /\ TokenRecordsStay /\ CodesStay
      BY <1>11
    <2> QED BY <1>4, <2>1
  <1>12. \/ UNCHANGED oidcVars \/ OidcTick \/ document' = document
         \/ \E s \in Servers : server[s].at \in Inside /\ TokenRecordsStay /\ CodesStay
    <2>1. CASE OidcTick \/ UNCHANGED oidcVars
      BY <2>1
    <2>2. ASSUME NEW s \in Servers,
                 \/ BeginAuthorize(s) \/ EndAuthorize(s) \/ BeginUserinfo(s) \/ EndUserinfo(s)
                 \/ BeginExchange(s) \/ Refuse(s) \/ TakeCode(s) \/ BeginStore(s) \/ EndStore(s)
                 \/ Crash(s)
          PROVE  document' = document \/ (server[s].at \in Inside /\ TokenRecordsStay /\ CodesStay)
      BY <1>6, <1>7, <1>8, <1>9, <1>10, <2>2
    <2> QED BY <2>1, <2>2 DEF OidcNext
  <1>13. CASE UNCHANGED oidcVars
    BY <1>13
  <1> QED BY <1>3, <1>5, <1>11, <1>12, <1>13

LEMMA OidcImplies == OidcInv => OidcTypeOK /\ ExchangedOnce
  <1> SUFFICES ASSUME OidcInv PROVE OidcTypeOK /\ ExchangedOnce
    OBVIOUS
  <1> USE DEF OidcInv
  <1>1. OidcTypeOK
    BY DEF OidcTypeOK, Typed, Places, Inside
  <1>2. ASSUME NEW n \in Serials
        PROVE  answered[n] + Cardinality({s \in Servers : Exchanging(server, s, n)}) <= 1
    <2> DEFINE X == {s \in Servers : Exchanging(server, s, n)}
    <2>1. answered[n] \in {0, 1}
      BY DEF OnePlace
    <2>2. CASE X = {}
      BY <2>1, <2>2, FS_EmptySet
    <2>3. CASE X # {}
      <3>1. PICK s \in Servers : Exchanging(server, s, n)
        BY <2>3
      <3>2. answered[n] = 0 /\ X = {s}
        BY <3>1 DEF OnePlace
      <3> QED BY <3>2, FS_Singleton
    <2> QED BY <2>2, <2>3
  <1>3. ASSUME NEW n \in Serials, \E r \in document.tokens : r.serial = n
        PROVE  \A r \in document.codes : r.serial # n
    BY <1>3 DEF OnePlace, Holds
  <1>4. ExchangedOnce
    BY <1>2, <1>3 DEF ExchangedOnce, Exchanging
  <1> QED BY <1>1, <1>4

\* The document, the lock and what every server holds keep their types, and only
\* the holder of the lock is inside the section of _shared_state (ha_state.py).
THEOREM GrantsTyped == OidcSpec => []OidcTypeOK
  <1>1. OidcInv => OidcTypeOK
    BY OidcImplies
  <1> QED BY <1>1, OidcStarts, OidcKept, PTL DEF OidcSpec

\* A code becomes an access token at most once, and no section puts back an older
\* copy over what another one stored (exchange_code, _shared_state).
THEOREM GrantsAreKept == OidcSpec => GrantsKept
  <1> DEFINE Stay == /\ \A r \in Alive(document.tokens) : \E q \in document'.tokens : q.serial = r.serial
                     /\ \A r \in Alive(document.codes) :
                          \/ \E q \in document'.codes : q.serial = r.serial
                          \/ \E s \in Servers : server'[s].at = "signing"
                                                /\ server'[s].record.serial = r.serial
  <1>1. OidcInv => ExchangedOnce
    BY OidcImplies
  <1>2. OidcInv /\ [OidcNext]_oidcVars => [Stay]_oidcVars
    BY StepKeepsGrants
  <1>3. OidcSpec => []OidcInv
    BY OidcStarts, OidcKept, PTL DEF OidcSpec
  <1> HIDE DEF Stay
  <1>4. OidcSpec => []ExchangedOnce /\ [][Stay]_oidcVars
    BY <1>1, <1>2, <1>3, PTL DEF OidcSpec
  <1> QED BY <1>4 DEF GrantsKept, Stay

-----------------------------------------------------------------------------
(* The composition.                                                         *)

AccountsInv == CodesInv /\ SessionInv /\ OidcInv

\* Every variable of the three keeps its type, the budget row is one the code can
\* read, and sections are entered by the holder of their lock only.
THEOREM AccountsTypeCorrect == AccountsSpec => []AccountsTypeOK
  <1>1. AccountsInit => AccountsInv
    BY CodesStart, SessionsStart, OidcStarts DEF AccountsInit, AccountsInv
  <1>2. AccountsInv /\ [AccountsNext]_<<part, emailVars, sessionVars, oidcVars>> => AccountsInv'
    <2> SUFFICES ASSUME AccountsInv, [AccountsNext]_<<part, emailVars, sessionVars, oidcVars>>
                 PROVE  AccountsInv'
      OBVIOUS
    <2>1. CodesInv /\ SessionInv /\ OidcInv
      BY DEF AccountsInv
    <2>2. [EmailNext]_emailVars /\ [SessionNext]_sessionVars /\ [OidcNext]_oidcVars
      BY DEF AccountsNext
    <2> QED BY <2>1, <2>2, CodesStep, SessionsKept, OidcKept DEF AccountsInv
  <1>3. AccountsInv => AccountsTypeOK
    BY OidcImplies DEF AccountsInv, AccountsTypeOK, CodesInv, CodesTyped, SessionInv, SessionTypeOK,
         Types, Roomy, Rows, Safes, Grants, Callees
  <1> QED BY <1>1, <1>2, <1>3, PTL DEF AccountsSpec
=============================================================================
