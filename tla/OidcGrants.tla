----------------------------- MODULE OidcGrants -----------------------------
(***************************************************************************)
(* The OpenID provider: services/oidc.py, routers/oidc.py and the shared   *)
(* state of services/ha_state.py.                                          *)
(*                                                                         *)
(* Codes and access tokens are one document.  Whoever changes it locks it, *)
(* takes a copy without what has expired, changes the copy and puts it     *)
(* back in one piece (a transaction, or a new file renamed over the old    *)
(* one); a crash before that leaves the old document and frees the lock.   *)
(* Exchanging a code takes two such sections: the code goes in the first,  *)
(* the access token comes in the second, and the process may die between.  *)
(***************************************************************************)
EXTENDS Naturals, FiniteSets

CONSTANTS
  Servers,     \* threads or processes that answer the provider's endpoints
  Clients,     \* registered relying parties
  MaxIssued,   \* bound: codes ever created
  CodeTTL,     \* CODE_TTL, in ticks
  TokenTTL,    \* ACCESS_TOKEN_TTL, in ticks
  NoServer

Serials == 1 .. MaxIssued

ASSUME OidcAssumption ==
  /\ MaxIssued \in Nat /\ CodeTTL \in Nat \ {0} /\ TokenTTL \in Nat \ {0}
  /\ NoServer \notin Servers

VARIABLES
  document,   \* [codes, tokens]: sets of [serial, client, left]
  documentLock,
  server,     \* what each server is doing
  serial,     \* codes created so far
  secret,     \* client -> the secret kept for it is generated
  answered    \* history: code -> how many exchanges of it were answered

oidcVars == <<document, documentLock, server, serial, secret, answered>>

Record(n, c, left) == [serial |-> n, client |-> c, left |-> left]
Empty == [codes |-> {}, tokens |-> {}]
Resting == [at |-> "rest", copy |-> Empty, record |-> Record(0, NoServer, 0)]

OidcInit ==
  /\ document = Empty
  /\ documentLock = NoServer
  /\ server = [s \in Servers |-> Resting]
  /\ serial = 0
  /\ secret = [c \in Clients |-> FALSE]
  /\ answered = [n \in Serials |-> 0]

-----------------------------------------------------------------------------
Older(records) == {[r EXCEPT !.left = IF @ = 0 THEN 0 ELSE @ - 1] : r \in records}
Alive(records) == {r \in records : r.left > 0}

OidcTick ==
  /\ document' = [codes |-> Older(document.codes), tokens |-> Older(document.tokens)]
  /\ UNCHANGED <<documentLock, server, serial, secret, answered>>

\* Entering _shared_state: lock, read, prune.
UnlockedAlways == TRUE
Unlocked == documentLock = NoServer
Section(s, next, record) ==
  /\ Unlocked
  /\ documentLock' = s
  /\ server' = [server EXCEPT ![s] = [at |-> next, record |-> record,
       copy |-> [codes |-> Alive(document.codes), tokens |-> Alive(document.tokens)]]]

\* Leaving it: the whole copy replaces the document.
PutBack(copy) == document' = copy /\ documentLock' = NoServer
Rest(s) == server' = [server EXCEPT ![s] = Resting]

-----------------------------------------------------------------------------
\* authorize, for a logged-in owner and a redirect address on the list.
BeginAuthorize(s) ==
  /\ server[s].at = "rest"
  /\ serial < MaxIssued
  /\ serial' = serial + 1
  /\ \E c \in Clients : Section(s, "authorize", Record(serial', c, CodeTTL))
  /\ UNCHANGED <<document, secret, answered>>

EndAuthorize(s) ==
  /\ server[s].at = "authorize"
  /\ PutBack([server[s].copy EXCEPT !.codes = @ \cup {server[s].record}])
  /\ Rest(s)
  /\ UNCHANGED <<serial, secret, answered>>

\* token: any code, however often presented, by any client.
BeginExchange(s) ==
  /\ server[s].at = "rest"
  /\ \E n \in 1 .. serial, c \in Clients : Section(s, "exchange", Record(n, c, TokenTTL))
  /\ UNCHANGED <<document, serial, secret, answered>>

\* userinfo only looks a token up, yet puts the pruned copy back.
BeginUserinfo(s) ==
  /\ server[s].at = "rest"
  /\ Section(s, "userinfo", Resting.record)
  /\ UNCHANGED <<document, serial, secret, answered>>

EndUserinfo(s) ==
  /\ server[s].at = "userinfo"
  /\ PutBack(server[s].copy)
  /\ Rest(s)
  /\ UNCHANGED <<serial, secret, answered>>

\* exchange_code: the code must be there and be this client's; the secret is
\* made on first use, and a wrong one leaves the code.
Presented(s) == {r \in server[s].copy.codes : r.serial = server[s].record.serial
                                             /\ r.client = server[s].record.client}
Refuse(s) ==
  /\ server[s].at = "exchange"
  /\ PutBack(server[s].copy)
  /\ secret' \in {secret, [c \in Clients |-> secret[c] \/
                   (Presented(s) # {} /\ c = server[s].record.client)]}
  /\ Rest(s)
  /\ UNCHANGED <<serial, answered>>

TakeCode(s) ==
  /\ server[s].at = "exchange"
  /\ Presented(s) # {}
  /\ secret' = [secret EXCEPT ![server[s].record.client] = TRUE]
  /\ PutBack([server[s].copy EXCEPT !.codes = @ \ Presented(s)])
  /\ server' = [server EXCEPT ![s].at = "signing", ![s].copy = Empty]
  /\ UNCHANGED <<serial, answered>>

\* The id token is signed outside the lock; then the access token is stored.
BeginStore(s) ==
  /\ server[s].at = "signing"
  /\ Section(s, "store", server[s].record)
  /\ UNCHANGED <<document, serial, secret, answered>>

EndStore(s) ==
  /\ server[s].at = "store"
  /\ PutBack([server[s].copy EXCEPT !.tokens = @ \cup {server[s].record}])
  /\ answered' = [answered EXCEPT ![server[s].record.serial] = @ + 1]
  /\ Rest(s)
  /\ UNCHANGED <<serial, secret>>

\* The process dies, or the transaction fails: the copy is gone, the lock free.
Crash(s) ==
  /\ server[s].at # "rest"
  /\ documentLock' = IF documentLock = s THEN NoServer ELSE documentLock
  /\ Rest(s)
  /\ UNCHANGED <<document, serial, secret, answered>>

OidcNext ==
  \/ OidcTick
  \/ \E s \in Servers :
       \/ BeginAuthorize(s) \/ EndAuthorize(s)
       \/ BeginUserinfo(s) \/ EndUserinfo(s)
       \/ BeginExchange(s) \/ Refuse(s) \/ TakeCode(s)
       \/ BeginStore(s) \/ EndStore(s) \/ Crash(s)

OidcSpec == OidcInit /\ [][OidcNext]_oidcVars

-----------------------------------------------------------------------------
Documents == [codes : SUBSET [serial : Serials, client : Clients, left : 0 .. CodeTTL],
              tokens : SUBSET [serial : Serials, client : Clients, left : 0 .. TokenTTL]]

\* Every variable has its type, and only the holder of the lock is inside.
OidcTypeOK ==
  /\ document \in Documents
  /\ documentLock \in Servers \cup {NoServer}
  /\ \A s \in Servers :
       /\ server[s].at \in {"rest", "authorize", "userinfo", "exchange",
                          "signing", "store"}
       /\ server[s].copy \in Documents
       /\ server[s].at \in {"authorize", "userinfo", "exchange", "store"}
          <=> documentLock = s
  /\ serial \in 0 .. MaxIssued
  /\ secret \in [Clients -> BOOLEAN]
  /\ answered \in [Serials -> Nat]

\* A code becomes an access token at most once, and once it is one the code is
\* gone, whoever presents it again and whatever crashed (exchange_code).
ExchangedOnce ==
  \A n \in Serials :
    /\ answered[n] + Cardinality({s \in Servers :
         server[s].at \in {"signing", "store"} /\ server[s].record.serial = n}) <= 1
    /\ (\E r \in document.tokens : r.serial = n)
         => \A r \in document.codes : r.serial # n

\* Besides, what was stored stays until it expires or is exchanged: no section
\* puts back an older copy over what another one stored (_shared_state).
GrantsKept ==
  /\ []ExchangedOnce
  /\ [][ /\ \A r \in Alive(document.tokens) : \E q \in document'.tokens : q.serial = r.serial
         /\ \A r \in Alive(document.codes) :
              \/ \E q \in document'.codes : q.serial = r.serial
              \/ \E s \in Servers : server'[s].at = "signing"
                                    /\ server'[s].record.serial = r.serial ]_oidcVars
=============================================================================
