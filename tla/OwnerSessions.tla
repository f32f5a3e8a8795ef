---------------------------- MODULE OwnerSessions ----------------------------
(***************************************************************************)
(* Sessions of the single owner and the management protection above them:  *)
(* routers/auth.py, services/admin_security.py, services/session_policy.py. *)
(*                                                                         *)
(* A request first loads its session (current_user) without a lock and     *)
(* acts later.  What it does then is serialised by two kinds of locks held *)
(* to the end of the transaction: the advisory lock over the security row  *)
(* (the safe) and the lock of a session row.  A step below is what happens *)
(* between two points where the code waits for such a lock.                *)
(*                                                                         *)
(* Times are the ticks that remain until a deadline.                       *)
(***************************************************************************)
EXTENDS Integers, FiniteSets

CONSTANTS
  Callers,     \* requests in progress
  MaxSessions, \* bound: sessions ever created
  MaxTokens,   \* bound: refresh tokens ever made
  MaxVersion,  \* bound: how often grants are invalidated
  MaxGrants,   \* grants the security row keeps
  Idle,        \* IDLE_TTL
  Remember,    \* REMEMBER_TTL
  Elevation,   \* ADMIN_TTL
  Nobody

Sids == 1 .. MaxSessions
Never == 0

ASSUME SessionAssumption ==
  /\ MaxSessions \in Nat /\ MaxTokens \in Nat /\ MaxVersion \in Nat \ {0}
  /\ MaxGrants \in Nat \ {0} /\ Idle \in Nat \ {0} /\ Remember \in Nat \ {0}
  /\ Elevation \in Nat \ {0} /\ Nobody \notin Callers

VARIABLES
  users,     \* rows of the user table
  sessions,  \* sid -> [token, revoked, remember, left]
  created,   \* sessions created so far
  tokens,    \* refresh tokens made so far
  safe,      \* [configured, enabled, version, grants]: the security row
  caller,    \* per request: what it does
  safeLock,  \* who holds the advisory lock
  rowLock,   \* sid -> who holds the row
  exchanged  \* history: token -> how often it was exchanged for a new one

sessionVars == <<users, sessions, created, tokens, safe, caller, safeLock,
                 rowLock, exchanged>>

NoSession == [token |-> Never, revoked |-> TRUE, remember |-> FALSE, left |-> 0]
NoGrant == [version |-> Never, left |-> 0]
Away == [at |-> "away", sid |-> Never, left |-> 0, token |-> Never]

SessionInit ==
  /\ users = 0
  /\ sessions = [s \in Sids |-> NoSession]
  /\ created = 0 /\ tokens = 0
  /\ safe = [configured |-> FALSE, enabled |-> TRUE, version |-> 1,
             grants |-> [s \in Sids |-> NoGrant]]
  /\ caller = [c \in Callers |-> Away]
  /\ safeLock = Nobody
  /\ rowLock = [s \in Sids |-> Nobody]
  /\ exchanged = [t \in 1 .. MaxTokens |-> 0]

-----------------------------------------------------------------------------
Live(s) == ~sessions[s].revoked /\ sessions[s].left > 0
SafeFreeSkipped == TRUE
SafeFree == safeLock = Nobody
RowFreeSkipped(s) == TRUE
RowFree(s) == rowLock[s] = Nobody
AllRowsFree == \A s \in Sids : RowFree(s)

Less(n) == IF n = 0 THEN 0 ELSE n - 1
Granted == {s \in Sids : safe.grants[s].version # Never}

\* invalidate: raise the version and forget every grant.
Invalidated(state) == [state EXCEPT !.version = @ + 1,
                                    !.grants = [s \in Sids |-> NoGrant]]
MayInvalidate == safe.version < MaxVersion

\* security_status: what require_admin asks for.
Elevated(s) == safe.configured
               /\ (~safe.enabled \/ (safe.grants[s].version = safe.version
                                     /\ safe.grants[s].left > 0))

At(c, place) == caller[c].at = place
Move(c, place) == caller' = [caller EXCEPT ![c].at = place]
Leave(c) == caller' = [caller EXCEPT ![c] = Away]

SessionTick ==
  /\ sessions' = [s \in Sids |-> [sessions[s] EXCEPT !.left = Less(@)]]
  /\ safe' = [safe EXCEPT !.grants =
       [s \in Sids |-> [safe.grants[s] EXCEPT !.left = Less(@)]]]
  /\ caller' = [c \in Callers |-> [caller[c] EXCEPT !.left = Less(@)]]
  /\ UNCHANGED <<users, created, tokens, safeLock, rowLock, exchanged>>

-----------------------------------------------------------------------------
\* _create_session: a new row with a new token.
NewSession(remember) ==
  /\ created < MaxSessions /\ tokens < MaxTokens
  /\ created' = created + 1
  /\ tokens' = tokens + 1
NewRow(remember) == [token |-> tokens', revoked |-> FALSE, remember |-> remember,
                     left |-> IF remember THEN Remember ELSE Idle]

\* register: the advisory lock keeps two first visitors apart ...
BeginRegister(c) ==
  /\ At(c, "away") /\ SafeFree
  /\ users = 0
  /\ safeLock' = c
  /\ Move(c, "register")
  /\ UNCHANGED <<users, sessions, created, tokens, safe, rowLock, exchanged>>

\* ... until the owner and a remembered session are committed.
CommitRegister(c) ==
  /\ At(c, "register")
  /\ NewSession(TRUE)
  /\ users' = users + 1
  /\ sessions' = [sessions EXCEPT ![created'] = NewRow(TRUE)]
  /\ safeLock' = Nobody
  /\ Leave(c)
  /\ UNCHANGED <<safe, rowLock, exchanged>>

\* login: replaces the session the browser presents, if it is alive.
Login(c) ==
  /\ At(c, "away")
  /\ users > 0
  /\ \E previous \in Sids \cup {Never}, remember \in BOOLEAN :
       /\ previous # Never => Live(previous) /\ RowFree(previous)
       /\ NewSession(remember)
       /\ sessions' = [s \in Sids |->
            IF s = created' THEN NewRow(remember)
            ELSE IF s = previous THEN [sessions[s] EXCEPT !.revoked = TRUE]
            ELSE sessions[s]]
  /\ UNCHANGED <<users, safe, caller, safeLock, rowLock, exchanged>>

-----------------------------------------------------------------------------
\* rotate_refresh: the token of a live session names the row, which is locked ...
BeginRotate(c) ==
  /\ At(c, "away")
  /\ \E s \in Sids :
       /\ RowFree(s) /\ Live(s)
       /\ rowLock' = [rowLock EXCEPT ![s] = c]
       /\ caller' = [caller EXCEPT ![c] = [at |-> "rotate", sid |-> s,
            left |-> sessions[s].left, token |-> sessions[s].token]]
  /\ UNCHANGED <<users, sessions, created, tokens, safe, safeLock, exchanged>>

\* ... until a new token has replaced it.
CommitRotate(c) ==
  LET s == caller[c].sid IN
  /\ At(c, "rotate")
  /\ tokens < MaxTokens
  /\ tokens' = tokens + 1
  /\ sessions' = [sessions EXCEPT ![s].token = tokens']
  /\ exchanged' = [exchanged EXCEPT ![caller[c].token] = @ + 1]
  /\ rowLock' = [rowLock EXCEPT ![s] = Nobody]
  /\ Leave(c)
  /\ UNCHANGED <<users, created, safe, safeLock>>

\* logout: revoked, and the elevation given back, alive or not.
Logout(c) ==
  /\ At(c, "away")
  /\ SafeFree
  /\ \E s \in 1 .. created :
       /\ RowFree(s)
       /\ sessions' = [sessions EXCEPT ![s].revoked = TRUE]
       /\ safe' = [safe EXCEPT !.grants[s] = NoGrant]
  /\ UNCHANGED <<users, created, tokens, caller, safeLock, rowLock, exchanged>>

-----------------------------------------------------------------------------
\* current_user: the session is alive now; the request keeps what it read.
Enter(c) ==
  /\ At(c, "away")
  /\ \E s \in Sids :
       /\ Live(s)
       /\ caller' = [caller EXCEPT ![c] = [at |-> "seen", sid |-> s,
            left |-> sessions[s].left, token |-> Never]]
  /\ UNCHANGED <<users, sessions, created, tokens, safe, safeLock, rowLock, exchanged>>

\* activity reads the row again, locked, before it renews the idle time.
RenewableAsRead(s) == RowFree(s) /\ ~sessions[s].revoked
Renewable(s) == RowFree(s) /\ Live(s)
Activity(c) ==
  LET s == caller[c].sid IN
  /\ At(c, "seen")
  /\ Renewable(s)
  /\ sessions' = [sessions EXCEPT ![s].left =
       IF sessions[s].remember THEN @ ELSE Idle]
  /\ Leave(c)
  /\ UNCHANGED <<users, created, tokens, safe, safeLock, rowLock, exchanged>>

\* revoke_session: one's own sessions, this one included.
Revoke(c) ==
  /\ At(c, "seen")
  /\ \E s \in 1 .. created :
       RowFree(s) /\ sessions' = [sessions EXCEPT ![s].revoked = TRUE]
  /\ Leave(c)
  /\ UNCHANGED <<users, created, tokens, safe, safeLock, rowLock, exchanged>>

\* change_password, and reset_password by mail: every grant and session ends.
ChangePassword(c) ==
  /\ At(c, "seen") /\ SafeFree /\ AllRowsFree /\ MayInvalidate
  /\ safe' = Invalidated(safe)
  /\ sessions' = [s \in Sids |-> [sessions[s] EXCEPT !.revoked = TRUE]]
  /\ Leave(c)
  /\ UNCHANGED <<users, created, tokens, safeLock, rowLock, exchanged>>

-----------------------------------------------------------------------------
\* setup: the management password is chosen once.
Setup(c) ==
  /\ At(c, "seen") /\ SafeFree /\ MayInvalidate
  /\ ~safe.configured
  /\ safe' = [Invalidated(safe) EXCEPT !.configured = TRUE, !.enabled = TRUE]
  /\ Leave(c)
  /\ UNCHANGED <<users, sessions, created, tokens, safeLock, rowLock, exchanged>>

\* change_protection and change_admin_password.
Protect(c) ==
  /\ At(c, "seen") /\ SafeFree /\ MayInvalidate
  /\ safe.configured
  /\ \E on \in BOOLEAN : safe' = [Invalidated(safe) EXCEPT !.enabled = on]
  /\ Leave(c)
  /\ UNCHANGED <<users, sessions, created, tokens, safeLock, rowLock, exchanged>>

\* unlock: expired grants are dropped, the table has room for one more, and the
\* grant ends with the session as the request saw it.
Current == {s \in Granted : safe.grants[s].left > 0
                            /\ safe.grants[s].version = safe.version}
KeptOneMore(gone) ==
  IF Cardinality(Current) > MaxGrants THEN Current \ {gone} ELSE Current
Kept(gone) == IF Cardinality(Current) >= MaxGrants THEN Current \ {gone} ELSE Current
Until(c) == IF Elevation < caller[c].left THEN Elevation ELSE caller[c].left
Unlock(c) ==
  /\ At(c, "seen") /\ SafeFree
  /\ safe.configured
  /\ \E gone \in Sids :
       /\ \A s \in Current : gone \in Current
                             /\ safe.grants[gone].left <= safe.grants[s].left
       /\ safe' = [safe EXCEPT !.grants = [s \in Sids |->
            IF s = caller[c].sid
            THEN [version |-> safe.version, left |-> Until(c)]
            ELSE IF s \in Kept(gone) THEN safe.grants[s] ELSE NoGrant]]
  /\ Leave(c)
  /\ UNCHANGED <<users, sessions, created, tokens, safeLock, rowLock, exchanged>>

\* lock: the elevation is given back.
Relock(c) ==
  /\ At(c, "seen") /\ SafeFree
  /\ safe' = [safe EXCEPT !.grants[caller[c].sid] = NoGrant]
  /\ Leave(c)
  /\ UNCHANGED <<users, sessions, created, tokens, safeLock, rowLock, exchanged>>

\* require_admin: judged under the advisory lock, which the request keeps ...
BeginAdmin(c) ==
  /\ At(c, "seen") /\ SafeFree
  /\ caller[c].left > 0
  /\ Elevated(caller[c].sid)
  /\ safeLock' = c
  /\ Move(c, "admin")
  /\ UNCHANGED <<users, sessions, created, tokens, safe, rowLock, exchanged>>

\* ... while it changes what only an administrator may change.
CommitAdmin(c) ==
  /\ At(c, "admin")
  /\ safeLock' = Nobody
  /\ Leave(c)
  /\ UNCHANGED <<users, sessions, created, tokens, safe, rowLock, exchanged>>

\* Refused, or failed and rolled back: nothing changes and the locks are free.
GiveUp(c) ==
  /\ ~At(c, "away")
  /\ safeLock' = IF safeLock = c THEN Nobody ELSE safeLock
  /\ rowLock' = [s \in Sids |-> IF rowLock[s] = c THEN Nobody ELSE rowLock[s]]
  /\ Leave(c)
  /\ UNCHANGED <<users, sessions, created, tokens, safe, exchanged>>

SessionNext ==
  \/ SessionTick
  \/ \E c \in Callers :
       \/ BeginRegister(c) \/ CommitRegister(c) \/ Login(c)
       \/ BeginRotate(c) \/ CommitRotate(c) \/ Logout(c)
       \/ Enter(c) \/ Activity(c) \/ Revoke(c) \/ ChangePassword(c)
       \/ Setup(c) \/ Protect(c) \/ Unlock(c) \/ Relock(c)
       \/ BeginAdmin(c) \/ CommitAdmin(c) \/ GiveUp(c)

SessionSpec == SessionInit /\ [][SessionNext]_sessionVars

-----------------------------------------------------------------------------
Spans == 0 .. Remember + Idle

\* Every variable has its type; there is never a second account, and the
\* security row stays bounded for any number of sessions (register, unlock).
SessionTypeOK ==
  /\ users \in 0 .. 1
  /\ sessions \in [Sids -> [token : 0 .. MaxTokens, revoked : BOOLEAN,
                            remember : BOOLEAN, left : Spans]]
  /\ created \in 0 .. MaxSessions /\ tokens \in 0 .. MaxTokens
  /\ safe \in [configured : BOOLEAN, enabled : BOOLEAN, version : 1 .. MaxVersion,
               grants : [Sids -> [version : 0 .. MaxVersion, left : Spans]]]
  /\ Cardinality(Granted) <= MaxGrants
  /\ caller \in [Callers -> [at : {"away", "register", "rotate", "seen", "admin"},
                             sid : 0 .. MaxSessions, left : Spans,
                             token : 0 .. MaxTokens]]
  /\ safeLock \in Callers \cup {Nobody}
  /\ rowLock \in [Sids -> Callers \cup {Nobody}]

\* A refresh token is exchanged at most once, however many tabs present it
\* together (rotate_refresh: the row lock serialises them).
TokenOnce == \A t \in 1 .. MaxTokens : exchanged[t] <= 1

\* A session that was revoked or has expired is never alive again, whatever
\* requests still hold it in memory (activity: "cannot resurrect").
DeadStaysDead == [][ \A s \in 1 .. created : ~Live(s) => ~Live(s)' ]_sessionVars

\* While an administrative request runs, the protection it was judged by still
\* stands: no password change or toggle slips in (require_admin).
AdminHolds ==
  \A c \in Callers : At(c, "admin") =>
    /\ safe.configured
    /\ ~safe.enabled \/ safe.grants[caller[c].sid].version = safe.version
=============================================================================
