---------------------------- MODULE Integrations ----------------------------
(***************************************************************************)
(* Websites embedded behind a proxy of their own origin: services/         *)
(* integrations.py (the module list), integrations_sessions.py (start      *)
(* tickets and grants), integrations_injection.py, integrations_proxy.py   *)
(* and routers/integrations_host.py (the dispatcher by host name).         *)
(*                                                                         *)
(* One locked database row holds modules, tickets and grants, so an edit   *)
(* is one step.  But requests read a module first and edit later: a launch *)
(* puts in a ticket, a start redeems it, and a web socket that was let in  *)
(* is looked at again only every few seconds.                              *)
(***************************************************************************)
EXTENDS Naturals, FiniteSets

CONSTANTS
  Visitors,     \* requests, and the sockets they become
  Mods,         \* module ids
  Logins,       \* sessions of the main site
  MaxTickets,   \* bound: tickets ever issued
  TicketTTL, GrantTTL,
  MaxInflight, MaxPerModule,
  NoMod

Tickets == 1 .. MaxTickets

ASSUME IntegrationAssumption ==
  /\ MaxTickets \in Nat /\ TicketTTL \in Nat \ {0} /\ GrantTTL \in Nat \ {0}
  /\ MaxInflight \in Nat \ {0} /\ MaxPerModule \in Nat \ {0}
  /\ NoMod \notin Mods

VARIABLES
  mods,      \* module -> "new", "on", "off" or "gone"; ids are never reused
  injected,  \* module -> [draft, active, previous]
  tickets,   \* start tickets in the row
  grants,    \* grants in the row
  alive,     \* sessions of the main site that are neither revoked nor expired
  visitor,   \* what each request knows
  inflight,  \* [total, of]: the dispatcher's counters
  issues     \* tickets issued so far

integrationVars == <<mods, injected, tickets, grants, alive, visitor, inflight,
                     issues>>

Out == [at |-> "out", mod |-> NoMod, login |-> NoMod, ticket |-> 0]
Versions == {"none", "good", "bad"}
Blank == [draft |-> "none", active |-> "none", previous |-> "none"]

IntegrationInit ==
  /\ mods = [m \in Mods |-> "new"]
  /\ injected = [m \in Mods |-> Blank]
  /\ tickets = {} /\ grants = {}
  /\ alive = Logins
  /\ visitor = [v \in Visitors |-> Out]
  /\ inflight = [total |-> 0, of |-> [m \in Mods |-> 0]]
  /\ issues = 0

Listed(m) == mods[m] \in {"on", "off"}
Elapsed(records) == {[r EXCEPT !.left = @ - 1] : r \in {q \in records : q.left > 0}}
Unexpired(records) == {r \in records : r.left > 0}
Without(records, m) == {r \in records : r.mod # m}

IntegrationTick ==
  /\ tickets' = Elapsed(tickets)
  /\ grants' = Elapsed(grants)
  /\ UNCHANGED <<mods, injected, alive, visitor, inflight, issues>>

-----------------------------------------------------------------------------
\* create_module, with "off" for a module that is disabled or not proxied.
CreateModule ==
  /\ \E m \in Mods, how \in {"on", "off"} :
       mods[m] = "new" /\ mods' = [mods EXCEPT ![m] = how]
  /\ UNCHANGED <<injected, tickets, grants, alive, visitor, inflight, issues>>

\* patch_module on a field of the identity: started sessions end.
PatchModule ==
  /\ \E m \in Mods, how \in {"on", "off"} :
       /\ Listed(m)
       /\ mods' = [mods EXCEPT ![m] = how]
       /\ tickets' = Without(tickets, m)
       /\ grants' = Without(grants, m)
  /\ UNCHANGED <<injected, alive, visitor, inflight, issues>>

DeleteModule ==
  /\ \E m \in Mods :
       /\ Listed(m)
       /\ mods' = [mods EXCEPT ![m] = "gone"]
       /\ injected' = [injected EXCEPT ![m] = Blank]
       /\ tickets' = Without(tickets, m)
       /\ grants' = Without(grants, m)
  /\ UNCHANGED <<alive, visitor, inflight, issues>>

\* validate_draft keeps any draft; apply publishes one that passes the check;
\* rollback swaps the two published versions.
Draft ==
  /\ \E m \in Mods, d \in {"good", "bad"} :
       Listed(m) /\ injected' = [injected EXCEPT ![m].draft = d]
  /\ UNCHANGED <<mods, tickets, grants, alive, visitor, inflight, issues>>

Publishable(m) == injected[m].draft = "good"
Apply ==
  /\ \E m \in Mods :
       /\ Listed(m) /\ Publishable(m)
       /\ injected' = [injected EXCEPT ![m].previous = injected[m].active,
                                       ![m].active = injected[m].draft]
  /\ UNCHANGED <<mods, tickets, grants, alive, visitor, inflight, issues>>

Rollback ==
  /\ \E m \in Mods :
       /\ Listed(m) /\ injected[m].previous # "none"
       /\ injected' = [injected EXCEPT ![m].active = injected[m].previous,
                                       ![m].previous = injected[m].active]
  /\ UNCHANGED <<mods, tickets, grants, alive, visitor, inflight, issues>>

\* The main site's session ends; nothing in the row changes.
SessionEnds ==
  /\ \E s \in alive : alive' = alive \ {s}
  /\ UNCHANGED <<mods, injected, tickets, grants, visitor, inflight, issues>>

-----------------------------------------------------------------------------
Is(v, place) == visitor[v].at = place
Becomes(v, r) == visitor' = [visitor EXCEPT ![v] = r]

\* launch on the main site reads the module ...
Launch(v) ==
  /\ Is(v, "out")
  /\ \E m \in Mods, s \in alive :
       mods[m] = "on" /\ Becomes(v, [Out EXCEPT !.at = "launch", !.mod = m, !.login = s])
  /\ UNCHANGED <<mods, injected, tickets, grants, alive, inflight, issues>>

\* ... and issue puts a ticket for what it read into the row.
Issue(v) ==
  /\ Is(v, "launch")
  /\ visitor[v].login \in alive
  /\ issues < MaxTickets
  /\ issues' = issues + 1
  /\ tickets' = Unexpired(tickets) \cup {[serial |-> issues', mod |-> visitor[v].mod,
                                    login |-> visitor[v].login, left |-> TicketTTL]}
  /\ grants' = Unexpired(grants)
  /\ Becomes(v, Out)
  /\ UNCHANGED <<mods, injected, alive, inflight>>

-----------------------------------------------------------------------------
\* The dispatcher counts a request of an integration host in, if there is room;
\* no other request runs between the test and the count (one event loop).
Served == {"refused", "start", "use", "open"}  \* what a counted request is at
Room(m) == inflight.total < MaxInflight /\ inflight.of[m] < MaxPerModule
CountIn(m) == inflight' = [inflight EXCEPT !.total = @ + 1, !.of[m] = @ + 1]
CountOut(m) == inflight' = [inflight EXCEPT !.total = @ - 1, !.of[m] = @ - 1]

\* It then reads the module, and refuses a request for one that is not on; a start
\* presents a ticket that was handed out, any other request the cookie of the grant
\* a ticket became, or (0) nothing of the kind.
Arrive(v) ==
  /\ Is(v, "out")
  /\ \E m \in Mods, t \in 0 .. issues, kind \in {"refused", "start", "use"} :
       /\ Room(m) /\ CountIn(m)
       /\ kind = "refused" <=> mods[m] # "on"
       /\ Becomes(v, [Out EXCEPT !.at = kind, !.mod = m, !.ticket = t])
  /\ UNCHANGED <<mods, injected, tickets, grants, alive, issues>>

\* redeem: the ticket of this module turns into a grant of the same session.
Redeemable(v) == {t \in Unexpired(tickets) : t.serial = visitor[v].ticket
                                       /\ t.mod = visitor[v].mod /\ t.login \in alive}
Redeem(v) ==
  /\ Is(v, "start")
  /\ \E t \in Redeemable(v) :
       /\ tickets' = Unexpired(tickets) \ {t}
       /\ grants' = Unexpired(grants) \cup {[t EXCEPT !.left = GrantTTL]}
  /\ CountOut(visitor[v].mod)
  /\ Becomes(v, Out)
  /\ UNCHANGED <<mods, injected, alive, issues>>

\* authorize: the cookie names an unexpired grant of this module whose session
\* is alive.
Authorized(m, cookie) ==
  \E g \in Unexpired(grants) : g.serial = cookie /\ g.mod = m /\ g.login \in alive

\* A web socket is let in and stays, without a database connection.
Open(v) ==
  /\ Is(v, "use")
  /\ Authorized(visitor[v].mod, visitor[v].ticket)
  /\ Becomes(v, [visitor[v] EXCEPT !.at = "open"])
  /\ UNCHANGED <<mods, injected, tickets, grants, alive, inflight, issues>>

\* watch_session: every few seconds; a socket that lost its grant is closed.
LostModule(v) == mods[visitor[v].mod] # "on"  \* only the module is looked at
Lost(v) == ~Authorized(visitor[v].mod, visitor[v].ticket)
Watch(v) ==
  /\ Is(v, "open") /\ Lost(v)
  /\ CountOut(visitor[v].mod)
  /\ Becomes(v, Out)
  /\ UNCHANGED <<mods, injected, tickets, grants, alive, issues>>

\* Any request ends: answered, refused, failed or hung up.
End(v) ==
  /\ ~Is(v, "out")
  /\ IF Is(v, "launch") THEN UNCHANGED inflight ELSE CountOut(visitor[v].mod)
  /\ Becomes(v, Out)
  /\ UNCHANGED <<mods, injected, tickets, grants, alive, issues>>

IntegrationNext ==
  \/ IntegrationTick
  \/ CreateModule \/ PatchModule \/ DeleteModule
  \/ Draft \/ Apply \/ Rollback \/ SessionEnds
  \/ \E v \in Visitors :
       \/ Launch(v) \/ Issue(v) \/ Arrive(v) \/ Redeem(v)
       \/ Open(v) \/ Watch(v) \/ End(v)

IntegrationSpec == IntegrationInit /\ [][IntegrationNext]_integrationVars

\* A socket's watch task runs on the event loop whatever the socket does.
WatchersRun == \A v \in Visitors : WF_integrationVars(Watch(v))
FairIntegrationSpec == IntegrationSpec /\ WatchersRun

-----------------------------------------------------------------------------
\* Every variable has its type; the dispatcher's counters are exactly the
\* requests and sockets under way, so its limits neither leak nor stick.
IntegrationTypeOK ==
  /\ mods \in [Mods -> {"new", "on", "off", "gone"}]
  /\ injected \in [Mods -> [draft : Versions, active : Versions \ {"bad"},
                            previous : Versions \ {"bad"}]]
  /\ tickets \subseteq [serial : Tickets, mod : Mods, login : Logins, left : 0 .. TicketTTL]
  /\ grants \subseteq [serial : Tickets, mod : Mods, login : Logins, left : 0 .. GrantTTL]
  /\ alive \subseteq Logins
  /\ issues \in 0 .. MaxTickets
  /\ inflight.total = Cardinality({v \in Visitors : visitor[v].at \in Served})
  /\ inflight.total <= MaxInflight
  /\ \A m \in Mods :
       /\ inflight.of[m] = Cardinality({v \in Visitors :
            visitor[v].at \in Served /\ visitor[v].mod = m})
       /\ inflight.of[m] <= MaxPerModule

\* A socket whose grant or session ended is closed (watch_session), for it
\* never gets them back.
SocketsEnd ==
  \A v \in Visitors :
    (Is(v, "open") /\ ~Authorized(visitor[v].mod, visitor[v].ticket)) ~> ~Is(v, "open")
=============================================================================
