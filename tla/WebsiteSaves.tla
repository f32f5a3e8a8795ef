----------------------------- MODULE WebsiteSaves -----------------------------
(***************************************************************************)
(* Saving a website (services/website_settings.py).  A save reads the       *)
(* module list, lets go of the database while the address is resolved and   *)
(* probed for seconds, and only then locks the row that holds all modules.  *)
(* A save that creates a website carries an idempotency key, an update may. *)
(* Meanwhile other saves, retries of the same save and the routes that edit *)
(* modules directly (services/integrations.py) go on.                       *)
(***************************************************************************)
EXTENDS Naturals, Sequences, SequencesExt, FiniteSets

CONSTANTS
  Savers,      \* save requests, the retries among them
  Sites,       \* module ids, each used once
  SaveKeys,    \* idempotency keys
  Contents,    \* what a website can be
  SiteLimit,   \* modules there may be (128)
  Remembered,  \* saves whose key is remembered (128)
  NoSite, NoKey

ASSUME SaveAssumption ==
  /\ SiteLimit \in Nat \ {0} /\ Remembered \in Nat \ {0}
  /\ Contents \cap {"new", "gone"} = {} /\ NoSite \notin Sites /\ NoKey \notin SaveKeys

VARIABLES
  site,   \* id -> "new", its content, or "gone"
  kept,   \* website_save_keys, the first to expire first
  saver,  \* what each save has read and wants
  made    \* id -> the key it was created under, while that is remembered

saveVars == <<site, kept, saver, made>>

Unsent == [at |-> "out", key |-> NoKey, on |-> NoSite, content |-> NoSite, before |-> NoSite]

SavesInit ==
  /\ site = [m \in Sites |-> "new"]
  /\ kept = <<>>
  /\ saver = [s \in Savers |-> Unsent]
  /\ made = [m \in Sites |-> NoKey]

Present == {m \in Sites : site[m] \in Contents}

\* retry_result: a save under this key is remembered.  Its answer is given again
\* if the draft is the same and the website still is what was saved; otherwise
\* the request is refused.  Either way nothing is written.
KnownSkipped(k, m) == FALSE
Known(k, m) == k # NoKey /\ \E e \in ToSet(kept) : e.key = k /\ e.on = m

-----------------------------------------------------------------------------
\* The first read, without a lock; a known key is answered at once.
BeginSave(s) ==
  /\ saver[s].at = "out"
  /\ \E k \in SaveKeys \cup {NoKey}, m \in Present \cup {NoSite}, c \in Contents :
       /\ m = NoSite => k # NoKey
       /\ ~Known(k, m)
       /\ saver' = [saver EXCEPT ![s] =
            [at |-> "checking", key |-> k, on |-> m, content |-> c,
             before |-> IF m = NoSite THEN NoSite ELSE site[m]]]
  /\ UNCHANGED <<site, kept, made>>

\* Refused before, during or after the check, or the browser hung up.
Unsaved(s) ==
  /\ saver[s].at = "checking" /\ saver' = [saver EXCEPT ![s] = Unsent]
  /\ UNCHANGED <<site, kept, made>>

\* Under the lock: the key again, then what was read against what is there now.
Unchanged(s) == saver[s].on # NoSite => site[saver[s].on] = saver[s].before
Admissible(s) ==
  /\ ~Known(saver[s].key, saver[s].on) /\ Unchanged(s)
  /\ saver[s].on = NoSite => Cardinality(Present) < SiteLimit

\* An entry is remembered; a full list forgets the one that expires first.
Forgotten == IF Len(kept) >= Remembered THEN Tail(kept) ELSE kept
Remember(k, m, id) == Append(Forgotten, [key |-> k, on |-> m, site |-> id])
StillMade(list, m) == \E e \in ToSet(list) : e.site = m /\ e.on = NoSite

WriteSite(s) ==
  /\ saver[s].at = "checking" /\ Admissible(s)
  /\ \E id \in Sites :
       LET r == saver[s] IN
       /\ IF r.on = NoSite THEN site[id] = "new" ELSE id = r.on
       /\ site' = [site EXCEPT ![id] = r.content]
       /\ kept' = IF r.key = NoKey THEN kept ELSE Remember(r.key, r.on, id)
       /\ made' = [m \in Sites |->
            IF ~StillMade(kept', m) THEN NoKey
            ELSE IF m = id /\ r.on = NoSite THEN r.key ELSE made[m]]
  /\ saver' = [saver EXCEPT ![s] = Unsent]

\* After a day a key is another one.
KeyExpires ==
  /\ kept # <<>> /\ kept' = Tail(kept)
  /\ made' = [m \in Sites |-> IF StillMade(kept', m) THEN made[m] ELSE NoKey]
  /\ UNCHANGED <<site, saver>>

-----------------------------------------------------------------------------
(* create_module, patch_module, save_navigation and delete_module edit the  *)
(* locked row in one step.                                                  *)

DirectCreate(m) ==
  /\ site[m] = "new" /\ Cardinality(Present) < SiteLimit
  /\ \E c \in Contents : site' = [site EXCEPT ![m] = c]
  /\ UNCHANGED <<kept, saver, made>>
DirectEdit(m) ==
  /\ m \in Present
  /\ \E c \in Contents : site' = [site EXCEPT ![m] = c]
  /\ UNCHANGED <<kept, saver, made>>
DirectDelete(m) ==
  /\ m \in Present /\ site' = [site EXCEPT ![m] = "gone"]
  /\ UNCHANGED <<kept, saver, made>>

SavesNext ==
  \/ \E s \in Savers : BeginSave(s) \/ Unsaved(s) \/ WriteSite(s)
  \/ KeyExpires
  \/ \E m \in Sites : DirectCreate(m) \/ DirectEdit(m) \/ DirectDelete(m)

SavesSpec == SavesInit /\ [][SavesNext]_saveVars

-----------------------------------------------------------------------------
SavesTypeOK ==
  /\ site \in [Sites -> Contents \cup {"new", "gone"}]
  /\ kept \in BoundedSeq([key : SaveKeys, on : Sites \cup {NoSite}, site : Sites], Remembered)
  /\ \A s \in Savers :
       /\ saver[s].at \in {"out", "checking"} /\ saver[s].key \in SaveKeys \cup {NoKey}
       /\ saver[s].on \in Sites \cup {NoSite}
       /\ saver[s].content \in Contents \cup {NoSite}
  /\ made \in [Sites -> SaveKeys \cup {NoKey}]

\* Retries of a create that overlap, or come after the answer was lost, make one
\* website as long as the key is remembered; and however long a save probed its
\* address, it replaces only the very website it has read, never one that was
\* edited or deleted meanwhile (save_website).
WebsitesKept ==
  /\ [](\A k \in SaveKeys : Cardinality({m \in Sites : made[m] = k}) <= 1)
  /\ [][\A s \in Savers, m \in Sites :
          (WriteSite(s) /\ site'[m] # site[m] /\ site[m] # "new") => site[m] = saver[s].before]_saveVars
=============================================================================
