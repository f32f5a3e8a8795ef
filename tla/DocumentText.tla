---------------------------- MODULE DocumentText ----------------------------
(***************************************************************************)
(* The text of one page, its draft slot, its checkpoints and its outgoing  *)
(* links: update_document, save_draft and sync_wikilinks of services/      *)
(* document.py, services/document_version.py, repositories/document.py and *)
(* document_link.py, routers/document.py and document_version.py.          *)
(*                                                                         *)
(* A save compares, checkpoints and writes in one transaction under the    *)
(* lock of the row.  The links follow in one transaction each.  A text is  *)
(* abstracted to the set of pages it names.                                *)
(***************************************************************************)
EXTENDS Naturals, Sequences, SequencesExt

CONSTANTS
  Editors,     \* devices, each with a request at most
  Pages,       \* other pages of the workspace
  MaxSaves,    \* bound: values of updated_at
  MaxVersions  \* bound: checkpoints kept

Texts == SUBSET Pages

ASSUME TextAssumption == MaxSaves \in Nat /\ MaxVersions \in Nat

VARIABLES
  text,      \* documents.content
  stamp,     \* documents.updated_at
  drafted,   \* the draft slot is filled
  binned,    \* the page is in the bin
  versions,  \* document_versions by version_no
  links,     \* targets of the page's links
  listed,    \* other pages that are live, so that a name finds them
  editor     \* what each device holds

textVars == <<text, stamp, drafted, binned, versions, links, listed, editor>>

Away == [at |-> "away", seen |-> {}, base |-> 0, todo |-> {}, names |-> {}]

TextInit ==
  /\ text \in Texts /\ stamp = 0
  /\ drafted = FALSE /\ binned = FALSE
  /\ versions = <<>>
  /\ links = text
  /\ listed = Pages
  /\ editor = [e \in Editors |-> Away]

At(e, place) == editor[e].at = place
Turns(e, r) == editor' = [editor EXCEPT ![e] = r]

\* GET /documents/{id}
Open(e) ==
  /\ At(e, "away") /\ ~binned
  /\ Turns(e, [Away EXCEPT !.at = "open", !.seen = text, !.base = stamp])
  /\ UNCHANGED <<text, stamp, drafted, binned, versions, links, listed>>

\* Over the web socket; looks at neither the bin nor updated_at.
SaveDraft(e) ==
  /\ At(e, "open")
  /\ drafted' = TRUE
  /\ UNCHANGED <<text, stamp, binned, versions, links, listed, editor>>

-----------------------------------------------------------------------------
\* checkpoint_save; "worth" stands for the age and the size of the change.
Differs(old, t) == old = <<>> \/ Last(old) # t
Base(force) == IF (versions = <<>> \/ force) /\ Differs(versions, text)
               THEN Append(versions, text) ELSE versions
Checkpointed(new, force, worth) ==
  IF new = text THEN versions
  ELSE IF Differs(Base(force), new) /\ (versions = <<>> \/ force \/ worth)
  THEN Append(Base(force), new)
  ELSE Base(force)

CurrentAssumed(e) == TRUE  \* updated_at is not compared
Current(e) == editor[e].base = stamp

\* The transaction of update_document; "open" may hold a text long out of date.
Store(e, new, force) ==
  /\ ~binned /\ Current(e) /\ stamp < MaxSaves
  /\ \E worth \in BOOLEAN : versions' = Checkpointed(new, force, worth)
  /\ Len(versions') <= MaxVersions
  /\ text' = new /\ stamp' = stamp + 1 /\ drafted' = FALSE
  /\ Turns(e, [editor[e] EXCEPT !.at = "synced", !.names = new])
  /\ UNCHANGED <<binned, links, listed>>

Save(e) == At(e, "open") /\ \E new \in Texts : Store(e, new, FALSE)
RestoreVersion(e) == At(e, "open") /\ \E v \in ToSet(versions) : Store(e, v, TRUE)

\* 409 or 404: nothing is written.
Refused(e) ==
  /\ At(e, "open") /\ (binned \/ ~Current(e))
  /\ Turns(e, Away)
  /\ UNCHANGED <<text, stamp, drafted, binned, versions, links, listed>>

\* A move of the page writes updated_at and clears the draft, but no text.
MovePage(e) ==
  /\ At(e, "open") /\ ~binned /\ Current(e) /\ stamp < MaxSaves
  /\ stamp' = stamp + 1 /\ drafted' = FALSE
  /\ Turns(e, Away)
  /\ UNCHANGED <<text, binned, versions, links, listed>>

\* create_version: a text of the device's own, under the row lock.
Checkpoint(e) ==
  /\ At(e, "open") /\ ~binned /\ Len(versions) < MaxVersions
  /\ \E t \in Texts : versions' = Append(versions, t)
  /\ UNCHANGED <<text, stamp, drafted, binned, links, listed, editor>>

-----------------------------------------------------------------------------
\* sync_wikilinks: reads the links, removes them one by one ...
ReadLinks(e) ==
  /\ At(e, "synced")
  /\ Turns(e, [editor[e] EXCEPT !.at = "unlink", !.todo = links])
  /\ UNCHANGED <<text, stamp, drafted, binned, versions, links, listed>>

Unlink(e) ==
  /\ At(e, "unlink")
  /\ \E p \in editor[e].todo :
       /\ links' = links \ {p}
       /\ Turns(e, [editor[e] EXCEPT !.todo = @ \ {p}])
  /\ UNCHANGED <<text, stamp, drafted, binned, versions, listed>>

\* ... then looks each name up and inserts the link, a name at a time.
Resolve(e) ==
  /\ At(e, "unlink") /\ editor[e].todo = {}
  /\ Turns(e, [editor[e] EXCEPT !.at = "link"])
  /\ UNCHANGED <<text, stamp, drafted, binned, versions, links, listed>>

Link(e) ==
  /\ At(e, "link")
  /\ \E p \in editor[e].names :
       /\ links' = IF p \in listed THEN links \cup {p} ELSE links
       /\ p \in listed => p \notin links
       /\ Turns(e, [editor[e] EXCEPT !.names = @ \ {p}])
  /\ UNCHANGED <<text, stamp, drafted, binned, versions, listed>>

Done(e) ==
  /\ At(e, "link") /\ editor[e].names = {}
  /\ Turns(e, Away)
  /\ UNCHANGED <<text, stamp, drafted, binned, versions, links, listed>>

\* The process stops, or the insert meets a link another save has made.
Fails(e) ==
  /\ editor[e].at \in {"synced", "unlink", "link"}
  /\ Turns(e, Away)
  /\ UNCHANGED <<text, stamp, drafted, binned, versions, links, listed>>

\* POST and DELETE /document-links, and finalize_import on the page as it is.
EditLink(e) ==
  /\ At(e, "open") /\ ~binned
  /\ \E p \in listed : links' \in {links \cup {p}, links \ {p}}
  /\ UNCHANGED <<text, stamp, drafted, binned, versions, listed, editor>>

FinalizeImport(e) ==
  /\ At(e, "away") /\ ~binned
  /\ Turns(e, [Away EXCEPT !.at = "synced", !.names = text])
  /\ UNCHANGED <<text, stamp, drafted, binned, versions, links, listed>>

\* Pages go to the bin and come back; their rows and links stay.
Bin == binned' = ~binned
       /\ UNCHANGED <<text, stamp, drafted, versions, links, listed, editor>>
BinOther == \E p \in Pages :
  /\ listed' \in {listed \cup {p}, listed \ {p}}
  /\ UNCHANGED <<text, stamp, drafted, binned, versions, links, editor>>

TextNext ==
  \/ \E e \in Editors :
       \/ Open(e) \/ SaveDraft(e) \/ Save(e) \/ RestoreVersion(e) \/ Refused(e)
       \/ MovePage(e) \/ Checkpoint(e)
       \/ ReadLinks(e) \/ Unlink(e) \/ Resolve(e) \/ Link(e) \/ Done(e) \/ Fails(e)
       \/ EditLink(e) \/ FinalizeImport(e)
  \/ Bin \/ BinOther

TextSpec == TextInit /\ [][TextNext]_textVars

-----------------------------------------------------------------------------
TextTypeOK ==
  /\ text \in Texts /\ stamp \in 0 .. MaxSaves
  /\ drafted \in BOOLEAN /\ binned \in BOOLEAN
  /\ versions \in BoundedSeq(Texts, MaxVersions)
  /\ links \subseteq Pages /\ listed \subseteq Pages
  /\ editor \in [Editors ->
       [at : {"away", "open", "synced", "unlink", "link"}, seen : Texts,
        base : 0 .. MaxSaves, todo : Texts, names : Texts]]

\* A text is only ever replaced by a device that has read exactly that text:
\* no save overwrites another one unseen (the optimistic lock, also after moves,
\* drafts, restores and trips through the bin).  And going back to an old version
\* loses nothing: the text it replaces is among the checkpoints afterwards, and
\* so is the one it brings back.
TextsKept ==
  [][text' # text =>
       \E e \in Editors :
         /\ At(e, "open") /\ editor[e].seen = text /\ editor'[e] # editor[e]
         /\ RestoreVersion(e) => {text, text'} \subseteq ToSet(versions')]_textVars
=============================================================================
