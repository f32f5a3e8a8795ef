-------------------------- MODULE ProfilePictures --------------------------
(***************************************************************************)
(* upload_avatar, _upload_avatar_pg and pick_avatar of routers/auth.py:    *)
(* the owner's picture and the last few before it, over services/          *)
(* blob_store.py.                                                          *)
(***************************************************************************)
EXTENDS Naturals, Sequences, SequencesExt

CONSTANTS
  Senders,   \* uploads at the same time
  Pictures,  \* names; one that nothing holds any more stands for a new one
  Keep       \* pictures kept in the history (5 in the code)

ASSUME PicturesAssumption == Keep \in Nat \ {0}

VARIABLES
  inDatabase, \* STELLA_BLOB_STORAGE=postgres: the pictures are rows
  history,    \* avatar_history, newest first; the head is avatar_url
  kept,       \* pictures whose bytes are stored
  sending     \* upload -> the picture it brings and the history it has read

pictureVars == <<inDatabase, history, kept, sending>>

Still == [pic |-> <<>>, past |-> <<>>]

PicturesInit ==
  /\ inDatabase \in BOOLEAN
  /\ history = <<>> /\ kept = {}
  /\ sending = [s \in Senders |-> Still]

Idle(s) == sending[s] = Still
Unnamed == {p \in Pictures : /\ p \notin ToSet(history) \cup kept
                             /\ \A s \in Senders : p \notin ToSet(sending[s].pic \o sending[s].past)}

\* With the pictures in the database the user's row is locked before its history
\* is read.  Otherwise the history is the one the request began with, and the
\* file is written before.
OwnerRowUnlocked == TRUE  \* the row is read without FOR UPDATE
OwnerRowFree == inDatabase => \A s \in Senders : Idle(s)

ReadHistory(s) ==
  /\ Idle(s) /\ OwnerRowFree
  /\ \E p \in Unnamed :
       /\ sending' = [sending EXCEPT ![s] = [pic |-> <<p>>, past |-> history]]
       /\ kept' = IF inDatabase THEN kept ELSE kept \cup {p}
  /\ UNCHANGED <<inDatabase, history>>

\* pick_avatar: one of the history comes to its head (list.remove and insert).
Pick(s) ==
  /\ Idle(s) /\ OwnerRowFree
  /\ \E i \in DOMAIN history :
       sending' = [sending EXCEPT ![s] = [pic |-> <<>>, past |-> <<history[i]>> \o RemoveAt(history, i)]]
  /\ UNCHANGED <<inDatabase, history, kept>>

Queued(s) == sending[s].pic \o sending[s].past
NewestOneMore(q) == IF Len(q) <= Keep + 1 THEN q ELSE SubSeq(q, 1, Keep + 1)
Newest(q) == IF Len(q) <= Keep THEN q ELSE SubSeq(q, 1, Keep)
Beyond(q) == ToSet(q) \ ToSet(Newest(q))

WriteHistory(s) ==
  /\ ~Idle(s)
  /\ history' = Newest(Queued(s))
  /\ kept' = (kept \cup ToSet(sending[s].pic)) \ Beyond(Queued(s))
  /\ sending' = [sending EXCEPT ![s] = Still]
  /\ UNCHANGED inDatabase

\* A file too large, or the process stops: a plain file stays on disk.
GivesUp(s) ==
  /\ ~Idle(s)
  /\ sending' = [sending EXCEPT ![s] = Still]
  /\ UNCHANGED <<inDatabase, history, kept>>

PicturesNext == \E s \in Senders : ReadHistory(s) \/ Pick(s) \/ WriteHistory(s) \/ GivesUp(s)

PicturesSpec == PicturesInit /\ [][PicturesNext]_pictureVars

-----------------------------------------------------------------------------
PicturesTypeOK ==
  /\ inDatabase \in BOOLEAN
  /\ history \in BoundedSeq(Pictures, Keep) /\ kept \subseteq Pictures
  /\ sending \in [Senders -> [pic : BoundedSeq(Pictures, 1), past : BoundedSeq(Pictures, Keep)]]

\* Every picture of the history can be shown, although each upload removes the
\* ones that fall out of it and uploads run at the same time (with the pictures
\* in the database: plain files have no such lock).
PicturesShown == inDatabase => ToSet(history) \subseteq kept
=============================================================================
