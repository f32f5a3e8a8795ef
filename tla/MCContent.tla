------------------------------ MODULE MCContent ------------------------------
(* Instances of the modules of notes and media for TLC. They share no state: *)
(* a behaviour lets one of them move and keeps the others where they start.  *)
EXTENDS DocumentTree, DocumentText, NoteImports, Attachments, ProfilePictures,
        BlobCache, BackgroundMedia, TLC

CONSTANTS c1, c2, c3

VARIABLE area

ContentInit ==
  /\ TreeInit /\ TextInit /\ ImportsInit /\ FilesInit /\ PicturesInit
  /\ CacheInit /\ MediaInit
  /\ area \in {"tree", "text", "imports", "files", "pictures", "cache", "media"}
  /\ area # "text" => text = {}
  /\ area # "files" => shared
  /\ area # "pictures" => inDatabase

\* One object takes half as much as each of the others.
CacheCost == c1 :> 1 @@ c2 :> 2 @@ c3 :> 2

ContentNext ==
  \/ /\ area = "tree" /\ TreeNext
     /\ UNCHANGED <<area, textVars, importVars, fileVars, pictureVars, cacheVars, mediaVars>>
  \/ /\ area = "text" /\ TextNext
     /\ UNCHANGED <<area, treeVars, importVars, fileVars, pictureVars, cacheVars, mediaVars>>
  \/ /\ area = "imports" /\ ImportsNext
     /\ UNCHANGED <<area, treeVars, textVars, fileVars, pictureVars, cacheVars, mediaVars>>
  \/ /\ area = "files" /\ FilesNext
     /\ UNCHANGED <<area, treeVars, textVars, importVars, pictureVars, cacheVars, mediaVars>>
  \/ /\ area = "pictures" /\ PicturesNext
     /\ UNCHANGED <<area, treeVars, textVars, importVars, fileVars, cacheVars, mediaVars>>
  \/ /\ area = "cache" /\ CacheNext
     /\ UNCHANGED <<area, treeVars, textVars, importVars, fileVars, pictureVars, mediaVars>>
  \/ /\ area = "media" /\ MediaNext
     /\ UNCHANGED <<area, treeVars, textVars, importVars, fileVars, pictureVars, cacheVars>>

ContentSpec ==
  ContentInit /\ [][ContentNext]_<<area, treeVars, textVars, importVars, fileVars, pictureVars, cacheVars, mediaVars>>

ContentTypeOK ==
  /\ TreeTypeOK /\ TextTypeOK /\ ImportsTypeOK /\ FilesTypeOK /\ PicturesTypeOK
  /\ CacheTypeOK /\ MediaTypeOK

SamePages == Permutations(Docs) \cup Permutations(Threads)
=============================================================================
