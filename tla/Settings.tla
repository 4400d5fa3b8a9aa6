------------------------------ MODULE Settings ------------------------------
(***************************************************************************)
(* The settings of one project in the filesystem, one file per key         *)
(* (src/services/api/internal/settings/fs.go, atomic.go).                  *)
(*                                                                         *)
(* Scopes makes a new FS for every call, so the mutex of one FS excludes   *)
(* nobody: what keeps a document whole is that it is written to a temporary*)
(* file and renamed.  The steps here are those two, for whoever takes them.*)
(*                                                                         *)
(* A key with several segments makes directories, and a segment may carry  *)
(* the extension of a document: "a" and "a.json/b" claim one path, for the *)
(* document of the first and for the directory of the second.              *)
(***************************************************************************)
EXTENDS Naturals, FiniteSets

CONSTANTS
  Keys,    \* keys that satisfy Key.Validate
  Docs,    \* documents that satisfy Document.Validate
  NoDoc,   \* the key holds nothing
  Inside   \* << a, b >>: b's directories include the path of a's document

ASSUME SettingsAssumption ==
  /\ NoDoc \notin Docs
  /\ Inside \subseteq Keys \X Keys
  /\ \A k \in Keys : << k, k >> \notin Inside

VARIABLES
  file,   \* the document in each key's file
  dirs,   \* the keys whose path is taken by a directory
  temps   \* how many temporary files lie beside each key's file

store == << file, dirs, temps >>

SettingsInit ==
  /\ file = [k \in Keys |-> NoDoc]
  /\ dirs = {}
  /\ temps = [k \in Keys |-> 0]

\* Set up to the rename.  A document where a directory has to be refuses it.
WriteTemp(k) ==
  /\ \A a \in Keys : << a, k >> \in Inside => file[a] = NoDoc
  /\ dirs' = dirs \cup {a \in Keys : << a, k >> \in Inside}
  /\ temps' = [temps EXCEPT ![k] = @ + 1]
  /\ UNCHANGED file

\* The rename.  A directory in the document's place refuses it.
Rename(k, d) ==
  /\ k \notin dirs
  /\ file' = [file EXCEPT ![k] = d]
  /\ temps' = [temps EXCEPT ![k] = @ - 1]
  /\ UNCHANGED dirs

\* A fault for the checks: what is taken away is the document.
FaultyDropTemp(k) ==
  /\ temps' = [temps EXCEPT ![k] = @ - 1]
  /\ file' = [file EXCEPT ![k] = NoDoc]
  /\ UNCHANGED dirs

\* Every failure after the temporary file was made takes it away again.
DropTemp(k) ==
  /\ temps' = [temps EXCEPT ![k] = @ - 1]
  /\ UNCHANGED << file, dirs >>

\* os.Remove takes what has the path, a document or an empty directory.
Empty(k) ==
  k \in dirs /\ \A b \in Keys : << k, b >> \in Inside => file[b] = NoDoc /\ temps[b] = 0

RemoveFile(k) ==
  /\ file[k] # NoDoc \/ Empty(k)
  /\ file' = [file EXCEPT ![k] = NoDoc]
  /\ dirs' = dirs \ {k}
  /\ UNCHANGED temps

\* Delete answers ErrNotFound when nothing has the path.
Missing(k) == file[k] = NoDoc /\ k \notin dirs

SettingsTypeOK ==
  /\ file \in [Keys -> Docs \cup {NoDoc}]
  /\ dirs \subseteq Keys
  /\ temps \in [Keys -> Nat]
=============================================================================
