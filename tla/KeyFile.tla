------------------------------ MODULE KeyFile ------------------------------
(***************************************************************************)
(* The key of the tab passwords: FileKeyManager loads it from kv_tabs.key  *)
(* or creates the file at the start of the server, and the handlers of the *)
(* registry encrypt passwords with it.  The process may be killed between  *)
(* any two file operations, a file operation may fail, and the operator    *)
(* may remove the file while the server is down.                           *)
(*                                                                         *)
(* A key is the number of its draw.  Permissions, nonces and the reasons   *)
(* why a file cannot be read are left out.                                 *)
(***************************************************************************)
EXTENDS Naturals

CONSTANTS
  KeyTabs,    \* tabs with a password
  MaxKeys     \* bounds the keys that are drawn

ASSUME KeyAssumption == MaxKeys \in Nat

VARIABLES
  keyServer,  \* the start of the server, as far as the key goes
  keyFile,    \* the key in kv_tabs.key
  key,        \* the key the process has installed, or is about to
  drawn,      \* keys drawn so far
  cipher,     \* the key each stored password is encrypted with
  removed     \* history: keys whose file the operator removed

keyVars == <<keyServer, keyFile, key, drawn, cipher, removed>>

Drawn == 1..MaxKeys
NoKey == 0
ShortFile == MaxKeys + 1
NoKeyFile == MaxKeys + 2

KeyTypeOK ==
  /\ keyServer \in {"down", "create", "write", "up", "disabled"}
  /\ keyFile \in Drawn \cup {ShortFile, NoKeyFile}
  /\ key \in Drawn \cup {NoKey} /\ drawn \in 0..MaxKeys
  /\ cipher \in [KeyTabs -> Drawn \cup {NoKey}]
  /\ removed \subseteq Drawn

KeyInit ==
  /\ keyServer = "down" /\ keyFile = NoKeyFile
  /\ key = NoKey /\ drawn = 0
  /\ cipher = [t \in KeyTabs |-> NoKey]
  /\ removed = {}

-----------------------------------------------------------------------------

\* Without the key the server runs with the default cluster alone.
Disables == keyServer' = "disabled" /\ key' = NoKey

\* A file of another length is not replaced.  Reading it may fail, and so may making
\* the directory.
LoadKey ==
  /\ keyServer = "down"
  /\ \/ /\ keyFile \in Drawn
        /\ keyServer' = "up" /\ key' = keyFile
        /\ UNCHANGED drawn
     \/ /\ keyFile = NoKeyFile /\ drawn < MaxKeys
        /\ keyServer' = "create" /\ key' = drawn + 1 /\ drawn' = drawn + 1
     \/ Disables /\ UNCHANGED drawn
  /\ UNCHANGED <<keyFile, cipher, removed>>

CreateKeyFile ==
  /\ keyServer = "create"
  /\ \/ keyFile' = ShortFile /\ keyServer' = "write" /\ UNCHANGED key
     \/ Disables /\ UNCHANGED keyFile
  /\ UNCHANGED <<drawn, cipher, removed>>

InstallUnwritten ==
  /\ keyServer = "write"
  /\ keyFile' \in {key, ShortFile} /\ keyServer' = "up"
  /\ UNCHANGED <<key, drawn, cipher, removed>>

\* The key is installed only when it was written.  Closing the file may fail after it.
WriteKey ==
  /\ keyServer = "write"
  /\ \/ keyFile' = key /\ keyServer' = "up" /\ UNCHANGED key
     \/ Disables /\ keyFile' \in {ShortFile, key}
  /\ UNCHANGED <<drawn, cipher, removed>>

\* A POST or PATCH with a password stores it.
StorePassword(t) ==
  /\ keyServer = "up"
  /\ cipher' = [cipher EXCEPT ![t] = key]
  /\ UNCHANGED <<keyServer, keyFile, key, drawn, removed>>

KeyKill ==
  /\ keyServer # "down"
  /\ keyServer' = "down" /\ key' = NoKey
  /\ UNCHANGED <<keyFile, drawn, cipher, removed>>

RemoveKeyFile ==
  /\ keyServer = "down" /\ keyFile # NoKeyFile
  /\ keyFile' = NoKeyFile /\ removed' = removed \cup ({keyFile} \cap Drawn)
  /\ UNCHANGED <<keyServer, key, drawn, cipher>>

KeyNext ==
  \/ LoadKey \/ CreateKeyFile \/ WriteKey \/ KeyKill \/ RemoveKeyFile
  \/ \E t \in KeyTabs : StorePassword(t)

-----------------------------------------------------------------------------

(* No stored password depends on a key that is not on the disk, whenever     *)
(* the process is killed and whatever file operation fails: the next start  *)
(* that loads a key can decrypt all of them, but those whose key file the   *)
(* operator removed.                                                       *)
KeyOnDisk == \A t \in KeyTabs : cipher[t] \in {NoKey, keyFile} \cup removed
=============================================================================
