------------------------------ MODULE SaveFile ------------------------------
(***************************************************************************)
(* internal/cli writeFileAtomic: a file replaced by way of a temporary one *)
(* beside it and a rename.  Any of its system calls may fail, and the      *)
(* power may go between any two of them.                                   *)
(*                                                                         *)
(* What a process sees of a file, and what the disk would have of it after *)
(* a power cut, are two things: the bytes are on the disk once the file is *)
(* synced, and the name once its directory is.                             *)
(***************************************************************************)

CONSTANTS
  Torn      \* a file with only part of its bytes, or none of them

VARIABLES   \* the directory and the two files in it
  before,   \* what the destination held
  fresh,    \* what the temporary file holds, to a process
  synced,   \* are its bytes on the disk?
  named,    \* what the destination's name stands for: "before" or "fresh"
  recorded, \* and what the directory on the disk says of it
  temp      \* is the temporary name there?
VARIABLES   \* the call
  saving,   \* where it is
  data      \* what it is to write

files == <<before, fresh, synced, named, recorded, temp>>
saveVars == <<files, saving, data>>

\* What reading the destination yields.
Contents == IF named = "fresh" THEN fresh ELSE before

SaveInit(old) ==
  /\ before = old /\ fresh = Torn /\ synced = FALSE
  /\ named = "before" /\ recorded = "before" /\ temp = FALSE
  /\ saving = "idle" /\ data = old

BeginSave(d) ==
  /\ saving = "idle"
  /\ saving' = "create" /\ data' = d
  /\ UNCHANGED files

\* Whatever fails, the temporary name is removed.
Fail ==
  /\ saving \notin {"idle", "saved", "failed", "dead"}
  /\ saving' = "failed" /\ temp' = FALSE
  /\ UNCHANGED <<before, fresh, synced, named, recorded, data>>

CreateTemp ==
  /\ saving = "create"
  /\ saving' = "write" /\ temp' = TRUE /\ fresh' = Torn /\ synced' = FALSE
  /\ UNCHANGED <<before, named, recorded, data>>

WriteTemp ==
  /\ saving = "write"
  /\ saving' = "sync" /\ fresh' = data
  /\ UNCHANGED <<before, synced, named, recorded, temp, data>>

SyncTemp ==
  /\ saving = "sync"
  /\ saving' = "rename" /\ synced' = TRUE
  /\ UNCHANGED <<before, fresh, named, recorded, temp, data>>

RenameTemp ==
  /\ saving = "rename"
  /\ saving' = "syncdir" /\ named' = "fresh" /\ temp' = FALSE
  /\ UNCHANGED <<before, fresh, synced, recorded, data>>

\* Mutant of SyncDir: the rename is taken to be on the disk already.
SkipSyncDir ==
  /\ saving = "syncdir"
  /\ saving' = "saved"
  /\ UNCHANGED <<before, fresh, synced, named, recorded, temp, data>>

SyncDir ==
  /\ saving = "syncdir"
  /\ saving' = "saved" /\ recorded' = named
  /\ UNCHANGED <<before, fresh, synced, named, temp, data>>

\* The disk keeps what was synced, and any part of what was not.
PowerCut ==
  /\ saving # "dead"
  /\ saving' = "dead"
  /\ named' \in {named, recorded} /\ recorded' = named'
  /\ fresh' \in {fresh} \cup (IF synced THEN {} ELSE {Torn})
  /\ UNCHANGED <<before, synced, temp, data>>

SaveStep == CreateTemp \/ WriteTemp \/ SyncTemp \/ RenameTemp \/ SyncDir \/ Fail
=============================================================================
