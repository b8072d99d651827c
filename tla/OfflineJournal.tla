---------------------------- MODULE OfflineJournal ----------------------------
(***************************************************************************)
(* The LittleFS journal of the offline cache: history.bin, which samples   *)
(* are appended to, and history.next, the scratch file a rewrite goes      *)
(* through.  Each call that changes the file system is a step of its own,  *)
(* so that a power loss can fall between any two of them.                  *)
(*                                                                         *)
(* A file is its records up to the first byte that is not a valid record,  *)
(* and whether such a byte exists: every reader stops there, so what lies  *)
(* behind it cannot be told apart from nothing.                            *)
(***************************************************************************)
EXTENDS Naturals, Sequences

CONSTANTS
  MaxRecords,   \* MOT_OFFLINE_CACHE_MAX_BYTES / sizeof(CacheRecord)
  IoFaults      \* the file-system calls that may fail without a power loss

(* "append": a short write of a record.  "copy", "remove", "rename": the   *)
(* corresponding call while acknowledged records are removed, or at boot.  *)
(* "repair": any call while a damaged tail is cut off.                     *)
Faults == {"append", "copy", "remove", "rename", "repair"}

ASSUME JournalAssumption ==
  /\ MaxRecords \in Nat \ {0}
  /\ IoFaults \subseteq Faults

VARIABLES
  cacheFile,    \* CACHE_PATH, history.bin
  nextFile,     \* NEXT_PATH, history.next
  recordCount,  \* state.recordCount, in RAM
  step,         \* where the adapter is inside a journal operation
  skip,         \* records a rewrite leaves out; 0 when it repairs a tail
  caller        \* who runs the operation: "setup" or "ack"

journalVars == <<cacheFile, nextFile, recordCount, step, skip, caller>>

FileOf(recs, torn) == [exists |-> TRUE, recs |-> recs, torn |-> torn]
NoFile == [exists |-> FALSE, recs |-> <<>>, torn |-> FALSE]

Steps == {"down", "recover", "scan", "open", "copy", "unlink", "rename",
          "done", "failed", "idle"}

JournalInit ==
  /\ cacheFile = NoFile
  /\ nextFile = NoFile
  /\ recordCount = 0
  /\ step = "down"
  /\ skip = 0
  /\ caller = "setup"

(* A rewrite that repairs a tail fails as "repair", one that removes       *)
(* acknowledged records as the call that failed.                           *)
MayFail(fault) == (IF skip = 0 THEN "repair" ELSE fault) \in IoFaults

-----------------------------------------------------------------------------
(* Mutant: the capacity check forgets the record it is about to write.     *)
AppendRecordUnchecked(sample) ==
  /\ recordCount <= MaxRecords
  /\ cacheFile' = IF cacheFile.torn THEN cacheFile
                  ELSE FileOf(Append(cacheFile.recs, sample), FALSE)
  /\ recordCount' = recordCount + 1
  /\ UNCHANGED <<nextFile, step, skip, caller>>

(* append(): the record reaches the file only if nothing damaged lies      *)
(* before it, but the counter in RAM moves either way.                     *)
AppendRecord(sample) ==
  /\ recordCount < MaxRecords
  /\ cacheFile' = IF cacheFile.torn THEN cacheFile
                  ELSE FileOf(Append(cacheFile.recs, sample), FALSE)
  /\ recordCount' = recordCount + 1
  /\ UNCHANGED <<nextFile, step, skip, caller>>

(* A short write: droppedCount moves, a fragment stays behind.             *)
AppendShort ==
  /\ "append" \in IoFaults
  /\ recordCount < MaxRecords
  /\ cacheFile' = FileOf(cacheFile.recs, TRUE)
  /\ UNCHANGED <<nextFile, recordCount, step, skip, caller>>

(* Mutant: the boot takes any scratch file for a finished rewrite.         *)
RecoverScratch ==
  /\ step = "recover"
  /\ step' = "scan"
  /\ IF nextFile.exists THEN cacheFile' = nextFile /\ nextFile' = NoFile
                        ELSE UNCHANGED <<cacheFile, nextFile>>
  /\ UNCHANGED <<recordCount, skip, caller>>

(* recoverJournal(): a scratch file beside the journal is an unfinished    *)
(* rewrite; alone it is a finished one that was not renamed.               *)
RecoverJournal ==
  /\ step = "recover"
  /\ step' = "scan"
  /\ \/ /\ ~nextFile.exists
        /\ UNCHANGED <<cacheFile, nextFile>>
     \/ /\ nextFile.exists /\ cacheFile.exists
        /\ \/ nextFile' = NoFile
           \/ "remove" \in IoFaults /\ UNCHANGED nextFile
        /\ UNCHANGED cacheFile
     \/ /\ nextFile.exists /\ ~cacheFile.exists
        /\ \/ cacheFile' = nextFile /\ nextFile' = NoFile
           \/ "rename" \in IoFaults /\ UNCHANGED <<cacheFile, nextFile>>
  /\ UNCHANGED <<recordCount, skip, caller>>

(* scanJournal(): count the valid prefix, rewrite the file if it is        *)
(* followed by anything.                                                   *)
ScanJournal ==
  /\ step = "scan"
  /\ recordCount' = Len(cacheFile.recs)
  /\ skip' = 0
  /\ step' = IF cacheFile.torn THEN "open" ELSE "done"
  /\ UNCHANGED <<cacheFile, nextFile, caller>>

(* The rewrite shared by keepJournalPrefix() and removeAcknowledged().     *)
(* A failed repair is ignored by scanJournal(), a failed removal reported. *)
AbortRewrite == step' = IF skip = 0 THEN "done" ELSE "failed"

OpenNext ==
  /\ step = "open"
  /\ \/ cacheFile.exists /\ nextFile' = FileOf(<<>>, FALSE) /\ step' = "copy"
     \/ /\ ~cacheFile.exists \/ MayFail("copy")
        /\ nextFile' \in {nextFile, NoFile} /\ AbortRewrite
  /\ UNCHANGED <<cacheFile, recordCount, skip, caller>>

(* The loop can be seen part of the way through.                           *)
CopyPart ==
  /\ nextFile.recs = <<>>
  /\ \E n \in skip + 1 .. Len(cacheFile.recs) - 1 :
       nextFile' = FileOf(SubSeq(cacheFile.recs, skip + 1, n), FALSE)
  /\ UNCHANGED step

CopyFails ==
  /\ MayFail("copy") /\ AbortRewrite
  /\ \/ nextFile' = NoFile
     \/ MayFail("remove") /\ UNCHANGED nextFile

(* Mutant: the removal skips one record too many.                          *)
CopyOneTooFew ==
  /\ step = "copy"
  /\ \/ CopyPart \/ CopyFails
     \/ /\ \E torn \in {FALSE, cacheFile.torn /\ skip > 0} :
             nextFile' = FileOf(SubSeq(cacheFile.recs, skip + 2,
                                       Len(cacheFile.recs)), torn)
        /\ step' = "unlink"
  /\ UNCHANGED <<cacheFile, recordCount, skip, caller>>

(* The prefix loop copies valid records only; the removal loop copies      *)
(* whole chunks unseen, so a damaged tail may be carried over or, when it  *)
(* is shorter than a record, cut off.                                      *)
CopyRecords ==
  /\ step = "copy"
  /\ \/ CopyPart \/ CopyFails
     \/ /\ \E torn \in {FALSE, cacheFile.torn /\ skip > 0} :
             nextFile' = FileOf(SubSeq(cacheFile.recs, skip + 1,
                                       Len(cacheFile.recs)), torn)
        /\ step' = "unlink"
  /\ UNCHANGED <<cacheFile, recordCount, skip, caller>>

RemoveCache ==
  /\ step = "unlink"
  /\ \/ cacheFile' = NoFile /\ step' = "rename"
     \/ MayFail("remove") /\ AbortRewrite /\ UNCHANGED cacheFile
  /\ UNCHANGED <<nextFile, recordCount, skip, caller>>

(* Mutant: a removal ends with the rename, recordCount is not counted anew.*)
RenameWithoutScan ==
  /\ step = "rename"
  /\ \/ /\ cacheFile' = nextFile /\ nextFile' = NoFile
        /\ step' = "done"
     \/ MayFail("rename") /\ AbortRewrite /\ UNCHANGED <<cacheFile, nextFile>>
  /\ UNCHANGED <<recordCount, skip, caller>>

(* A removal scans the renamed file again, a repair is finished.           *)
RenameNext ==
  /\ step = "rename"
  /\ \/ /\ cacheFile' = nextFile /\ nextFile' = NoFile
        /\ step' = IF skip = 0 THEN "done" ELSE "scan"
     \/ MayFail("rename") /\ AbortRewrite /\ UNCHANGED <<cacheFile, nextFile>>
  /\ UNCHANGED <<recordCount, skip, caller>>

(* removeAcknowledged(count) begins.                                       *)
BeginRemoval(count) ==
  /\ step' = "open" /\ skip' = count /\ caller' = "ack"
  /\ UNCHANGED <<cacheFile, nextFile, recordCount>>

EndOperation ==
  /\ step' = "idle"
  /\ UNCHANGED <<cacheFile, nextFile, recordCount, skip, caller>>

JournalStep ==
  \/ RecoverJournal \/ ScanJournal \/ OpenNext
  \/ CopyRecords \/ RemoveCache \/ RenameNext

-----------------------------------------------------------------------------
(* Power is lost: the files stay, RAM does not.  A loss inside append()    *)
(* can leave a fragment of the record at the end of the file.              *)
JournalDown(torn) ==
  /\ cacheFile' = IF torn THEN FileOf(cacheFile.recs, TRUE) ELSE cacheFile
  /\ recordCount' = 0 /\ step' = "down" /\ skip' = 0 /\ caller' = "setup"
  /\ UNCHANGED nextFile

JournalUp ==
  /\ step = "down"
  /\ step' = "recover"
  /\ UNCHANGED <<cacheFile, nextFile, recordCount, skip, caller>>

(* c6OfflineCachePurge() removes the two files in this order.              *)
PurgeCacheFile ==
  /\ cacheFile' = NoFile
  /\ UNCHANGED <<nextFile, recordCount, step, skip, caller>>

PurgeNextFile ==
  /\ nextFile' = NoFile
  /\ recordCount' = 0
  /\ UNCHANGED <<cacheFile, step, skip, caller>>

(* The samples the next boot will find: recoverJournal(), then the valid   *)
(* prefix.                                                                 *)
SamplesIn(file) == {file.recs[i] : i \in DOMAIN file.recs}
Recoverable == SamplesIn(IF cacheFile.exists THEN cacheFile ELSE nextFile)
=============================================================================
