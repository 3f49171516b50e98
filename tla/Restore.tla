------------------------------- MODULE Restore -------------------------------
(***************************************************************************)
(* Backup and restore (linkmoth_backup.py, --backup and --restore).        *)
(*                                                                         *)
(* The database is a main file and its write-ahead log; what a reader sees *)
(* is the two together.  A restore prepares a scratch database, folds the  *)
(* log into the main file, moves the main file aside, deletes the          *)
(* sidecars, renames the scratch file into place and writes the settings;  *)
(* it may fail or die at every step.  The server runs before and after it, *)
(* never during it: the command asks systemctl and the database lock once, *)
(* at its start.  A database is the set of its records; -wal and -shm are  *)
(* one sidecar; a restored archive is the newest one.  A main file that    *)
(* SQLite cannot read is one whose log cannot be folded in.                *)
(***************************************************************************)
EXTENDS Naturals, Sequences, SequencesExt

CONSTANTS
    Records,        \* records the server writes
    Secrets,        \* those of them that a snapshot leaves out
    Settings,       \* the settings, each 0 or 1
    Carried,        \* those of them that an archive carries: no credential, no webhook
    Flags,          \* those of them that need a credential
    MaxKept,        \* bound: databases kept aside
    NoFile

ASSUME RestoreAssumption ==
    /\ Secrets \subseteq Records /\ Flags \subseteq Carried /\ Carried \subseteq Settings
    /\ MaxKept \in Nat /\ \A db \in SUBSET Records : db # NoFile

VARIABLES
    main, wal,      \* state.db, and state.db-wal with its -shm
    kept,           \* the .pre-restore-<second> files, oldest first
    conf,           \* settings.json
    archive,        \* the newest complete archive, or NoFile
    server,         \* the service runs
    step,           \* where the restore command is
    before,         \* history: database, log and settings when the restore began
    unfolded,       \* history: its checkpoint failed
    owed,           \* history: databases that restores have moved aside
    outcome         \* history: how the last restore ended

restoreFiles == <<main, wal, kept, conf, archive>>
restoreVars == <<restoreFiles, server, step, before, unfolded, owed, outcome>>

\* What a connection would read.
Live == IF main = NoFile THEN NoFile ELSE main \cup wal

\* What it would have read when the restore began, and whether that found a
\* log without its database.
Previous == IF before.file = NoFile THEN NoFile ELSE before.file \cup before.log
Stray == before.file = NoFile /\ before.log # {}

Aside == ToSet(kept)

-----------------------------------------------------------------------------
(* The server, and backups.                                                *)

\* The histories of a restore, until the database is used again.
NoHistory == [file |-> NoFile, log |-> {}, conf |-> [k \in Settings |-> 0]]
Used == before' = NoHistory /\ unfolded' = FALSE /\ outcome' = "none"

\* init_db: a missing file is created; SQLite discards a log that has no
\* database to belong to.
InitDb == IF main = NoFile THEN main' = {} /\ wal' = {} ELSE UNCHANGED <<main, wal>>

\* The service starts; nobody starts it while a restore runs.
ServerStart ==
    /\ ~server /\ step = "idle"
    /\ InitDb /\ server' = TRUE /\ Used
    /\ UNCHANGED <<kept, conf, archive, step, owed>>

\* A committed transaction is in the log until a checkpoint.
ServerWrite ==
    /\ server
    /\ \/ \E r \in Records \ Live : wal' = wal \cup {r} /\ UNCHANGED main
       \/ wal # {} /\ main' = Live /\ wal' = {}
    /\ UNCHANGED <<kept, conf, archive, server, step, before, unfolded, owed, outcome>>

\* The service stops, cleanly or not.
ServerStop ==
    /\ server /\ server' = FALSE
    /\ UNCHANGED <<restoreFiles, step, before, unfolded, owed, outcome>>

Sanitized(db) == db \ Secrets

\* _sanitize_backup_settings: what needs a credential is switched off.
SanitizedSettings(c) == [k \in Carried |-> IF k \in Flags THEN 0 ELSE c[k]]

\* build_backup_archive_to_path: a snapshot of the live database and the
\* settings, both sanitized; one at a time, and never while a restore runs.
BackupCreate ==
    /\ step = "idle" /\ InitDb /\ Used
    /\ archive' = [db |-> Sanitized(main' \cup wal'), conf |-> SanitizedSettings(conf)]
    /\ UNCHANGED <<kept, conf, server, step, owed>>

\* The dashboard changes a setting.
ChangeSettings ==
    /\ server /\ \E k \in Settings : conf' = [conf EXCEPT ![k] = 1 - @]
    /\ UNCHANGED <<main, wal, kept, archive, server, step, before, unfolded, owed, outcome>>

-----------------------------------------------------------------------------
(* The restore command.                                                    *)

\* backup_restore: the service is stopped, and there is an archive.
MayRestore == ~server /\ archive # NoFile

\* The archive, its settings and its database are checked, the database is
\* found free and a scratch copy is migrated; what fails here ends the
\* command with nothing touched.  (SQLite may fold the log already when that
\* check disconnects; the model leaves it to FoldLog.)
Prepare ==
    /\ step = "idle" /\ MayRestore /\ Len(kept) < MaxKept
    /\ \/ step' = "fold" /\ outcome' = "none"
       \/ step' = "idle" /\ outcome' = "refused"
    /\ before' = [file |-> main, log |-> wal, conf |-> conf]
    /\ unfolded' = FALSE
    /\ UNCHANGED <<restoreFiles, server, owed>>

\* Mutant of FoldLog: the log is not folded in.
FoldLogNot ==
    /\ step = "fold" /\ step' = "aside"
    /\ UNCHANGED <<restoreFiles, server, before, unfolded, owed, outcome>>

\* PRAGMA wal_checkpoint(TRUNCATE) on the live database.  Every error of the
\* database is passed over, a full disk or a lock as well as a file that
\* cannot be read: the log is then left as it is.
FoldLog ==
    /\ step = "fold" /\ step' = "aside"
    /\ \/ main # NoFile /\ main' = Live /\ wal' = {} /\ UNCHANGED unfolded
       \/ UNCHANGED <<main, wal>> /\ unfolded' = (main # NoFile)
    /\ UNCHANGED <<kept, conf, archive, server, before, owed, outcome>>

\* What a restore owes of the database it moves aside: the file, and all that
\* was committed, if the checkpoint did not fail.
Owes == {main} \cup (IF unfolded THEN {} ELSE {Previous})

\* The main file becomes the preserved copy, if there is one.  The copy is
\* named by the second: a restore within the same second as the last one
\* overwrites its copy, and what that one owed is lost with it.
MoveAside ==
    /\ step = "aside" /\ step' = "sidecars" /\ main' = NoFile
    /\ \/ main = NoFile /\ UNCHANGED <<kept, owed>>
       \/ main # NoFile /\ kept' = Append(kept, main) /\ owed' = owed \cup Owes
       \/ /\ main # NoFile /\ kept # <<>> /\ kept' = Append(Front(kept), main)
          /\ owed' = {db \in owed : ~ db \subseteq Last(kept)} \cup Owes
    /\ UNCHANGED <<wal, conf, archive, server, before, unfolded, outcome>>

\* Mutant of DropSidecars: the log of the old database stays.
DropSidecarsNot ==
    /\ step = "sidecars" /\ step' = "swap"
    /\ UNCHANGED <<restoreFiles, server, before, unfolded, owed, outcome>>

\* The sidecars go, folded in or not, but only beside a database that was
\* moved aside.
DropSidecars ==
    /\ step = "sidecars" /\ step' = "swap"
    /\ wal' = IF before.file = NoFile THEN wal ELSE {}
    /\ UNCHANGED <<main, kept, conf, archive, server, before, unfolded, owed, outcome>>

\* The preserved copy goes back.
PutBack ==
    IF before.file = NoFile THEN main' = NoFile /\ UNCHANGED kept
    ELSE main' = Last(kept) /\ kept' = Front(kept)

\* os.replace(scratch, state.db); an error puts the old file back and is raised.
Swap ==
    /\ step = "swap"
    /\ \/ main' = archive.db /\ step' = "settings" /\ UNCHANGED <<kept, outcome>>
       \/ PutBack /\ step' = "idle" /\ outcome' = "failed"
    /\ UNCHANGED <<wal, conf, archive, server, before, unfolded, owed>>

\* What the archive carries replaces the current settings, the others stay.
Merged == [k \in Settings |-> IF k \in Carried THEN archive.conf[k] ELSE conf[k]]

\* Mutant of ApplySettings: an error that is returned, not raised, is ignored.
ApplySettingsIgnoresErrors ==
    /\ step = "settings"
    /\ \/ conf' = Merged /\ step' = "idle" /\ outcome' = "restored"
       \/ step' = "idle" /\ outcome' = "restored" /\ UNCHANGED conf
    /\ UNCHANGED <<main, wal, kept, archive, server, before, unfolded, owed>>

\* apply_settings: validated again, merged, and the file replaced, or an error.
ApplySettings ==
    /\ step = "settings"
    /\ \/ conf' = Merged /\ step' = "idle" /\ outcome' = "restored"
       \/ step' = "rollback" /\ UNCHANGED <<conf, outcome>>
    /\ UNCHANGED <<main, wal, kept, archive, server, before, unfolded, owed>>

\* _rollback_live_database, first half: the restored files are deleted.
RollbackDelete ==
    /\ step = "rollback" /\ step' = "putback"
    /\ main' = NoFile /\ wal' = {}
    /\ UNCHANGED <<kept, conf, archive, server, before, unfolded, owed, outcome>>

\* Second half.
RollbackPutBack ==
    /\ step = "putback" /\ step' = "idle" /\ PutBack /\ outcome' = "failed"
    /\ UNCHANGED <<wal, conf, archive, server, before, unfolded, owed>>

\* The command dies; its scratch directory is left behind.
RestoreDies ==
    /\ step # "idle" /\ step' = "idle" /\ outcome' = "died"
    /\ UNCHANGED <<restoreFiles, server, before, unfolded, owed>>

RestoreInit ==
    /\ main = {} /\ wal = {} /\ kept = <<>> /\ conf = [k \in Settings |-> 0]
    /\ archive = NoFile /\ server = TRUE /\ step = "idle"
    /\ before = NoHistory /\ unfolded = FALSE
    /\ owed = {} /\ outcome = "none"

RestoreNext ==
    \/ ServerStart \/ ServerWrite \/ ServerStop \/ BackupCreate \/ ChangeSettings
    \/ Prepare \/ FoldLog \/ MoveAside \/ DropSidecars \/ Swap
    \/ ApplySettings \/ RollbackDelete \/ RollbackPutBack \/ RestoreDies

RestoreSpec == RestoreInit /\ [][RestoreNext]_restoreVars

-----------------------------------------------------------------------------
(* Properties.                                                             *)

\* Types of the files and of the command.
RestoreTypeOK ==
    /\ main \in (SUBSET Records) \cup {NoFile} /\ wal \subseteq Records
    /\ server \in BOOLEAN /\ conf \in [Settings -> {0, 1}]
    /\ kept \in Seq(SUBSET Records) /\ Len(kept) <= MaxKept
    /\ archive \in [db : SUBSET Records, conf : [Carried -> {0, 1}]] \cup {NoFile}
    /\ step \in {"idle", "fold", "aside", "sidecars", "swap", "settings", "rollback", "putback"}

\* What can be read at the database's path is the previous database or the
\* archived one, never a mix of the two.
OneDatabase == Live \in {Previous, NoFile} \cup (IF archive = NoFile THEN {} ELSE {archive.db})

\* While a restore runs, and wherever it dies, the path holds one database: no
\* log is ever beside a main file it does not belong to.  (A log that was
\* there without its main file when the command began is the exception below.)
NeverMixed == (step # "idle" \/ outcome = "died") /\ ~Stray => OneDatabase

\* The claim of restore_backup_archive: the swap is WAL-safe, whatever the
\* restore found.
WalSafe == step # "idle" \/ outcome = "died" => OneDatabase

\* A database that a restore has moved aside is at the path again or in a
\* preserved copy, complete with what only its log held.  Two exceptions, both
\* of the code's making: when the checkpoint failed only the main file is owed
\* (CopyIsComplete), and what a restore within the same second overwrites is
\* owed no more (NothingOverwritten).
PreviousKept == \A db \in owed : \E f \in Aside \cup {Live} : f # NoFile /\ db \subseteq f

\* A restore that ends has done all of its work or none of it: the archived
\* database and its settings over the present ones, or the previous database
\* and settings.  After a failed checkpoint the previous database comes back
\* without its log (RollbackIsExact).
AllOrNothing ==
    [][ /\ outcome' = "restored" /\ step # step' /\ ~Stray =>
              /\ Live' = archive.db
              /\ \A k \in Settings : conf'[k] = IF k \in Carried THEN archive.conf[k] ELSE before.conf[k]
        /\ outcome' = "failed" /\ step # step' /\ ~Stray =>
              Live' = (IF unfolded THEN before.file ELSE Previous) /\ conf' = before.conf ]_restoreVars

\* What ADVANCED.md:733-735 says, and no run checks: the preserved copy is the
\* complete database, nothing preserved is discarded; and ADVANCED.md:728 and
\* _rollback_live_database: what fails leaves the exact previous database.
\* Each is violated after a checkpoint that fails, or within one second.
CopyIsComplete == step = "sidecars" /\ before.file # NoFile => Last(kept) = Previous
NothingOverwritten == [][step = "aside" => IsPrefix(kept, kept')]_restoreVars
RollbackIsExact == [][outcome' = "failed" /\ step # step' /\ ~Stray => Live' = Previous]_restoreVars
=============================================================================
