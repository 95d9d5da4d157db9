---------------------------- MODULE DriveBackup ----------------------------
(***************************************************************************)
(* Backup to and restore from Google Drive (google/mod.rs, google/drive.rs *)
(* and the buttons of GoogleBackupSection.tsx), on one device that shares  *)
(* its Google account with another device.                                 *)
(*                                                                         *)
(* A database is its key (the secret its verifier opens with) and, for     *)
(* each row, the secret the row's ciphertext opens with.  backup_now and   *)
(* restore_from_drive are asynchronous commands: between two of their      *)
(* steps, other commands run, holding the database mutex for their whole   *)
(* duration.  The panel disables its buttons while a command runs, but     *)
(* forgets that when it is left and opened again: Tasks says how many      *)
(* commands may then run at once.                                          *)
(***************************************************************************)
EXTENDS Naturals, FiniteSets

CONSTANTS
    Rows,                 \* rows with a secret
    Tasks,                \* concurrent backup and restore commands
    Own, Other, Fresh,    \* secrets: this device's, the other's, a new one
    NoSecret, NoDb        \* an absent or empty file; an absent or broken database

Secrets == {Own, Other, Fresh}
Db == [key : Secrets, rows : [Rows -> Secrets \cup {NoSecret}]]
NewDb(s) == [key |-> s, rows |-> [r \in Rows |-> NoSecret]]

ASSUME DriveAssumption ==
    /\ Cardinality(Secrets) = 3 /\ NoSecret \notin Secrets /\ NoDb \notin Db

VARIABLES
    drive,     \* the two files of the appDataFolder
    other,     \* has the other device put its database, but not its secret?
    file,      \* vault.db
    secret,    \* .local_secret
    conn,      \* AppState.db: opened on the "file" or in "memory"
    vaultKey,  \* AppState.vault_key
    pc,        \* control point of each task
    round,     \* restore: is it writing the backup or rolling back?
    got,       \* the pair of files a task has downloaded or is uploading
    orig,      \* restore: the pair it read before it wrote anything
    harm       \* history: has a rollback failed too, was the process killed in
               \*   a restore, did the other device back up, was the database
               \*   made afresh under a secret that is not this device's first?

device == <<file, secret, conn, vaultKey>>
local == <<pc, round, got, orig>>
vars == <<drive, other, device, local, harm>>

Files == [vault : Db \cup {NoDb}, secret : Secrets \cup {NoSecret}]
Nothing == [vault |-> NoDb, secret |-> NoSecret]
RestoreSteps == {"readVault", "readSecret", "detach", "writeVault", "writeSecret",
                 "open", "installConn", "installKey"}

TypeOK ==
    /\ drive \in Files
    /\ other \in BOOLEAN
    /\ file \in Db \cup {NoDb}
    /\ secret \in Secrets \cup {NoSecret}
    /\ conn \in {"file", "memory"}
    /\ vaultKey \in Secrets \cup {NoSecret}
    /\ pc \in [Tasks -> {"idle", "snapshot", "putVault", "putSecret",
                         "download", "downloadSecret"} \cup RestoreSteps]
    /\ round \in [Tasks -> {"restore", "rollback"}]
    /\ got \in [Tasks -> Files]
    /\ orig \in [Tasks -> Files]
    /\ harm \subseteq {"rollback", "kill", "foreign", "fresh"}

Init ==
    /\ drive = Nothing /\ other = FALSE
    /\ file = NewDb(Own) /\ secret = Own
    /\ conn = "file" /\ vaultKey = Own
    /\ pc = [t \in Tasks |-> "idle"]
    /\ round = [t \in Tasks |-> "restore"]
    /\ got = [t \in Tasks |-> Nothing] /\ orig = [t \in Tasks |-> Nothing]
    /\ harm = {}

Goto(t, p) == pc' = [pc EXCEPT ![t] = p]

\* A command ends, well or with an error; its locals are gone.
End(t) ==
    /\ Goto(t, "idle")
    /\ round' = [round EXCEPT ![t] = "restore"]
    /\ got' = [got EXCEPT ![t] = Nothing] /\ orig' = [orig EXCEPT ![t] = Nothing]

\* get_access_token: the refresh token is read from the vault; a version that
\* keeps it in memory.
TokenInMemory == TRUE
SignedIn == conn = "file" /\ file # NoDb /\ vaultKey = file.key

-----------------------------------------------------------------------------
\* backup_now
StartBackup(t) ==
    /\ pc[t] = "idle" /\ SignedIn
    /\ Goto(t, "snapshot")
    /\ UNCHANGED <<drive, other, device, round, got, orig, harm>>

\* snapshot_vault_bytes copies whatever database the connection is on; then
\* the secret file is read.
Snapshot(t) ==
    /\ pc[t] = "snapshot"
    /\ got' = [got EXCEPT ![t] = [vault |-> IF conn = "file" THEN file ELSE NoDb,
                                  secret |-> secret]]
    /\ Goto(t, "putVault")
    /\ UNCHANGED <<drive, other, device, round, orig, harm>>

PutVault(t) ==
    /\ pc[t] = "putVault"
    /\ drive' = [drive EXCEPT !.vault = got[t].vault]
    /\ Goto(t, "putSecret")
    /\ UNCHANGED <<other, device, round, got, orig, harm>>

PutSecret(t) ==
    /\ pc[t] = "putSecret"
    /\ drive' = [drive EXCEPT !.secret = got[t].secret]
    /\ End(t)
    /\ UNCHANGED <<other, device, harm>>

-----------------------------------------------------------------------------
\* restore_from_drive: both files have to be there.
Found == drive.vault # NoDb /\ drive.secret # NoSecret

StartRestore(t) ==
    /\ pc[t] = "idle" /\ SignedIn /\ Found
    /\ Goto(t, "download")
    /\ UNCHANGED <<drive, other, device, round, got, orig, harm>>

\* The body of the answer may be cut short.
DownloadVault(t) ==
    /\ pc[t] = "download"
    /\ \E v \in {drive.vault, NoDb} : got' = [got EXCEPT ![t].vault = v]
    /\ Goto(t, "downloadSecret")
    /\ UNCHANGED <<drive, other, device, round, orig, harm>>

DownloadSecret(t) ==
    /\ pc[t] = "downloadSecret"
    /\ got' = [got EXCEPT ![t].secret = drive.secret]
    /\ Goto(t, "readVault")
    /\ UNCHANGED <<drive, other, device, round, orig, harm>>

\* The network fails, or a file cannot be read: nothing has been written yet.
EarlyError(t) ==
    /\ pc[t] \in {"snapshot", "putVault", "putSecret", "download", "downloadSecret",
                  "readVault", "readSecret"}
    /\ End(t)
    /\ UNCHANGED <<drive, other, device, harm>>

ReadVault(t) ==
    /\ pc[t] = "readVault"
    /\ orig' = [orig EXCEPT ![t].vault = file]
    /\ Goto(t, "readSecret")
    /\ UNCHANGED <<drive, other, device, round, got, harm>>

ReadSecret(t) ==
    /\ pc[t] = "readSecret"
    /\ orig' = [orig EXCEPT ![t].secret = secret]
    /\ Goto(t, "detach")
    /\ UNCHANGED <<drive, other, device, round, got, harm>>

\* The connection is replaced by one in memory to release the file.
Detach(t) ==
    /\ pc[t] = "detach"
    /\ conn' = "memory"
    /\ Goto(t, "writeVault")
    /\ UNCHANGED <<drive, other, file, secret, vaultKey, round, got, orig, harm>>

\* What write_and_open_vault is called with.  A rollback that writes only the
\* database back.
PairNoSecret(t) == IF round[t] = "restore" THEN got[t]
                   ELSE [orig[t] EXCEPT !.secret = got[t].secret]
Pair(t) == IF round[t] = "restore" THEN got[t] ELSE orig[t]

WriteVault(t) ==
    /\ pc[t] = "writeVault"
    /\ file' = Pair(t).vault
    /\ Goto(t, "writeSecret")
    /\ UNCHANGED <<drive, other, secret, conn, vaultKey, round, got, orig, harm>>

WriteSecret(t) ==
    /\ pc[t] = "writeSecret"
    /\ secret' = Pair(t).secret
    /\ Goto(t, "open")
    /\ UNCHANGED <<drive, other, file, conn, vaultKey, round, got, orig, harm>>

\* open, init_schema and unlock with the secret in hand.
Opens(t) == file # NoDb /\ file.key = Pair(t).secret

Open(t) ==
    /\ pc[t] = "open" /\ Opens(t)
    /\ Goto(t, "installConn")
    /\ UNCHANGED <<drive, other, device, round, got, orig, harm>>

\* Err(e): the originals are written back; an error of that is ignored.
Fails(t) ==
    \/ /\ round[t] = "restore"
       /\ round' = [round EXCEPT ![t] = "rollback"]
       /\ Goto(t, "writeVault")
       /\ UNCHANGED <<got, orig>>
    \/ round[t] = "rollback" /\ End(t)

\* Reading or writing fails.
Disturbed(t) == harm' = IF round[t] = "rollback" THEN harm \cup {"rollback"} ELSE harm

\* A write stops with the file truncated.
WriteVaultFails(t) ==
    /\ pc[t] = "writeVault"
    /\ file' = NoDb
    /\ Fails(t)
    /\ UNCHANGED <<drive, other, secret, conn, vaultKey>>
    /\ Disturbed(t)

WriteSecretFails(t) ==
    /\ pc[t] = "writeSecret"
    /\ secret' = NoSecret
    /\ Fails(t)
    /\ UNCHANGED <<drive, other, file, conn, vaultKey>>
    /\ Disturbed(t)

OpenFails(t) ==
    /\ pc[t] = "open"
    /\ \/ ~Opens(t) /\ UNCHANGED harm
       \/ Opens(t) /\ Disturbed(t)
    /\ Fails(t)
    /\ UNCHANGED <<drive, other, device>>

\* The new connection and the new key are installed under two locks.
InstallConn(t) ==
    /\ pc[t] = "installConn"
    /\ conn' = "file"
    /\ Goto(t, "installKey")
    /\ UNCHANGED <<drive, other, file, secret, vaultKey, round, got, orig, harm>>

\* The key unlock returned; a version that keeps the key it had.
OldKey(t) == vaultKey
UnlockedKey(t) == Pair(t).secret

InstallKey(t) ==
    /\ pc[t] = "installKey"
    /\ vaultKey' = UnlockedKey(t)
    /\ End(t)
    /\ UNCHANGED <<drive, other, file, secret, conn, harm>>

-----------------------------------------------------------------------------
\* Any command that stores a secret: database mutex, then with_key.
Edit(r) ==
    /\ conn = "file" /\ file # NoDb /\ vaultKey # NoSecret
    /\ file' = [file EXCEPT !.rows[r] = vaultKey]
    /\ UNCHANGED <<drive, other, secret, conn, vaultKey, local, harm>>

\* vault_lock of the idle timer.
Lock ==
    /\ vaultKey # NoSecret
    /\ vaultKey' = NoSecret
    /\ UNCHANGED <<drive, other, file, secret, conn, local, harm>>

\* The open database is one that the secret opens.
Unlocks(s) == conn = "file" /\ file # NoDb /\ file.key = s

\* vault_auto_unlock: an empty secret file is replaced before the database,
\* perhaps the one in memory, is looked at.  A database that a kill left empty
\* or absent is created anew under the secret, a broken one is not.  Fresh stands
\* for one new secret, so no second one is made once a database has it.
AutoUnlock ==
    LET s == IF secret = NoSecret THEN Fresh ELSE secret
    IN  /\ vaultKey = NoSecret
        /\ secret = NoSecret => "fresh" \notin harm
        /\ secret' = s
        /\ \/ /\ vaultKey' = IF Unlocks(s) THEN s ELSE vaultKey
              /\ UNCHANGED <<file, harm>>
           \/ /\ conn = "file" /\ file = NoDb
              /\ file' = NewDb(s) /\ vaultKey' = s
              /\ harm' = IF s = Own THEN harm ELSE harm \cup {"fresh"}
        /\ UNCHANGED <<drive, other, conn, local>>

\* The process ends, perhaps with the file truncated that it was writing, and is
\* started again; auto_unlock follows.
Restart ==
    /\ file' \in {file} \cup {NoDb : t \in {u \in Tasks : pc[u] = "writeVault"}}
    /\ secret' \in {secret} \cup {NoSecret : t \in {u \in Tasks : pc[u] = "writeSecret"}}
    /\ harm' = IF \E t \in Tasks : pc[t] \in RestoreSteps THEN harm \cup {"kill"} ELSE harm
    /\ conn' = "file" /\ vaultKey' = NoSecret
    /\ pc' = [t \in Tasks |-> "idle"]
    /\ round' = [t \in Tasks |-> "restore"]
    /\ got' = [t \in Tasks |-> Nothing] /\ orig' = [t \in Tasks |-> Nothing]
    /\ UNCHANGED <<drive, other>>

\* The other device's backup_now puts its own pair, a file at a time, unless
\* it fails in between.
OtherPutsVault ==
    /\ ~other
    /\ drive' = [drive EXCEPT !.vault = NewDb(Other)]
    /\ other' = TRUE /\ harm' = harm \cup {"foreign"}
    /\ UNCHANGED <<device, local>>

OtherPutsSecret ==
    /\ other
    /\ drive' = [drive EXCEPT !.secret = Other]
    /\ other' = FALSE
    /\ UNCHANGED <<device, local, harm>>

OtherFails ==
    /\ other
    /\ other' = FALSE
    /\ UNCHANGED <<drive, device, local, harm>>

Backup(t) == StartBackup(t) \/ Snapshot(t) \/ PutVault(t) \/ PutSecret(t)

Restore(t) ==
    \/ StartRestore(t) \/ DownloadVault(t) \/ DownloadSecret(t)
    \/ ReadVault(t) \/ ReadSecret(t) \/ Detach(t)
    \/ WriteVault(t) \/ WriteSecret(t) \/ Open(t)
    \/ WriteVaultFails(t) \/ WriteSecretFails(t) \/ OpenFails(t)
    \/ InstallConn(t) \/ InstallKey(t)

Next ==
    \/ \E t \in Tasks : Backup(t) \/ Restore(t) \/ EarlyError(t)
    \/ \E r \in Rows : Edit(r)
    \/ Lock \/ AutoUnlock \/ Restart
    \/ OtherPutsVault \/ OtherPutsSecret \/ OtherFails

Spec == Init /\ [][Next]_vars

-----------------------------------------------------------------------------
\* Whenever no restore is under way, the database and the secret on disk fit
\* and the application works on them: a restore that fails anywhere (a broken
\* download, a mismatched pair, a failed write) is undone completely, unless
\* the rollback fails too or the process is killed in the middle.
RestoreAllOrNothing ==
    /\ harm \cap {"rollback", "kill"} = {}
    /\ \A t \in Tasks : pc[t] \notin RestoreSteps
    => conn = "file" /\ file # NoDb /\ file.key = secret

\* The key in memory belongs to the database in use, except in the moment
\* between the two assignments at the end of a restore.
KeyFitsDatabase ==
    conn = "file" /\ file # NoDb /\ (\A t \in Tasks : pc[t] # "installKey") =>
        vaultKey \in {NoSecret, file.key}

\* The two files on Drive, if both are there, open with each other: on a device
\* alone with its account, a backup that stops between its uploads, failed
\* restores and rollbacks and kills at any point never spoil the copy meant to
\* survive them.  Excepted is a device that lost its database and its secret and
\* went on with new ones, as if it were another.
DriveRestorable ==
    /\ {"foreign", "fresh"} \cap harm = {}
    /\ drive.vault # NoDb /\ drive.secret # NoSecret
    => drive.vault.key = drive.secret
=============================================================================
