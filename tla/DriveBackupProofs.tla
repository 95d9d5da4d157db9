------------------------- MODULE DriveBackupProofs -------------------------
(***************************************************************************)
(* Backup and restore.  The types hold for any number of commands at once:  *)
(* what is written to a device or to Drive is a database and a secret at    *)
(* every point.  The three invariants hold for any number of commands one   *)
(* after the other, as the panel's disabled buttons intend.                 *)
(***************************************************************************)
EXTENDS DriveBackup, GoogleLogin, TLAPS

USE DriveAssumption

\* The pairs that files are made of.
LEMMA FileTypes ==
    /\ Nothing \in Files
    /\ \A s \in Secrets : NewDb(s) \in Db
    /\ \A x \in Files : /\ x.vault \in Db \cup {NoDb} /\ x.secret \in Secrets \cup {NoSecret}
                        /\ \A v \in Db \cup {NoDb} : [x EXCEPT !.vault = v] \in Files
                        /\ \A s \in Secrets \cup {NoSecret} : [x EXCEPT !.secret = s] \in Files
BY DEF Nothing, Files, NewDb, Db

\* The initial state.
LEMMA DriveTypesInit == Init => TypeOK
BY FileTypes DEF Init, TypeOK, Secrets, RestoreSteps

\* The end of a command.
LEMMA EndTypes ==
    ASSUME TypeOK, NEW t \in Tasks, End(t)
    PROVE  /\ got' \in [Tasks -> Files] /\ orig' \in [Tasks -> Files]
           /\ round' \in [Tasks -> {"restore", "rollback"}]
           /\ pc' = [pc EXCEPT ![t] = "idle"]
           /\ \A u \in Tasks \ {t} : got'[u] = got[u]
BY FileTypes DEF End, Goto, TypeOK

\* Every step keeps the types.
LEMMA DriveTypesNext == TypeOK /\ [Next]_vars => TypeOK'
<1> SUFFICES ASSUME TypeOK, [Next]_vars PROVE TypeOK'
  OBVIOUS
<1>t. TypeOK
  OBVIOUS
<1>1. ASSUME NEW t \in Tasks, StartBackup(t) \/ StartRestore(t) PROVE TypeOK'
  BY <1>t, <1>1, FileTypes DEF StartBackup, StartRestore, Found, Goto, device, TypeOK, RestoreSteps
<1>2. ASSUME NEW t \in Tasks, Snapshot(t) PROVE TypeOK'
  <2> DEFINE x == [vault |-> IF conn = "file" THEN file ELSE NoDb, secret |-> secret]
  <2>1. x \in Files
    BY <1>t, <1>2 DEF Snapshot, TypeOK, Files
  <2>2. got' = [got EXCEPT ![t] = x]
    BY <1>2 DEF Snapshot
  <2> HIDE DEF x
  <2> QED
    BY <1>t, <1>2, <2>1, <2>2 DEF Snapshot, Goto, device, TypeOK, RestoreSteps
<1>3. ASSUME NEW t \in Tasks, PutVault(t) PROVE TypeOK'
  <2>1. drive' \in Files
    BY <1>t, <1>3, FileTypes DEF PutVault, TypeOK, Files
  <2> QED
    BY <1>t, <1>3, <2>1 DEF PutVault, Goto, device, TypeOK, RestoreSteps
<1>4. ASSUME NEW t \in Tasks, PutSecret(t) PROVE TypeOK'
  <2>1. drive' \in Files
    BY <1>t, <1>4, FileTypes DEF PutSecret, TypeOK, Files
  <2> QED
    BY <1>t, <1>4, <2>1, EndTypes DEF PutSecret, device, TypeOK, RestoreSteps
<1>5. ASSUME NEW t \in Tasks, DownloadVault(t) PROVE TypeOK'
  <2>1. PICK v \in Db \cup {NoDb} : got' = [got EXCEPT ![t].vault = v]
    BY <1>t, <1>5, FileTypes DEF DownloadVault, TypeOK
  <2>2. got' \in [Tasks -> Files]
    BY <1>t, <2>1, FileTypes DEF TypeOK, Files
  <2> QED
    BY <1>t, <1>5, <2>2 DEF DownloadVault, Goto, device, TypeOK, RestoreSteps
<1>6. ASSUME NEW t \in Tasks, DownloadSecret(t) PROVE TypeOK'
  <2>1. got' \in [Tasks -> Files]
    BY <1>t, <1>6, FileTypes DEF DownloadSecret, TypeOK, Files
  <2> QED
    BY <1>t, <1>6, <2>1 DEF DownloadSecret, Goto, device, TypeOK, RestoreSteps
<1>7. ASSUME NEW t \in Tasks, EarlyError(t) PROVE TypeOK'
  BY <1>t, <1>7, EndTypes DEF EarlyError, device, TypeOK, RestoreSteps
<1>8. ASSUME NEW t \in Tasks, ReadVault(t) \/ ReadSecret(t) PROVE TypeOK'
  <2>1. orig' \in [Tasks -> Files]
    BY <1>t, <1>8, FileTypes DEF ReadVault, ReadSecret, TypeOK
  <2> QED
    BY <1>t, <1>8, <2>1 DEF ReadVault, ReadSecret, Goto, device, TypeOK,
                            RestoreSteps
<1>9. \A t \in Tasks : Pair(t) \in Files
  BY <1>t DEF Pair, TypeOK
<1>10. ASSUME NEW t \in Tasks,
              \/ Detach(t) \/ WriteVault(t) \/ WriteSecret(t) \/ Open(t) \/ InstallConn(t)
       PROVE  TypeOK'
  BY <1>t, <1>9, <1>10, FileTypes DEF Detach, WriteVault, WriteSecret, Open, InstallConn, Goto,
       device, TypeOK, RestoreSteps
<1>11. ASSUME NEW t \in Tasks, InstallKey(t) PROVE TypeOK'
  <2>1. vaultKey' \in Secrets \cup {NoSecret}
    BY <1>9, <1>11, FileTypes DEF InstallKey, UnlockedKey
  <2> QED
    BY <1>t, <1>11, <2>1, EndTypes DEF InstallKey, TypeOK, RestoreSteps
<1>12. ASSUME NEW t \in Tasks, Fails(t), pc[t] \in RestoreSteps
       PROVE  /\ pc' = [pc EXCEPT ![t] = "writeVault"] \/ pc' = [pc EXCEPT ![t] = "idle"]
              /\ round' \in [Tasks -> {"restore", "rollback"}]
              /\ got' \in [Tasks -> Files] /\ orig' \in [Tasks -> Files]
              /\ \A u \in Tasks : pc'[u] # "idle" => got'[u] = got[u]
  BY <1>t, <1>12, EndTypes DEF Fails, Goto, TypeOK
<1>13. ASSUME NEW t \in Tasks, WriteVaultFails(t) \/ WriteSecretFails(t) \/ OpenFails(t)
       PROVE  TypeOK'
  <2>1. Fails(t) /\ pc[t] \in RestoreSteps /\ UNCHANGED <<drive, other, conn, vaultKey>>
    BY <1>13 DEF WriteVaultFails, WriteSecretFails, OpenFails, RestoreSteps, device
  <2>2. file' \in Db \cup {NoDb} /\ secret' \in Secrets \cup {NoSecret}
    BY <1>t, <1>13 DEF WriteVaultFails, WriteSecretFails, OpenFails, device, TypeOK
  <2>3. harm' \subseteq {"rollback", "kill", "foreign", "fresh"}
    BY <1>t, <1>13 DEF WriteVaultFails, WriteSecretFails, OpenFails, Disturbed, TypeOK
  <2> QED
    BY <1>t, <1>12, <2>1, <2>2, <2>3 DEF TypeOK, RestoreSteps
<1>14. ASSUME NEW r \in Rows, Edit(r) PROVE TypeOK'
  <2>1. file' \in Db
    BY <1>t, <1>14 DEF Edit, TypeOK, Db
  <2> QED
    BY <1>t, <1>14, <2>1 DEF Edit, local, TypeOK
<1>15. CASE Lock
  BY <1>t, <1>15 DEF Lock, local, TypeOK, Secrets
<1>a. CASE AutoUnlock
  <2>1. UNCHANGED <<drive, other, conn, local>> /\ secret' \in Secrets
    BY <1>t, <1>a DEF AutoUnlock, TypeOK, Secrets
  <2>2. vaultKey' \in Secrets \cup {NoSecret} /\ harm' \subseteq {"rollback", "kill", "foreign", "fresh"}
    BY <1>t, <1>a, <2>1 DEF AutoUnlock, TypeOK
  <2>3. file' \in Db \cup {NoDb}
    BY <1>t, <1>a, <2>1, FileTypes DEF AutoUnlock, TypeOK
  <2> QED
    BY <1>t, <2>1, <2>2, <2>3 DEF local, TypeOK
<1>16. CASE Restart
  BY <1>t, <1>16, FileTypes DEF Restart, TypeOK, RestoreSteps
<1>17. CASE OtherPutsVault \/ OtherPutsSecret \/ OtherFails
  <2>1. drive' \in Files
    BY <1>t, <1>17, FileTypes DEF OtherPutsVault, OtherPutsSecret, OtherFails, TypeOK, Files, Secrets
  <2> QED
    BY <1>t, <1>17, <2>1 DEF OtherPutsVault, OtherPutsSecret, OtherFails, device, local, TypeOK,
         TypeOK
<1>18. CASE UNCHANGED vars
  BY <1>t, <1>18 DEF vars, device, local, TypeOK
<1> QED
  BY <1>1, <1>2, <1>3, <1>4, <1>5, <1>6, <1>7, <1>8, <1>10, <1>11, <1>13, <1>14, <1>15, <1>a, <1>16,
     <1>17, <1>18 DEF Next, Backup, Restore

\* No step leaves anything but a database, a secret or their absence behind: with
\* any number of commands at once.
THEOREM DriveTypes == Spec => []TypeOK
  BY DriveTypesInit, DriveTypesNext, PTL DEF Spec

-----------------------------------------------------------------------------
(* One command after the other                                             *)

\* What the buttons of GoogleBackupSection, disabled while a command runs, are for.
OneAtATime == \A s, t \in Tasks : pc[s] # "idle" /\ pc[t] # "idle" => s = t

Unharmed == harm \cap {"rollback", "kill"} = {}
Writing == {"writeVault", "writeSecret", "open", "installConn"}

\* While a restore writes, nothing else looks at the files: what it has written
\* is there (an empty secret may be replaced), and what it has opened opens with
\* the secret beside it.
FilesFit ==
    \A t \in Tasks :
        /\ pc[t] \in Writing => conn = "memory"
        /\ pc[t] \in {"writeSecret", "open"} => file = Pair(t).vault
        /\ pc[t] = "open" => secret = Pair(t).secret \/ Pair(t).secret = NoSecret
        /\ pc[t] \in {"installConn", "installKey"} => secret = Pair(t).secret
        /\ pc[t] \in {"installConn", "installKey"} => file # NoDb /\ file.key = secret

\* The originals that a rollback would write back fit, and as long as nothing
\* is being written so do the files.
DiskFits == conn = "file" /\ file # NoDb /\ file.key = secret
OriginalsFit ==
    Unharmed =>
        /\ (\A t \in Tasks : pc[t] \notin Writing) => DiskFits
        /\ \A t \in Tasks :
             /\ pc[t] \in {"readSecret", "detach"} => orig[t].vault # NoDb /\ orig[t].vault.key = secret
             /\ pc[t] = "detach" => orig[t].secret = secret
             /\ pc[t] \in {"installKey"} \cup Writing =>
                  orig[t].vault # NoDb /\ orig[t].vault.key = orig[t].secret

RestoreInv == FilesFit /\ OriginalsFit /\ KeyFitsDatabase

\* Nothing is under way at the start.
LEMMA RestoreInvInit == Init => RestoreInv
<1> SUFFICES ASSUME Init PROVE RestoreInv
  OBVIOUS
<1>1. file = NewDb(Own) /\ file \in Db /\ file.key = Own
  BY FileTypes DEF Init, NewDb, Secrets
<1> QED
  BY <1>1 DEF Init, RestoreInv, FilesFit, OriginalsFit, DiskFits, KeyFitsDatabase, Writing

\* The other commands are idle while one goes on.
LEMMA OthersIdle ==
    ASSUME TypeOK, OneAtATime, OneAtATime', NEW t \in Tasks, NEW p, Goto(t, p),
           pc[t] # "idle" \/ p # "idle"
    PROVE  pc'[t] = p /\ \A u \in Tasks \ {t} : pc[u] = "idle" /\ pc'[u] = "idle"
BY DEF TypeOK, OneAtATime, Goto

\* A step that leaves the files and the key alone.
LEMMA FilesKept ==
    ASSUME TypeOK, RestoreInv, OneAtATime, OneAtATime', NEW t \in Tasks,
           StartBackup(t) \/ Snapshot(t) \/ PutVault(t) \/ PutSecret(t) \/ StartRestore(t)
           \/ DownloadVault(t) \/ DownloadSecret(t) \/ EarlyError(t)
    PROVE  RestoreInv'
<1>1. PICK p : /\ Goto(t, p) /\ (pc[t] # "idle" \/ p # "idle")
               /\ pc[t] \notin {"detach", "installKey"} \cup Writing
               /\ p \notin {"readSecret", "detach", "installKey"} \cup Writing
  BY DEF StartBackup, Snapshot, PutVault, PutSecret, StartRestore, DownloadVault, DownloadSecret,
         EarlyError, End, Writing
<1>2. UNCHANGED <<file, secret, conn, vaultKey, harm>>
  BY DEF StartBackup, Snapshot, PutVault, PutSecret, StartRestore, DownloadVault, DownloadSecret,
         EarlyError, device
<1>3. pc'[t] = p /\ \A u \in Tasks \ {t} : pc[u] = "idle" /\ pc'[u] = "idle"
  BY <1>1, OthersIdle
<1>4. FilesFit'
  BY <1>1, <1>3 DEF FilesFit, Writing
<1>5. OriginalsFit'
  BY <1>1, <1>2, <1>3 DEF RestoreInv, OriginalsFit, Unharmed, DiskFits, Writing
<1>6. KeyFitsDatabase'
  BY <1>1, <1>2, <1>3 DEF RestoreInv, KeyFitsDatabase
<1> QED
  BY <1>4, <1>5, <1>6 DEF RestoreInv

\* A failing write or open: the rollback begins, or it fails too.
LEMMA FailureKept ==
    ASSUME TypeOK, RestoreInv, OneAtATime, OneAtATime', NEW t \in Tasks,
           WriteVaultFails(t) \/ WriteSecretFails(t) \/ OpenFails(t)
    PROVE  RestoreInv'
<1>1. Fails(t) /\ pc[t] \in Writing /\ UNCHANGED <<conn, vaultKey>>
  BY DEF WriteVaultFails, WriteSecretFails, OpenFails, device, Writing
<1>2. PICK p \in {"writeVault", "idle"} :
        /\ Goto(t, p)
        /\ p = "writeVault" => round[t] = "restore" /\ UNCHANGED orig
        /\ p = "idle" => round[t] = "rollback"
  BY <1>1 DEF Fails, End
<1>3. pc'[t] = p /\ \A u \in Tasks \ {t} : pc[u] = "idle" /\ pc'[u] = "idle"
  BY <1>1, <1>2, OthersIdle DEF Writing
<1>4. conn = "memory"
  BY <1>1 DEF RestoreInv, FilesFit
<1>5. FilesFit'
  BY <1>1, <1>2, <1>3, <1>4 DEF FilesFit, Writing
<1>6. KeyFitsDatabase'
  BY <1>1, <1>4 DEF KeyFitsDatabase
<1>7. ASSUME Unharmed PROVE /\ orig[t].vault # NoDb /\ orig[t].vault.key = orig[t].secret
                            /\ pc[t] = "open" /\ round[t] = "rollback" => Opens(t)
  BY <1>1, <1>7 DEF RestoreInv, OriginalsFit, FilesFit, Opens, Pair, Writing
<1>8. Unharmed' => Unharmed /\ p = "writeVault"
  <2>1. harm \subseteq harm'
    BY DEF WriteVaultFails, WriteSecretFails, OpenFails, Disturbed
  <2>2. ASSUME p = "idle", Unharmed PROVE "rollback" \in harm'
    BY <1>2, <1>7, <2>2 DEF WriteVaultFails, WriteSecretFails, OpenFails, Disturbed
  <2> QED
    BY <2>1, <2>2, <1>2 DEF Unharmed
<1>9. OriginalsFit'
  BY <1>2, <1>3, <1>7, <1>8 DEF OriginalsFit, Writing
<1> QED
  BY <1>5, <1>6, <1>9 DEF RestoreInv

\* The steps of a restore from reading the originals to installing the new
\* connection and key.
LEMMA RestoreKept ==
    ASSUME TypeOK, RestoreInv, OneAtATime, OneAtATime', NEW t \in Tasks,
           ReadVault(t) \/ ReadSecret(t) \/ Detach(t) \/ WriteVault(t) \/ WriteSecret(t)
           \/ Open(t) \/ InstallConn(t) \/ InstallKey(t)
    PROVE  RestoreInv'
<1> USE DEF RestoreInv
<1>t. TypeOK
  OBVIOUS
<1>p. PICK p : Goto(t, p) /\ pc[t] # "idle"
  BY DEF ReadVault, ReadSecret, Detach, WriteVault, WriteSecret, Open, InstallConn, InstallKey, End
<1>o. pc'[t] = p /\ \A u \in Tasks \ {t} : pc[u] = "idle" /\ pc'[u] = "idle"
  BY <1>p, OthersIdle
<1>h. UNCHANGED harm
  BY DEF ReadVault, ReadSecret, Detach, WriteVault, WriteSecret, Open, InstallConn, InstallKey
<1>k. got[t] \in Files /\ orig[t] \in Files
  BY <1>t DEF TypeOK
<1>1. CASE ReadVault(t)
  <2>1. pc[t] = "readVault" /\ pc'[t] = "readSecret" /\ UNCHANGED <<file, secret, conn, vaultKey>>
    BY <1>1, <1>t DEF ReadVault, Goto, TypeOK, device
  <2>2. orig'[t].vault = file
    BY <1>1, <1>t, <1>k DEF ReadVault, TypeOK, Files
  <2> QED
    BY <1>o, <1>h, <2>1, <2>2 DEF FilesFit, OriginalsFit, Unharmed, DiskFits, KeyFitsDatabase, Writing
<1>2. CASE ReadSecret(t)
  <2>1. pc[t] = "readSecret" /\ pc'[t] = "detach" /\ UNCHANGED <<file, secret, conn, vaultKey>>
    BY <1>2, <1>t DEF ReadSecret, Goto, TypeOK, device
  <2>2. orig'[t].secret = secret /\ orig'[t].vault = orig[t].vault
    BY <1>2, <1>t, <1>k DEF ReadSecret, TypeOK, Files
  <2> QED
    BY <1>o, <1>h, <2>1, <2>2 DEF FilesFit, OriginalsFit, Unharmed, DiskFits, KeyFitsDatabase, Writing
<1>3. CASE Detach(t)
  <2>1. /\ pc[t] = "detach" /\ pc'[t] = "writeVault" /\ conn' = "memory"
        /\ UNCHANGED <<file, secret, vaultKey, orig>>
    BY <1>3, <1>t DEF Detach, Goto, TypeOK
  <2> QED
    BY <1>o, <1>h, <2>1 DEF FilesFit, OriginalsFit, Unharmed, DiskFits, KeyFitsDatabase, Writing
<1>4. CASE WriteVault(t)
  <2>1. /\ pc[t] = "writeVault" /\ pc'[t] = "writeSecret" /\ file' = Pair(t).vault
        /\ UNCHANGED <<secret, conn, vaultKey, orig, round, got>>
    BY <1>4, <1>t DEF WriteVault, Goto, TypeOK
  <2> QED
    BY <1>o, <1>h, <2>1 DEF FilesFit, OriginalsFit, Unharmed, DiskFits, KeyFitsDatabase, Writing, Pair
<1>5. CASE WriteSecret(t)
  <2>1. /\ pc[t] = "writeSecret" /\ pc'[t] = "open" /\ secret' = Pair(t).secret
        /\ UNCHANGED <<file, conn, vaultKey, orig, round, got>>
    BY <1>5, <1>t DEF WriteSecret, Goto, TypeOK
  <2> QED
    BY <1>o, <1>h, <2>1 DEF FilesFit, OriginalsFit, Unharmed, DiskFits, KeyFitsDatabase, Writing, Pair
<1>6. CASE Open(t) \/ InstallConn(t)
  <2>1. /\ \/ pc[t] = "open" /\ pc'[t] = "installConn" /\ UNCHANGED conn /\ Opens(t)
           \/ pc[t] = "installConn" /\ pc'[t] = "installKey" /\ conn' = "file"
        /\ UNCHANGED <<file, secret, vaultKey, orig, round, got>>
    BY <1>6, <1>t DEF Open, InstallConn, Goto, TypeOK, device
  <2>2. Opens(t) => Pair(t).secret # NoSecret
    BY <1>t DEF Opens, TypeOK, Db
  <2> QED
    BY <1>o, <1>h, <2>1, <2>2
       DEF FilesFit, OriginalsFit, Unharmed, DiskFits, KeyFitsDatabase, Writing, Pair, Opens
<1>7. CASE InstallKey(t)
  <2>1. /\ pc[t] = "installKey" /\ pc'[t] = "idle" /\ vaultKey' = Pair(t).secret
        /\ UNCHANGED <<file, secret, conn>>
    BY <1>7, <1>t DEF InstallKey, UnlockedKey, End, Goto, TypeOK
  <2> QED
    BY <1>o, <1>h, <2>1 DEF FilesFit, OriginalsFit, Unharmed, DiskFits, KeyFitsDatabase, Writing, Pair
<1> QED
  BY <1>1, <1>2, <1>3, <1>4, <1>5, <1>6, <1>7

\* No step of a command, of the vault, of the other device or of the process
\* breaks it.
LEMMA RestoreInvNext ==
    TypeOK /\ RestoreInv /\ OneAtATime /\ OneAtATime' /\ [Next]_vars => RestoreInv'
<1> SUFFICES ASSUME TypeOK, RestoreInv, OneAtATime, OneAtATime', [Next]_vars PROVE RestoreInv'
  OBVIOUS
<1>1. ASSUME NEW r \in Rows, Edit(r) PROVE RestoreInv'
  <2>1. /\ conn = "file" /\ file \in Db /\ file' = [file EXCEPT !.rows[r] = vaultKey]
        /\ UNCHANGED <<secret, conn, vaultKey, local, harm>>
    BY <1>1 DEF Edit, TypeOK
  <2>2. file' # NoDb /\ file'.key = file.key
    <3>1. file' \in Db
      BY <1>1, <2>1 DEF Edit, TypeOK, Db
    <3> QED
      BY <2>1, <3>1 DEF Db
  <2>3. \A t \in Tasks : pc[t] \notin Writing
    BY <2>1 DEF RestoreInv, FilesFit
  <2> QED
    BY <2>1, <2>2, <2>3 DEF local, RestoreInv, FilesFit, OriginalsFit, Unharmed, DiskFits,
         KeyFitsDatabase, Writing, Pair
<1>2. CASE Lock
  BY <1>2 DEF Lock, local, RestoreInv, FilesFit, OriginalsFit, Unharmed, DiskFits, KeyFitsDatabase,
       Writing, Pair
<1>3. CASE AutoUnlock
  <2>1. /\ UNCHANGED <<conn, local>> /\ (secret # NoSecret => secret' = secret)
        /\ Unharmed' => Unharmed
        /\ conn = "memory" \/ file # NoDb => UNCHANGED file
    BY <1>3 DEF AutoUnlock, Unharmed
  <2>2. KeyFitsDatabase'
    <3>1. CASE UNCHANGED file /\ vaultKey' \in {vaultKey, file.key}
      BY <1>3, <2>1, <3>1 DEF AutoUnlock, local, RestoreInv, KeyFitsDatabase
    <3>2. ASSUME NEW s, file' = NewDb(s), vaultKey' = s PROVE vaultKey' = file'.key
      BY <3>2 DEF NewDb
    <3> QED
      BY <1>3, <3>1, <3>2 DEF AutoUnlock, Unlocks, KeyFitsDatabase
  <2>3. \A t \in Tasks : pc[t] \in {"installConn", "installKey"} => secret' = secret
    BY <2>1 DEF RestoreInv, FilesFit, TypeOK, Db
  <2>4. FilesFit'
    BY <2>1, <2>3 DEF local, RestoreInv, FilesFit, Pair, Writing
  <2>5. Unharmed /\ (\A t \in Tasks : pc[t] \notin Writing) => secret' = secret /\ file' = file
    BY <2>1 DEF RestoreInv, OriginalsFit, DiskFits, TypeOK, Db
  <2>6. Unharmed => \A t \in Tasks : pc[t] \in {"readSecret", "detach"} => secret' = secret
    BY <2>5 DEF OneAtATime, Writing
  <2>7. OriginalsFit'
    BY <2>1, <2>5, <2>6 DEF local, RestoreInv, OriginalsFit, DiskFits, Writing
  <2> QED
    BY <2>2, <2>4, <2>7 DEF RestoreInv
<1>4. CASE Restart
  <2>1. Unharmed' => Unharmed /\ \A t \in Tasks : pc[t] \notin Writing
    BY <1>4 DEF Restart, Unharmed, Writing, RestoreSteps
  <2> QED
    BY <1>4, <2>1 DEF Restart, RestoreInv, FilesFit, OriginalsFit, DiskFits, KeyFitsDatabase, Writing
<1>5. CASE OtherPutsVault \/ OtherPutsSecret \/ OtherFails
  BY <1>5 DEF OtherPutsVault, OtherPutsSecret, OtherFails, device, local, RestoreInv, FilesFit,
       OriginalsFit, Unharmed, DiskFits, KeyFitsDatabase, Writing, Pair
<1>6. CASE UNCHANGED vars
  BY <1>6 DEF vars, device, local, RestoreInv, FilesFit, OriginalsFit, Unharmed, DiskFits,
       KeyFitsDatabase, Writing, Pair
<1> QED
  BY <1>1, <1>2, <1>3, <1>4, <1>5, <1>6, FilesKept, FailureKept, RestoreKept DEF Next, Backup, Restore

\* Whenever no restore is under way, the database and the secret on disk fit and
\* the application works on them: restore_from_drive and its rollback happen
\* completely or not at all, for any number of rows and commands one after the
\* other, with edits, locks, unlocks and another device in between.
THEOREM RestoresWhole == Spec /\ []OneAtATime => []RestoreAllOrNothing
<1>1. RestoreInv => RestoreAllOrNothing
  BY DEF RestoreInv, OriginalsFit, RestoreAllOrNothing, Unharmed, DiskFits, Writing, RestoreSteps
<1> QED
  BY <1>1, DriveTypesInit, DriveTypesNext, RestoreInvInit, RestoreInvNext, PTL DEF Spec

\* The key in memory belongs to the database in use, also after failed rollbacks
\* and kills: no secret is encrypted with a key that the database does not open with.
THEOREM KeyFits == Spec /\ []OneAtATime => []KeyFitsDatabase
<1>1. RestoreInv => KeyFitsDatabase
  BY DEF RestoreInv
<1> QED
  BY <1>1, DriveTypesInit, DriveTypesNext, RestoreInvInit, RestoreInvNext, PTL DEF Spec

-----------------------------------------------------------------------------
(* A device alone with its account                                         *)

\* No other device has backed up, and this one has not begun anew.
Alone == {"foreign", "fresh"} \cap harm = {}

\* Then every database and every secret that is on Drive, on the disk or on its
\* way is this device's, except that a new secret may lie beside a database it does
\* not open; and then the vault is locked and nothing is backed up.
Owned(x) == /\ x.vault # NoDb => x.vault.key = Own
            /\ x.secret \in {NoSecret, Own}
AllOwned ==
    Alone =>
        /\ ~other /\ Owned(drive) /\ \A t \in Tasks : Owned(got[t])
        /\ file # NoDb => file.key = Own
        /\ \A t \in Tasks : orig[t].vault # NoDb => orig[t].vault.key = Own
        /\ vaultKey \in {NoSecret, Own}
        /\ conn = "file" /\ vaultKey # NoSecret => secret = Own
        /\ \A t \in Tasks : pc[t] = "snapshot" => secret = Own

\* Nothing is on Drive at the start.
LEMMA AllOwnedInit == Init => AllOwned
<1> SUFFICES ASSUME Init PROVE AllOwned
  OBVIOUS
<1>1. file.key = Own /\ Owned(Nothing)
  BY DEF Init, NewDb, Nothing, Owned
<1> QED
  BY <1>1 DEF Init, AllOwned, Owned

\* A command that ends leaves nothing behind.
LEMMA EndOwned ==
    ASSUME TypeOK, NEW t \in Tasks, End(t)
    PROVE  /\ pc'[t] = "idle" /\ \A u \in Tasks \ {t} : pc'[u] = pc[u]
           /\ (\A u \in Tasks : Owned(got[u])) => \A u \in Tasks : Owned(got'[u])
           /\ (\A u \in Tasks : orig[u].vault # NoDb => orig[u].vault.key = Own) =>
                 \A u \in Tasks : orig'[u].vault # NoDb => orig'[u].vault.key = Own
<1>1. Owned(Nothing) /\ Nothing.vault = NoDb
  BY DEF Nothing, Owned
<1>2. /\ got' = [got EXCEPT ![t] = Nothing] /\ orig' = [orig EXCEPT ![t] = Nothing]
      /\ pc' = [pc EXCEPT ![t] = "idle"]
  BY DEF End, Goto
<1> QED
  BY <1>1, <1>2 DEF TypeOK

\* Every step of a command that leaves the device's files alone.
LEMMA OwnedByCommands ==
    ASSUME TypeOK, AllOwned, NEW t \in Tasks, Alone',
           StartBackup(t) \/ Snapshot(t) \/ PutVault(t) \/ PutSecret(t) \/ StartRestore(t)
           \/ DownloadVault(t) \/ DownloadSecret(t) \/ EarlyError(t) \/ ReadVault(t) \/ ReadSecret(t)
    PROVE  AllOwned'
<1>t. TypeOK /\ drive \in Files /\ got[t] \in Files /\ orig[t] \in Files
  BY DEF TypeOK
<1>u. UNCHANGED <<other, file, secret, conn, vaultKey, harm>>
  BY DEF StartBackup, Snapshot, PutVault, PutSecret, StartRestore, DownloadVault, DownloadSecret,
         EarlyError, ReadVault, ReadSecret, device
<1>a. /\ ~other /\ Owned(drive) /\ \A u \in Tasks : Owned(got[u])
      /\ file # NoDb => file.key = Own
      /\ \A u \in Tasks : orig[u].vault # NoDb => orig[u].vault.key = Own
      /\ vaultKey \in {NoSecret, Own}
      /\ conn = "file" /\ vaultKey # NoSecret => secret = Own
      /\ \A u \in Tasks : pc[u] = "snapshot" => secret = Own
  BY <1>u DEF AllOwned, Alone
<1>1. CASE StartBackup(t) \/ StartRestore(t)
  <2>1. UNCHANGED <<drive, got, orig>> /\ secret = Own
    <3>1. SignedIn /\ UNCHANGED <<drive, got, orig>>
      BY <1>1 DEF StartBackup, StartRestore
    <3>2. vaultKey # NoSecret /\ conn = "file"
      BY <3>1, <1>t DEF SignedIn, TypeOK, Db
    <3> QED
      BY <3>1, <3>2, <1>a
  <2> QED
    BY <1>a, <1>u, <2>1 DEF AllOwned, Owned
<1>2. CASE Snapshot(t)
  <2> DEFINE x == [vault |-> IF conn = "file" THEN file ELSE NoDb, secret |-> secret]
  <2>1. Owned(x)
    BY <1>2, <1>a DEF Snapshot, Owned
  <2>2. got' = [got EXCEPT ![t] = x] /\ pc' = [pc EXCEPT ![t] = "putVault"] /\ UNCHANGED <<drive, orig>>
    BY <1>2 DEF Snapshot, Goto
  <2> HIDE DEF x
  <2>3. \A u \in Tasks : Owned(got'[u]) /\ (pc'[u] = "snapshot" => pc[u] = "snapshot")
    BY <2>1, <2>2, <1>t, <1>a DEF TypeOK
  <2> QED
    BY <1>a, <1>u, <2>2, <2>3 DEF AllOwned, Owned
<1>3. CASE PutVault(t)
  <2>1. Owned(drive') /\ UNCHANGED <<got, orig>>
    BY <1>3, <1>t, <1>a DEF PutVault, Owned, Files
  <2>2. \A u \in Tasks : pc'[u] = "snapshot" => pc[u] = "snapshot"
    BY <1>3, <1>t DEF PutVault, Goto, TypeOK
  <2> QED
    BY <1>a, <1>u, <2>1, <2>2 DEF AllOwned, Owned
<1>4. CASE PutSecret(t) \/ EarlyError(t)
  <2>1. Owned(drive')
    BY <1>4, <1>t, <1>a DEF PutSecret, EarlyError, Owned, Files
  <2>2. End(t)
    BY <1>4 DEF PutSecret, EarlyError
  <2>3. /\ \A u \in Tasks : Owned(got'[u])
        /\ \A u \in Tasks : orig'[u].vault # NoDb => orig'[u].vault.key = Own
        /\ \A u \in Tasks : pc'[u] = "snapshot" => pc[u] = "snapshot"
    BY <2>2, <1>t, <1>a, EndOwned
  <2> QED
    BY <1>a, <1>u, <2>1, <2>3 DEF AllOwned, Owned
<1>5. CASE DownloadVault(t) \/ DownloadSecret(t)
  <2>1. /\ \A u \in Tasks \ {t} : got'[u] = got[u]
        /\ got'[t].vault \in {got[t].vault, drive.vault, NoDb}
        /\ got'[t].secret \in {got[t].secret, drive.secret}
    BY <1>5, <1>t DEF DownloadVault, DownloadSecret, TypeOK, Files
  <2>2. \A u \in Tasks : Owned(got'[u])
    BY <2>1, <1>a DEF Owned
  <2>3. UNCHANGED <<drive, orig>> /\ \A u \in Tasks : pc'[u] = "snapshot" => pc[u] = "snapshot"
    BY <1>5, <1>t DEF DownloadVault, DownloadSecret, Goto, TypeOK
  <2> QED
    BY <1>a, <1>u, <2>2, <2>3 DEF AllOwned, Owned
<1>6. CASE ReadVault(t) \/ ReadSecret(t)
  <2>1. /\ \A u \in Tasks \ {t} : orig'[u] = orig[u]
        /\ orig'[t].vault \in {orig[t].vault, file}
    BY <1>6, <1>t DEF ReadVault, ReadSecret, TypeOK, Files
  <2>2. UNCHANGED <<drive, got>> /\ \A u \in Tasks : pc'[u] = "snapshot" => pc[u] = "snapshot"
    BY <1>6, <1>t DEF ReadVault, ReadSecret, Goto, TypeOK
  <2> QED
    BY <1>a, <1>u, <2>1, <2>2 DEF AllOwned, Owned
<1> QED
  BY <1>1, <1>2, <1>3, <1>4, <1>5, <1>6

\* The steps of a restore that write, open and install, and the failures there.
LEMMA OwnedByRestore ==
    ASSUME TypeOK, RestoreInv, AllOwned, OneAtATime, OneAtATime', NEW t \in Tasks,
           Alone',
           Detach(t) \/ WriteVault(t) \/ WriteSecret(t) \/ Open(t) \/ WriteVaultFails(t)
           \/ WriteSecretFails(t) \/ OpenFails(t) \/ InstallConn(t) \/ InstallKey(t)
    PROVE  AllOwned'
<1>t. TypeOK
  OBVIOUS
<1>h. Alone
  BY DEF Alone, Detach, WriteVault, WriteSecret, Open, WriteVaultFails, WriteSecretFails, OpenFails,
         InstallConn, InstallKey, Disturbed
<1>a. /\ ~other /\ Owned(drive) /\ \A u \in Tasks : Owned(got[u])
      /\ file # NoDb => file.key = Own
      /\ \A u \in Tasks : orig[u].vault # NoDb => orig[u].vault.key = Own
      /\ vaultKey \in {NoSecret, Own}
      /\ conn = "file" /\ vaultKey # NoSecret => secret = Own
  BY <1>h DEF AllOwned
<1>1. UNCHANGED <<drive, other>> /\ (End(t) \/ UNCHANGED <<got, orig>>)
  BY DEF Detach, WriteVault, WriteSecret, Open, WriteVaultFails, WriteSecretFails, OpenFails,
         InstallConn, InstallKey, Fails, device
<1>2. /\ \A u \in Tasks : Owned(got'[u])
      /\ \A u \in Tasks : orig'[u].vault # NoDb => orig'[u].vault.key = Own
  BY <1>t, <1>a, <1>1, EndOwned
<1>3. PICK p : Goto(t, p) /\ p # "snapshot" /\ pc[t] # "idle"
  BY DEF Detach, WriteVault, WriteSecret, Open, WriteVaultFails, WriteSecretFails, OpenFails,
         InstallConn, InstallKey, Fails, End
<1>4. \A u \in Tasks : pc'[u] # "snapshot"
  BY <1>3, <1>t, OthersIdle
<1>5. file' # NoDb => file'.key = Own
  <2>1. file' \in {file, Pair(t).vault, NoDb}
    BY DEF Detach, WriteVault, WriteSecret, Open, WriteVaultFails, WriteSecretFails, OpenFails,
           InstallConn, InstallKey, device
  <2> QED
    BY <2>1, <1>a DEF Pair, Owned
<1>6. vaultKey' \in {NoSecret, Own} /\ (conn' = "file" /\ vaultKey' # NoSecret => secret' = Own)
  <2>1. CASE Detach(t)
    BY <2>1, <1>a DEF Detach
  <2>2. CASE \/ WriteVault(t) \/ WriteSecret(t) \/ Open(t) \/ WriteVaultFails(t)
             \/ WriteSecretFails(t) \/ OpenFails(t)
    <3>1. UNCHANGED <<conn, vaultKey>> /\ pc[t] \in Writing
      BY <2>2 DEF WriteVault, WriteSecret, Open, WriteVaultFails, WriteSecretFails, OpenFails,
                  device, Writing
    <3> QED
      BY <3>1, <1>a DEF RestoreInv, FilesFit
  <2>3. CASE InstallConn(t) \/ InstallKey(t)
    <3>1. /\ pc[t] \in {"installConn", "installKey"} /\ UNCHANGED <<file, secret>>
          /\ vaultKey' \in {vaultKey, Pair(t).secret}
      BY <2>3 DEF InstallConn, InstallKey, UnlockedKey
    <3>2. secret = Pair(t).secret /\ file # NoDb /\ file.key = secret
      BY <3>1 DEF RestoreInv, FilesFit
    <3> QED
      BY <3>1, <3>2, <1>a
  <2> QED
    BY <2>1, <2>2, <2>3
<1> QED
  BY <1>a, <1>1, <1>2, <1>4, <1>5, <1>6 DEF AllOwned, Owned

\* What belongs to the device stays its own.
LEMMA AllOwnedNext ==
    TypeOK /\ RestoreInv /\ AllOwned /\ OneAtATime /\ OneAtATime' /\ [Next]_vars => AllOwned'
<1> SUFFICES ASSUME TypeOK, RestoreInv, AllOwned, OneAtATime, OneAtATime', [Next]_vars,
                    Alone'
             PROVE  AllOwned'
  BY DEF AllOwned
<1>t. TypeOK /\ Own \in Secrets
  BY DEF Secrets
<1>1. ASSUME NEW r \in Rows, Edit(r) PROVE AllOwned'
  <2>1. file \in Db /\ file' = [file EXCEPT !.rows[r] = vaultKey]
    BY <1>1, <1>t DEF Edit, TypeOK
  <2>2. file'.key = file.key
    BY <2>1 DEF Db
  <2> QED
    BY <1>1, <1>t, <2>1, <2>2 DEF Edit, local, AllOwned, Alone, Owned
<1>2. CASE Lock
  BY <1>2 DEF Lock, local, AllOwned, Alone, Owned
<1>3. CASE AutoUnlock
  <2>1. Alone /\ (\A t \in Tasks : pc[t] = "snapshot" => secret = Own)
    BY <1>3 DEF AutoUnlock, AllOwned, Alone
  <2>2. \A t \in Tasks : pc[t] = "snapshot" => secret' = Own
    BY <1>3, <1>t, <2>1 DEF AutoUnlock
  <2>3. CASE UNCHANGED file /\ vaultKey' = IF Unlocks(secret') THEN secret' ELSE vaultKey
    BY <1>3, <2>1, <2>2, <2>3 DEF AutoUnlock, Unlocks, local, AllOwned, Alone, Owned
  <2>4. ASSUME file' = NewDb(secret'), vaultKey' = secret',
               harm' = IF secret' = Own THEN harm ELSE harm \cup {"fresh"}
        PROVE  AllOwned'
    <3>1. secret' = Own
      BY <2>4 DEF Alone
    <3>2. file'.key = Own
      BY <2>4, <3>1 DEF NewDb
    <3> QED
      BY <1>3, <2>1, <2>2, <2>4, <3>1, <3>2 DEF AutoUnlock, local, AllOwned, Alone, Owned
  <2> QED
    BY <1>3, <2>3, <2>4 DEF AutoUnlock
<1>4. CASE Restart
  <2>1. Owned(Nothing) /\ Nothing.vault = NoDb
    BY DEF Owned, Nothing
  <2>2. Alone
    BY <1>4 DEF Restart, Alone
  <2> QED
    BY <1>4, <2>1, <2>2 DEF Restart, AllOwned, Owned
<1>5. CASE OtherPutsVault \/ OtherPutsSecret \/ OtherFails
  BY <1>5 DEF OtherPutsVault, OtherPutsSecret, OtherFails, device, local, AllOwned, Alone, Owned
<1>6. CASE UNCHANGED vars
  BY <1>6 DEF vars, device, local, AllOwned, Alone, Owned
<1> QED
  BY <1>1, <1>2, <1>3, <1>4, <1>5, <1>6, OwnedByCommands, OwnedByRestore DEF Next, Backup, Restore

\* On a device alone with its account the copy on Drive can always be restored,
\* also between the two uploads of a backup, after failed rollbacks and after kills.
THEOREM CopyRestorable == Spec /\ []OneAtATime => []DriveRestorable
<1>1. AllOwned => DriveRestorable
  BY DEF AllOwned, Alone, Owned, DriveRestorable
<1> QED
  BY <1>1, DriveTypesInit, DriveTypesNext, RestoreInvInit, RestoreInvNext, AllOwnedInit, AllOwnedNext,
     PTL DEF Spec

-----------------------------------------------------------------------------
(* Signing in: no login leaves its cancel sender behind                     *)

USE LoginAssumption

\* The sender in the slot belongs to a login that has not taken the slot yet.
SenderPending ==
    slot # NoLogin => loginPc[slot] \in {"waiting", "exchange", "returned"}

LoginInv == LoginTypeOK /\ SenderPending

\* Nobody has signed in when the application starts.
LEMMA LoginInvInit == LoginInit => LoginInv
BY DEF LoginInit, LoginInv, LoginTypeOK, SenderPending

\* Each step of a login, Cancel and Sign out keep it.
LEMMA LoginInvNext == LoginInv /\ [LoginNext]_loginVars => LoginInv'
<1> SUFFICES ASSUME LoginInv, [LoginNext]_loginVars PROVE LoginInv'
  OBVIOUS
<1> USE DEF LoginInv, LoginTypeOK, SenderPending
<1>1. ASSUME NEW l \in Logins, Login(l) PROVE LoginInv'
  BY <1>1 DEF Login
<1>2. ASSUME NEW l \in Logins, Redirected(l) PROVE LoginInv'
  BY <1>2 DEF Redirected, Returns
<1>3. ASSUME NEW l \in Logins, TimedOut(l) PROVE LoginInv'
  BY <1>3 DEF TimedOut, Returns
<1>4. ASSUME NEW l \in Logins, CancelSeen(l) PROVE LoginInv'
  BY <1>4 DEF CancelSeen, Returns
<1>5. ASSUME NEW l \in Logins, ExchangeCode(l) PROVE LoginInv'
  BY <1>5 DEF ExchangeCode, Returns
<1>6. ASSUME NEW l \in Logins, TakeSlot(l) PROVE LoginInv'
  BY <1>6 DEF TakeSlot, SlotAfter, Continues
<1>7. ASSUME NEW l \in Logins, StoreToken(l) PROVE LoginInv'
  BY <1>7 DEF StoreToken
<1>8. CASE CancelLogin
  BY <1>8 DEF CancelLogin, Taken
<1>9. CASE Logout
  BY <1>9 DEF Logout
<1>10. CASE UNCHANGED loginVars
  BY <1>10 DEF loginVars
<1> QED
  BY <1>1, <1>2, <1>3, <1>4, <1>5, <1>6, <1>7, <1>8, <1>9, <1>10
     DEF LoginNext, Step

\* The inductive invariant holds of every behaviour.
THEOREM LoginInvariant == LoginSpec => []LoginInv
BY LoginInvInit, LoginInvNext, PTL DEF LoginSpec

\* When every login has ended, google_login_cancel is empty: cancel_login is
\* the no-op its comment promises, whatever logins overlapped.
THEOREM SenderGone == LoginSpec => []NoStaleSender
<1>1. LoginInv => NoStaleSender
  BY DEF LoginInv, LoginTypeOK, SenderPending, NoStaleSender
<1> QED
  BY <1>1, LoginInvariant, PTL
=============================================================================
