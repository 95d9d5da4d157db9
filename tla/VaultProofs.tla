---------------------------- MODULE VaultProofs ----------------------------
(***************************************************************************)
(* Proofs about Vault for any number of rows, launches and random values,  *)
(* with migrations that stop half-way and unreadable secret files.         *)
(***************************************************************************)
EXTENDS Vault, TLAPS, SequenceTheorems

USE VaultAssumption

\* Types of the vault's own variables: what the proofs about it need.
KeyTypes ==
    /\ todo \subseteq Rows
    /\ newKey \in Key \cup {NoKey}
    /\ fresh \in Nat
    /\ secret \in Nat
    /\ meta \in Key \cup {NoKey}
    /\ rows \in [Rows -> Key \cup {NoKey}]
    /\ vaultKey \in Key \cup {NoKey}
    /\ pc \in {"idle", "open", "migrate"}

\* A vault without verifier holds no secret; one under a local secret holds
\* only ciphertexts under its key; a legacy vault may be half migrated, but
\* has nothing in the tables the migration does not know.
RowsFit ==
    /\ meta = NoKey => \A r \in Rows : rows[r] = NoKey
    /\ meta # NoKey =>
         /\ meta.pw # 0 => \A r \in Rows : rows[r] \in {NoKey, meta}
         /\ meta.pw = 0 => \A r \in OtherRows \ (IdentityRows \cup SshKeyRows) :
                              rows[r] = NoKey

\* The key in memory is the verifier's, and never the legacy one.
KeyFits == vaultKey # NoKey => meta = vaultKey /\ vaultKey.pw # 0

\* A running auto_unlock has read a secret; a migration moves every row it
\* has passed from the legacy key to the new one.
MigrationFits ==
    /\ pc # "idle" => secret # 0
    /\ pc = "migrate" =>
         /\ meta # NoKey /\ meta.pw = 0
         /\ newKey # NoKey /\ newKey.pw = secret
         /\ \A r \in Rows \ todo : rows[r] \in {NoKey, newKey}

VaultInv == KeyTypes /\ RowsFit /\ KeyFits /\ MigrationFits

\* A new or a legacy vault is consistent.
LEMMA VaultInvInit == Init => VaultInv
  BY DEF Init, VaultInv, KeyTypes, RowsFit, KeyFits, MigrationFits, Key, LegacyKey, Rows

\* No step of auto_unlock, its migration, the commands or a kill breaks it.
LEMMA VaultInvNext == VaultInv /\ [Next]_vars => VaultInv'
<1> SUFFICES ASSUME VaultInv, [Next]_vars PROVE VaultInv'
  OBVIOUS
<1> USE DEF VaultInv, KeyTypes, RowsFit, KeyFits, MigrationFits
<1>1. CASE UNCHANGED vars
  BY <1>1 DEF vars, frontVars, diskVars
<1>2. CASE Launch
  BY <1>2 DEF Launch, diskVars
<1>3. CASE GetSecret
  <2>1. secret' \in Nat /\ secret' # 0 /\ fresh' \in Nat
    BY <1>3 DEF GetSecret, DrawSecret
  <2>2. pc' = "open" /\ UNCHANGED <<todo, newKey, meta, rows, vaultKey>>
    BY <1>3 DEF GetSecret
  <2>. QED BY <2>1, <2>2
<1>4. CASE Create
  <2>1. [pw |-> secret, salt |-> fresh + 1] \in Key BY DEF Key
  <2>2. secret # 0 BY <1>4 DEF Create
  <2>. QED BY <1>4, <2>1, <2>2 DEF Create, Unlocked, Key
<1>5. CASE Unlock
  BY <1>5 DEF Unlock, Unlocked, diskVars
<1>6. CASE InvalidPassword
  BY <1>6 DEF InvalidPassword, Failed, diskVars
<1>7. CASE StartMigration
  <2>1. NewKey \in Key /\ NewKey # NoKey /\ NewKey.pw = secret BY DEF Key, NewKey
  <2>2. \A r \in Rows \ Migrated : rows[r] = NoKey
    BY <1>7 DEF Migrated, Rows, StartMigration
  <2>3. Migrated \subseteq Rows BY DEF Migrated, Rows
  <2>4. /\ pc = "open" /\ meta # NoKey /\ meta.pw = 0 /\ pc' = "migrate"
        /\ todo' = Migrated /\ newKey' = NewKey /\ fresh' = fresh + 1
        /\ secret' = secret /\ meta' = meta /\ rows' = rows /\ vaultKey' = vaultKey
    BY <1>7 DEF StartMigration, diskVars
  <2>. HIDE DEF NewKey, Migrated
  <2>. QED BY <2>1, <2>2, <2>3, <2>4
<1>8. ASSUME NEW r \in Rows, MigrateRow(r) PROVE VaultInv'
  <2>1. vaultKey = NoKey BY <1>8 DEF MigrateRow
  <2>2. r \notin OtherRows \ (IdentityRows \cup SshKeyRows)
    <3> SUFFICES ASSUME r \in OtherRows \ (IdentityRows \cup SshKeyRows) PROVE FALSE
      OBVIOUS
    <3>1. rows[r] = NoKey /\ rows[r] = meta BY <1>8 DEF MigrateRow
    <3>. QED BY <3>1, <1>8 DEF MigrateRow
  <2>. QED BY <1>8, <2>1, <2>2 DEF MigrateRow, Rows
<1>9. ASSUME NEW r \in Rows, MigrateRowFails(r) PROVE VaultInv'
  BY <1>9 DEF MigrateRowFails, Failed, diskVars
<1>10. CASE MigrateMeta
  BY <1>10 DEF MigrateMeta, Unlocked
<1>11. CASE StepFails
  BY <1>11 DEF StepFails, Failed, diskVars
<1>12. CASE Lock
  BY <1>12 DEF Lock, diskVars
<1>13. CASE IdleTimeout
  BY <1>13 DEF IdleTimeout, diskVars
<1>14. CASE ClickUnlock
  BY <1>14 DEF ClickUnlock, diskVars
<1>15. CASE Killed
  BY <1>15 DEF Killed, diskVars
<1>16. ASSUME NEW r \in Rows, StoreSecret(r) PROVE VaultInv'
  BY <1>16 DEF StoreSecret, Rows
<1>17. ASSUME NEW r \in Rows, ClearSecret(r) PROVE VaultInv'
  BY <1>17 DEF ClearSecret, Rows
<1>. QED
  BY <1>1, <1>2, <1>3, <1>4, <1>5, <1>6, <1>7, <1>8, <1>9, <1>10, <1>11,
     <1>12, <1>13, <1>14, <1>15, <1>16, <1>17 DEF Next, AutoUnlock

\* With crashes, failing statements and lost secret files at any point, the key
\* an unlocked vault holds opens its verifier and every secret in it.
THEOREM KeyFitsVault == Spec => []KeyOpensVault
<1>1. VaultInv => KeyOpensVault
  BY DEF VaultInv, KeyTypes, RowsFit, KeyFits, KeyOpensVault
<1>. QED BY VaultInvInit, VaultInvNext, <1>1, PTL DEF Spec

-----------------------------------------------------------------------------
\* The verifier opens with the legacy password or the secret on disk, and the
\* rows a legacy vault still has under its own key are those to be migrated.
RecoveryInv ==
    ~harmed =>
        /\ meta # NoKey => meta.pw \in {0, secret}
        /\ pc # "migrate" => \A r \in Rows : rows[r] \in {NoKey, meta}
        /\ pc = "migrate" => \A r \in todo : rows[r] \in {NoKey, meta}
        /\ pc = "migrate" => \A r \in todo : rows[r] # NoKey

\* A new or a legacy vault can be opened from the disk.
LEMMA RecoveryInit == Init => RecoveryInv
  BY DEF Init, RecoveryInv, LegacyKey, Rows

\* Every step keeps it so, or sets harmed.
LEMMA RecoveryNext ==
    VaultInv /\ RecoveryInv /\ [Next]_vars => RecoveryInv'
<1> SUFFICES ASSUME VaultInv, RecoveryInv, [Next]_vars PROVE RecoveryInv'
  OBVIOUS
<1> USE DEF VaultInv, KeyTypes, RowsFit, KeyFits, MigrationFits, RecoveryInv
<1>1. CASE UNCHANGED vars
  BY <1>1 DEF vars, frontVars, diskVars
<1>2. CASE Launch
  BY <1>2 DEF Launch, diskVars
<1>3. CASE GetSecret
  <2>1. pc = "idle" /\ pc' = "open" /\ meta' = meta /\ rows' = rows
    BY <1>3 DEF GetSecret
  <2>2. ~harmed' => ~harmed /\ (secret = 0 \/ secret' = secret)
    BY <1>3 DEF GetSecret, DrawSecret
  <2>. QED BY <2>1, <2>2
<1>4. CASE Create
  <2>1. [pw |-> secret, salt |-> fresh + 1].pw = secret OBVIOUS
  <2>. QED BY <1>4, <2>1 DEF Create, Unlocked
<1>5. CASE Unlock
  BY <1>5 DEF Unlock, Unlocked, diskVars
<1>6. CASE InvalidPassword
  BY <1>6 DEF InvalidPassword, Failed, diskVars
<1>7. CASE StartMigration
  <2>1. Migrated \subseteq Rows BY DEF Migrated, Rows
  <2>2. \A r \in Migrated : rows[r] # NoKey BY DEF Migrated
  <2>3. /\ pc = "open" /\ pc' = "migrate" /\ todo' = Migrated
        /\ secret' = secret /\ meta' = meta /\ rows' = rows /\ harmed' = harmed
    BY <1>7 DEF StartMigration, diskVars
  <2>. HIDE DEF Migrated
  <2>. QED BY <2>1, <2>2, <2>3
<1>8. ASSUME NEW r \in Rows, MigrateRow(r) PROVE RecoveryInv'
  BY <1>8 DEF MigrateRow
<1>9. ASSUME NEW r \in Rows, MigrateRowFails(r) PROVE RecoveryInv'
  BY <1>9 DEF MigrateRowFails
<1>10. CASE MigrateMeta
  BY <1>10 DEF MigrateMeta, Unlocked
<1>11. CASE StepFails
  BY <1>11 DEF StepFails, Failed, diskVars
<1>12. CASE Lock
  BY <1>12 DEF Lock, diskVars
<1>13. CASE IdleTimeout
  BY <1>13 DEF IdleTimeout, diskVars
<1>14. CASE ClickUnlock
  BY <1>14 DEF ClickUnlock, diskVars
<1>15. CASE Killed
  BY <1>15 DEF Killed, diskVars
<1>16. ASSUME NEW r \in Rows, StoreSecret(r) PROVE RecoveryInv'
  BY <1>16 DEF StoreSecret
<1>17. ASSUME NEW r \in Rows, ClearSecret(r) PROVE RecoveryInv'
  BY <1>17 DEF ClearSecret
<1>. QED
  BY <1>1, <1>2, <1>3, <1>4, <1>5, <1>6, <1>7, <1>8, <1>9, <1>10, <1>11,
     <1>12, <1>13, <1>14, <1>15, <1>16, <1>17 DEF Next, AutoUnlock

\* As long as no migration was stopped and no secret file overwritten, what is
\* on disk between two commands suffices to open every secret, whatever else
\* failed or was killed.
THEOREM DiskSuffices == Spec => []SecretsRecoverable
<1>1. RecoveryInv => SecretsRecoverable
  BY DEF RecoveryInv, SecretsRecoverable
<1>. QED BY VaultInvInit, VaultInvNext, RecoveryInit, RecoveryNext, <1>1, PTL DEF Spec
-----------------------------------------------------------------------------
(* The overlay and the order of the commands                               *)

FrontTypes ==
    /\ app \in {"up", "down"} /\ boot \in {"loading", "ready", "error"}
    /\ locked \in BOOLEAN /\ harmed \in BOOLEAN

\* At most a lock and then an unlock are on their way: a lock only under the
\* overlay, nothing while the user can work, and an auto_unlock that runs is
\* the first and last of them.
CallsFit ==
    /\ calls \in {<<>>, <<"lock">>, <<"unlock">>, <<"lock", "unlock">>}
    /\ boot = "ready" /\ ~locked => calls = <<>> /\ vaultKey # NoKey
    /\ boot # "ready" => calls \in {<<>>, <<"unlock">>} /\ ~locked
    /\ pc # "idle" => calls = <<"unlock">>

FrontInv == FrontTypes /\ CallsFit

\* Heads and tails of what may be on its way.
LEMMA CallShapes ==
    /\ Tail(<<"lock">>) = <<>> /\ Tail(<<"unlock">>) = <<>>
    /\ Tail(<<"lock", "unlock">>) = <<"unlock">>
    /\ Head(<<"lock">>) = "lock" /\ Head(<<"unlock">>) = "unlock"
    /\ Head(<<"lock", "unlock">>) = "lock"
    /\ Append(<<>>, "lock") = <<"lock">> /\ Append(<<>>, "unlock") = <<"unlock">>
    /\ Append(<<"lock">>, "unlock") = <<"lock", "unlock">>
    /\ <<"unlock">>[1] = "unlock" /\ Len(<<"unlock">>) = 1
    /\ <<"lock", "unlock">>[2] = "unlock" /\ Len(<<"lock", "unlock">>) = 2
    /\ <<"lock">> # <<"unlock">> /\ <<"lock", "unlock">> # <<"unlock">>
    /\ <<"unlock">> # <<>> /\ <<"lock">> # <<>> /\ <<"lock", "unlock">> # <<>>
<1>1. /\ Tail(<<"lock">>) = <<>> /\ Tail(<<"unlock">>) = <<>>
      /\ Tail(<<"lock", "unlock">>) = <<"unlock">>
  OBVIOUS
<1>2. /\ Head(<<"lock">>) = "lock" /\ Head(<<"unlock">>) = "unlock"
      /\ Head(<<"lock", "unlock">>) = "lock"
  OBVIOUS
<1>3. /\ Append(<<>>, "lock") = <<"lock">> /\ Append(<<>>, "unlock") = <<"unlock">>
  OBVIOUS
<1>T. Append(<<"lock">>, "unlock") = <<"lock", "unlock">>
  <2> DEFINE t == Append(<<"lock">>, "unlock")
             u == <<"lock", "unlock">>
  <2>1. <<"lock">> \in Seq({"lock", "unlock"}) /\ Len(<<"lock">>) = 1 /\ <<"lock">>[1] = "lock"
    OBVIOUS
  <2>2. t \in Seq({"lock", "unlock"}) /\ Len(t) = 2 /\ t[1] = "lock" /\ t[2] = "unlock"
    BY <2>1
  <2>3. u \in Seq({"lock", "unlock"}) /\ Len(u) = 2 /\ u[1] = "lock" /\ u[2] = "unlock"
    OBVIOUS
  <2> HIDE DEF t, u
  <2>4. \A i \in 1..Len(t) : t[i] = u[i]
    BY <2>2, <2>3
  <2>5. t = u
    BY <2>2, <2>3, <2>4, SeqEqual
  <2> QED
    BY <2>5 DEF t, u
<1>4. /\ <<"unlock">>[1] = "unlock" /\ <<"lock">>[1] = "lock" /\ <<"lock", "unlock">>[2] = "unlock"
  OBVIOUS
<1>5. /\ Len(<<"unlock">>) = 1 /\ Len(<<"lock">>) = 1 /\ Len(<<"lock", "unlock">>) = 2
      /\ Len(<<>>) = 0
  OBVIOUS
<1>6. <<"lock">> # <<"unlock">> /\ <<"lock", "unlock">> # <<"unlock">>
  BY <1>4, <1>5
<1>7. <<"unlock">> # <<>> /\ <<"lock">> # <<>> /\ <<"lock", "unlock">> # <<>>
  BY <1>5
<1> QED
  BY <1>1, <1>2, <1>3, <1>4, <1>5, <1>6, <1>7, <1>T

\* Each command, the idle timer, the overlay's button and a kill keep it.
LEMMA FrontInvNext == VaultInv /\ FrontInv /\ [Next]_vars => FrontInv'
<1> SUFFICES ASSUME VaultInv, FrontInv, [Next]_vars PROVE FrontInv'
  OBVIOUS
<1> USE DEF FrontInv, FrontTypes, CallsFit
<1>1. ASSUME NEW k, k # NoKey, Unlocked(k), pc # "idle", harmed' = harmed PROVE FrontInv'
  BY <1>1, CallShapes DEF Unlocked
<1>2. ASSUME Failed, pc # "idle", harmed' \in BOOLEAN PROVE FrontInv'
  BY <1>2, CallShapes DEF Failed
<1>3. CASE Launch
  BY <1>3 DEF Launch
<1>4. CASE GetSecret
  <2>1. calls = <<"unlock">>
    BY <1>4, CallShapes DEF GetSecret
  <2> QED
    BY <1>4, <2>1 DEF GetSecret, DrawSecret, frontVars
<1>5. CASE Create
  <2>1. [pw |-> secret, salt |-> fresh + 1] # NoKey
    BY DEF VaultInv, KeyTypes, Key
  <2> QED
    BY <1>1, <1>5, <2>1 DEF Create
<1>6. CASE Unlock
  BY <1>1, <1>6 DEF Unlock
<1>7. CASE InvalidPassword
  BY <1>2, <1>7 DEF InvalidPassword
<1>8. CASE StartMigration
  BY <1>8 DEF StartMigration, frontVars
<1>9. ASSUME NEW r \in Rows, MigrateRow(r) PROVE FrontInv'
  BY <1>9 DEF MigrateRow, frontVars
<1>10. ASSUME NEW r \in Rows, MigrateRowFails(r) PROVE FrontInv'
  BY <1>2, <1>10 DEF MigrateRowFails
<1>11. CASE MigrateMeta
  BY <1>1, <1>11 DEF MigrateMeta, VaultInv, MigrationFits
<1>12. CASE StepFails
  BY <1>2, <1>12 DEF StepFails
<1>13. CASE Lock
  <2>1. locked /\ boot = "ready" /\ calls' \in {<<>>, <<"unlock">>}
    BY <1>13, CallShapes DEF Lock
  <2> QED
    BY <1>13, <2>1 DEF Lock, frontVars
<1>14. CASE IdleTimeout
  BY <1>14, CallShapes DEF IdleTimeout, Armed
<1>15. CASE ClickUnlock
  <2>1. calls \in {<<>>, <<"lock">>}
    BY <1>15, CallShapes DEF ClickUnlock
  <2>2. calls' \in {<<"unlock">>, <<"lock", "unlock">>}
    BY <1>15, <2>1, CallShapes DEF ClickUnlock
  <2> QED
    BY <1>15, <2>1, <2>2, CallShapes DEF ClickUnlock, frontVars
<1>16. CASE Killed
  BY <1>16 DEF Killed
<1>17. ASSUME NEW r \in Rows, StoreSecret(r) \/ ClearSecret(r) PROVE FrontInv'
  BY <1>17 DEF StoreSecret, ClearSecret, frontVars
<1>18. CASE UNCHANGED vars
  BY <1>18 DEF vars, frontVars
<1> QED
  BY <1>3, <1>4, <1>5, <1>6, <1>7, <1>8, <1>9, <1>10, <1>11, <1>12, <1>13, <1>14,
     <1>15, <1>16, <1>17, <1>18 DEF Next, AutoUnlock

\* Both invariants hold of every behaviour.
THEOREM FrontInvariant == Spec => [](VaultInv /\ FrontInv)
<1>1. Init => FrontInv
  BY DEF Init, FrontInv, FrontTypes, CallsFit
<1> QED
  BY <1>1, VaultInvInit, VaultInvNext, FrontInvNext, PTL DEF Spec

\* The types, for any number of rows and of random values.
THEOREM VaultTypes == Spec => []TypeOK
<1>1. {<<>>, <<"lock">>, <<"unlock">>, <<"lock", "unlock">>} \subseteq Seq({"unlock", "lock"})
  OBVIOUS
<1>2. VaultInv /\ FrontInv => TypeOK
  BY <1>1 DEF VaultInv, KeyTypes, MigrationFits, FrontInv, FrontTypes, CallsFit, TypeOK
<1> QED
  BY <1>2, FrontInvariant, PTL

\* Whenever neither the boot screen nor the overlay is shown the key is in
\* memory: no vault_lock takes effect after the unlock that removed the overlay.
THEOREM WorkMeansKey == Spec => []UnlockedMeansUsable
<1>1. FrontInv => UnlockedMeansUsable
  BY DEF FrontInv, CallsFit, UnlockedMeansUsable
<1> QED
  BY <1>1, FrontInvariant, PTL
=============================================================================
