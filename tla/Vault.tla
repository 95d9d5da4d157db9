------------------------------- MODULE Vault -------------------------------
(***************************************************************************)
(* The vault (vault/store.rs, state.rs, commands/vault_commands.rs) and    *)
(* the part of the frontend that locks and unlocks it (App.tsx,            *)
(* VaultLockOverlay.tsx).                                                  *)
(*                                                                         *)
(* A key is derived from a password and a salt; AES-GCM makes decryption   *)
(* under any other key fail.  So a ciphertext is modelled by the key that  *)
(* opens it.  Password 0 is LEGACY_PUBLIC_PASSWORD, the others are local   *)
(* secrets; every fresh random value is a number not used before.          *)
(*                                                                         *)
(* vault_auto_unlock and vault_lock are synchronous commands: they run one *)
(* after the other, in the order of their invocation, and auto_unlock      *)
(* holds the database mutex from beginning to end.                         *)
(***************************************************************************)
EXTENDS Naturals, Sequences, FiniteSets

CONSTANTS
    IdentityRows, SshKeyRows,  \* rows of identities and ssh_keys
    OtherRows,                 \* vpn_profiles, google_auth, ai_settings
    MaxFresh,                  \* bound: random values ever drawn
    NoKey

ASSUME VaultAssumption ==
    /\ MaxFresh \in Nat
    /\ NoKey \notin [pw : Nat, salt : Nat]

VARIABLES
    app,       \* "up" or "down"
    boot,      \* App.tsx: loading, ready or error
    locked,    \* App.tsx: the lock overlay is shown
    calls,     \* vault commands invoked and not answered yet, in order
    pc,        \* where the running auto_unlock is
    todo, newKey,  \* migrate_to_new_secret: rows not yet re-encrypted, new key
    fresh,     \* random values drawn so far
    secret,    \* .local_secret: 0 if missing or empty
    meta,      \* vault_meta: the key its verifier opens with, or NoKey
    rows,      \* for each row the key its ciphertext opens with, or NoKey
    vaultKey,  \* AppState.vault_key
    harmed     \* history: a migration was stopped half-way, or a secret file
               \*   that could not be read was overwritten

frontVars == <<app, boot, locked>>
diskVars == <<secret, meta, rows>>
vars == <<frontVars, calls, pc, todo, newKey, fresh, diskVars, vaultKey, harmed>>

Rows == IdentityRows \cup SshKeyRows \cup OtherRows
Key == [pw : Nat, salt : Nat]
LegacyKey == [pw |-> 0, salt |-> 0]

TypeOK ==
    /\ app \in {"up", "down"}
    /\ boot \in {"loading", "ready", "error"}
    /\ locked \in BOOLEAN
    /\ calls \in Seq({"unlock", "lock"})
    /\ pc \in {"idle", "open", "migrate"}
    /\ todo \subseteq Rows
    /\ newKey \in Key \cup {NoKey}
    /\ pc = "migrate" => newKey \in Key /\ meta \in Key
    /\ fresh \in Nat
    /\ secret \in Nat
    /\ meta \in Key \cup {NoKey}
    /\ rows \in [Rows -> Key \cup {NoKey}]
    /\ vaultKey \in Key \cup {NoKey}
    /\ harmed \in BOOLEAN

\* A new installation, or a vault made before local secrets existed.
Init ==
    /\ app = "down" /\ boot = "loading" /\ locked = FALSE
    /\ calls = <<>> /\ pc = "idle" /\ todo = {} /\ newKey = NoKey
    /\ fresh = 0 /\ secret = 0 /\ vaultKey = NoKey /\ harmed = FALSE
    /\ \/ meta = NoKey /\ rows = [r \in Rows |-> NoKey]
       \/ /\ meta = LegacyKey
          /\ rows \in {f \in [Rows -> {LegacyKey, NoKey}] :
                         \A r \in OtherRows : f[r] = NoKey}

\* The application starts and App.tsx invokes vault_auto_unlock.
Launch ==
    /\ app = "down"
    /\ app' = "up" /\ boot' = "loading" /\ locked' = FALSE
    /\ calls' = <<"unlock">>
    /\ UNCHANGED <<pc, todo, newKey, fresh, diskVars, vaultKey, harmed>>

\* vault_auto_unlock returns the key: App.tsx is ready, the overlay goes away.
Unlocked(k) ==
    /\ vaultKey' = k
    /\ pc' = "idle" /\ calls' = Tail(calls)
    /\ boot' = "ready" /\ locked' = FALSE
    /\ UNCHANGED app

\* It returns an error: the boot ends in the error screen, an overlay stays;
\* a version that removes the overlay in any case.
FailedUnlocks ==
    /\ pc' = "idle" /\ calls' = Tail(calls)
    /\ boot' = IF boot = "loading" THEN "error" ELSE boot
    /\ locked' = FALSE
    /\ UNCHANGED <<app, vaultKey>>
Failed ==
    /\ pc' = "idle" /\ calls' = Tail(calls)
    /\ boot' = IF boot = "loading" THEN "error" ELSE boot
    /\ UNCHANGED <<app, locked, vaultKey>>

\* get_or_create_local_secret_at: an existing non-empty file is kept, if it
\* can be read; a version that always writes a new one.
DrawSecretAlways == secret' = fresh + 1 /\ fresh' = fresh + 1 /\ UNCHANGED harmed
DrawSecret ==
    \/ secret # 0 /\ UNCHANGED <<secret, fresh, harmed>>
    \/ secret' = fresh + 1 /\ fresh' = fresh + 1 /\ harmed' = (harmed \/ secret # 0)

GetSecret ==
    /\ app = "up" /\ pc = "idle" /\ calls # <<>> /\ Head(calls) = "unlock"
    /\ fresh < MaxFresh
    /\ DrawSecret
    /\ pc' = "open"
    /\ UNCHANGED <<frontVars, calls, todo, newKey, meta, rows, vaultKey>>

\* create(): a fresh salt, the verifier and the key.
Create ==
    LET k == [pw |-> secret, salt |-> fresh + 1]
    IN  /\ pc = "open" /\ meta = NoKey /\ fresh < MaxFresh
        /\ meta' = k /\ fresh' = fresh + 1
        /\ Unlocked(k)
        /\ UNCHANGED <<todo, newKey, secret, rows, harmed>>

\* unlock() with the local secret derives the key of the verifier again.
Unlock ==
    /\ pc = "open" /\ meta # NoKey /\ meta.pw = secret
    /\ Unlocked(meta)
    /\ UNCHANGED <<todo, newKey, fresh, diskVars, harmed>>

\* Neither the local secret nor the legacy password opens the verifier.
InvalidPassword ==
    /\ pc = "open" /\ meta # NoKey /\ meta.pw \notin {0, secret}
    /\ Failed
    /\ UNCHANGED <<todo, newKey, fresh, diskVars, harmed>>

\* The secrets migrate_to_new_secret re-encrypts; a version that forgets keys.
MigratedIdentitiesOnly == {r \in IdentityRows : rows[r] # NoKey}
Migrated == {r \in IdentityRows \cup SshKeyRows : rows[r] # NoKey}

\* The key it derives from the local secret and a fresh salt.
NewKey == [pw |-> secret, salt |-> fresh + 1]

\* The legacy password opens it: the rows are collected, a key is derived.
StartMigration ==
    /\ pc = "open" /\ meta # NoKey /\ meta.pw = 0 /\ fresh < MaxFresh
    /\ pc' = "migrate"
    /\ todo' = Migrated
    /\ newKey' = NewKey
    /\ fresh' = fresh + 1
    /\ UNCHANGED <<frontVars, calls, diskVars, vaultKey, harmed>>

\* One UPDATE, committed by itself; identities first.
MigrateRow(r) ==
    /\ pc = "migrate" /\ r \in todo /\ rows[r] = meta
    /\ r \in SshKeyRows => todo \cap IdentityRows = {}
    /\ rows' = [rows EXCEPT ![r] = newKey]
    /\ todo' = todo \ {r}
    /\ UNCHANGED <<frontVars, calls, pc, newKey, fresh, secret, meta, vaultKey, harmed>>

\* Decrypting a row that is not under the legacy key fails.
MigrateRowFails(r) ==
    /\ pc = "migrate" /\ r \in todo /\ rows[r] # meta
    /\ Failed
    /\ UNCHANGED <<todo, newKey, fresh, diskVars, harmed>>

\* Last, vault_meta is replaced and the new key returned.
MigrateMeta ==
    /\ pc = "migrate" /\ todo = {}
    /\ meta' = newKey
    /\ Unlocked(newKey)
    /\ UNCHANGED <<todo, newKey, fresh, secret, rows, harmed>>

\* A read, write or statement of auto_unlock fails.
StepFails ==
    /\ pc \in {"open", "migrate"}
    /\ harmed' = (harmed \/ pc = "migrate")
    /\ Failed
    /\ UNCHANGED <<todo, newKey, fresh, diskVars>>

\* vault_lock
Lock ==
    /\ app = "up" /\ pc = "idle" /\ calls # <<>> /\ Head(calls) = "lock"
    /\ vaultKey' = NoKey
    /\ calls' = Tail(calls)
    /\ UNCHANGED <<frontVars, pc, todo, newKey, fresh, diskVars, harmed>>

\* useIdleTimer is armed (the setting that enables it is the user's) and fires: the
\* overlay is shown and vault_lock invoked.
Armed == boot = "ready" /\ ~locked

IdleTimeout ==
    /\ app = "up" /\ Armed
    /\ locked' = TRUE
    /\ calls' = Append(calls, "lock")
    /\ UNCHANGED <<app, boot, pc, todo, newKey, fresh, diskVars, vaultKey, harmed>>

\* The overlay's button, disabled while an unlock is under way.
ClickUnlock ==
    /\ app = "up" /\ locked
    /\ \A i \in 1..Len(calls) : calls[i] # "unlock"
    /\ calls' = Append(calls, "unlock")
    /\ UNCHANGED <<frontVars, pc, todo, newKey, fresh, diskVars, vaultKey, harmed>>

\* A command stores a secret with AppState::with_key, or removes one.
StoreSecret(r) ==
    /\ app = "up" /\ boot = "ready" /\ pc = "idle" /\ vaultKey # NoKey
    /\ rows' = [rows EXCEPT ![r] = vaultKey]
    /\ UNCHANGED <<frontVars, calls, pc, todo, newKey, fresh, secret, meta, vaultKey, harmed>>

ClearSecret(r) ==
    /\ app = "up" /\ boot = "ready" /\ pc = "idle" /\ rows[r] # NoKey
    /\ rows' = [rows EXCEPT ![r] = NoKey]
    /\ UNCHANGED <<frontVars, calls, pc, todo, newKey, fresh, secret, meta, vaultKey, harmed>>

\* The process ends, with everything it kept in memory.
Killed ==
    /\ app = "up"
    /\ harmed' = (harmed \/ pc = "migrate")
    /\ app' = "down" /\ boot' = "loading" /\ locked' = FALSE
    /\ calls' = <<>> /\ pc' = "idle" /\ todo' = {} /\ newKey' = NoKey
    /\ vaultKey' = NoKey
    /\ UNCHANGED <<fresh, diskVars>>

AutoUnlock ==
    \/ GetSecret \/ Create \/ Unlock \/ InvalidPassword \/ StartMigration
    \/ \E r \in Rows : MigrateRow(r) \/ MigrateRowFails(r)
    \/ MigrateMeta \/ StepFails

Next ==
    \/ Launch \/ AutoUnlock \/ Lock \/ IdleTimeout \/ ClickUnlock \/ Killed
    \/ \E r \in Rows : StoreSecret(r) \/ ClearSecret(r)

Spec == Init /\ [][Next]_vars

-----------------------------------------------------------------------------
\* The key in memory is the key of the vault on disk and opens every secret in
\* it: after any sequence of launches, migrations, locks and unlocks, nothing
\* the user stored has become unreadable.
KeyOpensVault ==
    vaultKey # NoKey => /\ meta = vaultKey
                        /\ \A r \in Rows : rows[r] \in {NoKey, vaultKey}

\* Whenever the user can work, the key is there: a vault_lock is never left to
\* take effect after the unlock that removed the overlay.
UnlockedMeansUsable == boot = "ready" /\ ~locked => vaultKey # NoKey

\* Whenever no auto_unlock is under way, the disk alone suffices to open every
\* secret: the verifier opens with the legacy password or the local secret,
\* and the rows with the same key.  Crashes at every other point included,
\* only a migration stopped half-way and an unreadable secret file spoil that.
SecretsRecoverable ==
    ~harmed /\ pc = "idle" =>
        /\ meta # NoKey => meta.pw \in {0, secret}
        /\ \A r \in Rows : rows[r] \in {NoKey, meta}
=============================================================================
