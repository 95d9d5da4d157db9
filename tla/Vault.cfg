SPECIFICATION Spec
CONSTANTS
  IdentityRows = {i1, i2}
  SshKeyRows = {k1, k2}
  OtherRows = {v1}
  MaxFresh = 6
  NoKey = NoKey
INVARIANTS KeyOpensVault UnlockedMeansUsable SecretsRecoverable
