SPECIFICATION Spec
CONSTANTS
  Rows = {r1, r2}
  Tasks = {t1}
  Own = Own
  Other = Other
  Fresh = Fresh
  NoSecret = NoSecret
  NoDb = NoDb
INVARIANTS RestoreAllOrNothing KeyFitsDatabase DriveRestorable
