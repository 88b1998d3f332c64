CONSTANTS
  Workers = {w1, w2}
  Users = {ann}
  Files = {f1, f2}
  Contents = {"short", "long"}
  Large = {"long"}
  PoolSize = 2
  NamesAreUnique = TRUE
  MaxRequests = 2
SPECIFICATION Spec
INVARIANTS
  AccountsAreWhole
  PageIsTruthful
  FileAsStored
PROPERTY
  RequestsEnd
CHECK_DEADLOCK FALSE
