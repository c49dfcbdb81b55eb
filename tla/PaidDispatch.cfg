SPECIFICATION Spec
CONSTANTS
  r1 = r1
  r2 = r2
  r3 = r3
  paid = paid
  Global = global
  NoRequest = none
  Requests = {r1, r2, r3}
  Scopes = {global, paid}
  Maximum <- TwoMaxima
  ScopesOf <- ThirdPays
  RetryOf <- SecondRetries
  Limits = {2, 3}
  Charges = {1, 3}
  RecoverBatch = 1
  Wait = 1
  MaxTime = 1
INVARIANTS TypeOK SentOnce BooksBalance FrozenByBreach SpendingCovered ChargesProven RetriedNeverSettles
CHECK_DEADLOCK FALSE
