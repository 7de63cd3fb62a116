SPECIFICATION Spec
CONSTANTS
  u1 = u1
  User = {u1}
  Session = {s1, s2}
  Turn = {t1, t2}
  Ticket = {k1, k2, k3}
  NoTicket = NoTicket
  Owner <- OneUser
  SessionBudget = 3
  DailyBudget = 4
  Throttles = {TRUE, FALSE}
  Chats = {TRUE, FALSE}
  Requests <- OneRequest
  Usages = {0, 3}
  Faults = {"lost_release", "ledger_error"}
  MaxOverrun = 1
  MaxTokens = 3
SYMMETRY Symmetry
INVARIANTS LedgerBalances ChargedAsSettled
CHECK_DEADLOCK FALSE
