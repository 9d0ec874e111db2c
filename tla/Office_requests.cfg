SPECIFICATION OfficeSpec
CONSTANTS
  c1 = c1
  e1 = e1
  Codes = {"BAL", "CHECK"}
  EventTypes = {"customer-low-balance"}
  MessageTypes = {"no-such-number", "verify-number", "wrong-code"}
  DefaultCodes = {"CHECK"}
  Rank <- KeyRank
  EntryIds = {1, 2, 3, 4, 5}
  Editors = {e1, e2}
  NoEntry = NoEntry
  Idle = Idle
  Customers = {c1, c2}
  Numbers = {n1, n2}
  EventRows = {v1, v2}
  Posts = {p1}
  Pollers = {q1, q2}
  Receivers = {r1, r2}
  Clerks = {d1, d2}
  MaxRequests = 3
  NoNumber = NoNumber
  NoCustomer = NoCustomer
  Serials = {m1, m2}
  CustCodes = {k1}
  States = {"on", "off"}
  TagNames = {t1}
  Offices = {o1, o2}
  MaxAsked = 3
  NoMeter = NoMeter
  NoCode = NoCode
  NoWork = NoWork
  ComputedId = ComputedId
INVARIANTS
  OneEntryPerId
  MarkedIsHandedOver
  VerifiedIsVouched
  MappedOnce
PROPERTIES
  OnlyEditedChanges
  TagsAsAsked
  UntouchedKept
SYMMETRY Symmetric
CHECK_DEADLOCK FALSE
