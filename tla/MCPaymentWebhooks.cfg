SPECIFICATION FairSpec
CONSTANTS
  Events = {1, 2, 3}
  Invoices = {i1}
  Histories <- MCHistories
  Handlers = {h1, h2}
  MaxSecond = 2
  MaxFaults = 1
INVARIANTS
  TypeOK
  NewestEventWins
  CreditsMatchInvoices
  RefundEvidence
PROPERTIES
  EventuallyProcessed
CHECK_DEADLOCK FALSE
