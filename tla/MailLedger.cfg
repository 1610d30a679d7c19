\* A ledger smaller than the broadcast that fails, a full retry queue, bounces
\* over three topics, an erasure and a restart.
SPECIFICATION MailFairSpec
CONSTANTS
  t1 = t1
  t2 = t2
  b1 = b1
  ann = ann
  bea = bea
  e1 = e1
  e2 = e2
  e3 = e3
  Tickets = {t1, t2}
  Bulk = {b1}
  Addressees = {ann, bea}
  To <- AddresseesOf
  Envelopes = {e1, e2, e3}
  About <- AboutOf
  Tagged = {e1, e2}
  MaxEntries = 1
  Steps = 2
  MaxQueued = 1
  MaxCrashes = 1
  MaxErased = 1
  NoItem = NoItem
INVARIANTS
  
  
  DeliveredOnce
PROPERTIES
  RetriesEnd
CHECK_DEADLOCK FALSE
