SPECIFICATION FairSpec
CONSTANTS
  Requests = {r1, r2}
  Metered = {r1}
  Accounts = {a1, a2}
  MaxConcurrency = 1
  WritesFail = TRUE
INVARIANTS SlotAccounting HoldersAreLive SettledOnce
PROPERTIES ImplementsSlots RejectionJustified  SlotsReturn
