SPECIFICATION MCSpec
CONSTANTS
  Relays = {e1}
  Documents = {e2}
  Queues = {e3}
  Deliveries = {d1, d2}
  MaxErrors = 2
  MaxCrashes = 1
INVARIANTS TypeOK EffectsPaidByErrors AtMostOneHandler
PROPERTIES KeepsLedger ServedRelaysComplete
