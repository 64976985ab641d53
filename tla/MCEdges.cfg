SPECIFICATION Spec
CONSTANTS
  MaxBatch = 2
  MaxChunks = 4
  Deliveries = {d1, d2, d3}
  Webhooks = {w1, w2}
  Anonymous = Anonymous
  App = {a1, a2}
  Built = 3
  MaxMade = 5
  Pipes = {p1}
  EntryNames = {"http", "inprocess", "soap"}
  Transports = {"inprocess", "tcp", "uds", "cli", "carrier"}
  MaxEntries = 2
INVARIANTS
  AnsweredOnce
  NoFalseSuccess
  WebhookInv
  ShutdownInv
  WiringInv
CHECK_DEADLOCK FALSE
