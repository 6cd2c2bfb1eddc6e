SPECIFICATION Safety
CONSTANTS
  r1 = r1
  r2 = r2
  k1 = k1
  k2 = k2
  Resources <- MCResources
  Informers <- MCInformers
  InformerOf <- MCInformerOf
  BufferSize = 2
  MaxRetries = 1
  MaxVersion = 1
INVARIANT
  NoSendOnClosedChannel
\* the loop returns after a stop, and a panic ends the process
CHECK_DEADLOCK FALSE
