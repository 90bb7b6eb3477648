\* Four activations on two keys: two clients can queue behind a holder while a
\* fourth uses the other key and recycles entries.
SPECIFICATION FairSpec
CONSTANTS
  Clients = {c1, c2, c3, c4}
  Keys <- AccountKeys
  Entries = {e1, e2, e3, e4}
  NoClient = NoClient
  NoEntry = NoEntry
INVARIANT RegistryExact
PROPERTIES ImplementsKeyedLock KeyServed
