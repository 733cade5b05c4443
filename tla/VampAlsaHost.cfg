\* Clients that send what they like, in pieces of any size; label 3 is one that a
\* device, a plugin and a connection can have.  quit, and undefined behaviour, end
\* the server.
CONSTANTS
  DevLabels = {1, 3}
  PluginLabels = {2, 3}
  ConnLabels = {3, 4}
  Wav = 10
  Errors = TRUE
  MaxObjects = 4
  MaxRemovals = 3
SPECIFICATION Spec
VIEW Acting
CONSTRAINT Few
CHECK_DEADLOCK FALSE
INVARIANTS PluginsAttached ReceiveAllServed RawFileRecords RoundRemoves
PROPERTIES CloseCompletes ImplementsSubscriptions
