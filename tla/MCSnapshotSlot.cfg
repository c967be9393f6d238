SPECIFICATION Spec
CONSTANTS
  http = http
  probe = probe
  Readers <- MCReaders
  Fields <- MCFields
  Writer = main
  Nobody = none
  MaxUpdates = 3
INVARIANTS TypeOK NoTornSnapshot
PROPERTIES ImplementsAtomicSnapshot
