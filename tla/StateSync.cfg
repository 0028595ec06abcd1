\* One open and close, one save and one change by another client.
SPECIFICATION Spec
CONSTANTS
  MaxVersion = 2
  MaxGen = 2
  MaxSaves = 1
  MaxDowns = 0
INVARIANTS
  SettledShowsDaemon
  ErrorOnlyWhileOpen
