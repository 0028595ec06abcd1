\* All four views; the Custom profile's click comes late.
SPECIFICATION Spec
CONSTANTS
  Accents <- NoAccents
  Lists <- FourLists
  Shows <- LightingAndTdp
  MaxValue = 1
  MaxQueue = 1
INVARIANTS
  TypeOK
  EditIsOfTheViewInFront
PROPERTIES
  EditKeepsItsSlider
  CancelRestores
  BackUnwinds
