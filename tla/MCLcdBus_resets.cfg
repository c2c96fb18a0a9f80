SPECIFICATION Spec
CONSTANTS
  Traffic <- GUITraffic
INVARIANTS InitConfiguresUnlessTorn
PROPERTIES WritesArrive
