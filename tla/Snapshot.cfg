SPECIFICATION Spec
CONSTANTS
  Catalogs <- DemoFirst
  Capacity = 2
INVARIANT ShownIsMeasured
PROPERTY AcceptedIsShown
