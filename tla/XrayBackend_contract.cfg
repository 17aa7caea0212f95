CONSTANTS
  None = None  c1 = c1  c2 = c2  c3 = c3
  Configs <- ThreeConfigs
  Faults <- FaultNames
SPECIFICATION Spec
PROPERTY KeepsContract
