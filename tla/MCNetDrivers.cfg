CONSTANTS
  Nets <- MCNets
  NetOrder <- MCNetOrder
  Width <- MCWidth
  Designs <- AllDesigns
SPECIFICATION Spec
INVARIANTS Resolved PortsRead DelaysOwn
