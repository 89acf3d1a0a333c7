SPECIFICATION Spec
CONSTANTS
  Handle = {h1, h2, h3}
  NULL = NULL
  Desc = {d1, d2, d3}
  MIN_PORT = 2
  MAX_PORT = 4
  PortSpace = 4
  Ephemeral <- MCEphemeral
  Asked <- MCAsked
SYMMETRY Symmetry
INVARIANTS DescriptorsOwned PortTold
PROPERTIES NoSilentLeak
