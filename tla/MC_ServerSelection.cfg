CONSTANTS
  a = a  b = b  c = c  d = d
  Malformed = Malformed  None = None  NoConfig = NoConfig  NoServer = NoServer
  Servers <- MC_Servers
  Priorities <- MC_Priorities
SYMMETRY Symmetry
SPECIFICATION MC_SpecDistinct
PROPERTY SelectionRefinesAbstract
CHECK_DEADLOCK FALSE
