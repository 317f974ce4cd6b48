\* Two providers; the start and two reloads, which may overlap.  One request: what
\* it reads depends on no other.
CONSTANTS
  Names = {a, b}
  Examples <- MCExamples
  Reloads = {r1, r2}
  Clients = {c1}
  MaxLoads = 3
SYMMETRY Symmetry
SPECIFICATION Spec
INVARIANTS
  TypeOK
  CommandsKeepSections
  ChecksAreCurrent
  LoadsAreWhole
  RequestIsWhole
PROPERTIES
  ReloadsGoForward
