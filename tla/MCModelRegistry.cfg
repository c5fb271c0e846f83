SPECIFICATION Spec
CONSTANTS
  Clients = {c1, c2}
  Models = {m1}
  Providers = {p1, p2}
  NoProvider = NoProvider
  MaxDup = 2
SYMMETRY Symmetry
INVARIANTS
  CountExact
  ProvidersExact
PROPERTIES
  ReconcileClearsMarks
