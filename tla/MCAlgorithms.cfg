SPECIFICATION Spec
CONSTANTS
  Nodes = {n1, n2, n3}
  Depth = 1
  MaxExtra = 3
  MaxWords = 2
  Ids = {r1, r2}
  SourceFiles = {m1, m2}
  Unparsed = {u1}
  Texts = {1, 2}
  NRows = 2
  MaxImports = 1
  Domains = {d1, d2}
  Subdomains = {s1}
  TaxFiles = {f1, f2}
  Concerns = {c1, c2}
  Outside = {o1}
  Unlisted = {x1}
  Severities = {"critical", "medium", "resolved"}
  NImports = 2
  MaxItems = 2
  MessageFields = {k1, k2}
  Lengths = {0, 125, 126, 65535, 65536}
INVARIANTS
  GraphRight
  DataRight
CHECK_DEADLOCK FALSE
