SPECIFICATION Spec
CONSTANTS
  Invoices = {i1, i2}
  Requests = {r1, r2}
  Keys = {k1, k2}
  Scopes = {s1, s2}
  Contents <- PlainContents
  MaxNumber = 1
  MaxVersion = 2
SYMMETRY Symmetry
INVARIANTS
  NumbersGapless
  OneAnswerPerKey
  FinalRenderIsOfIssuedVersion
