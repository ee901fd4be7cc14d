CONSTANTS
  User = {u1, u2}
  Browser = {b1, b2}
  Page = {b1, b2}
  BrowserOf <- OnePageEach
  Request = {r1, r2}
  Token = {k1, k2}
  Lifetime = 1
  MaxEvents = 1
SPECIFICATION Spec
SYMMETRY Symmetric
INVARIANT TypeOK
INVARIANT NamesOnlyVerified
INVARIANT NamesForALifetime
INVARIANT SignedOutStaysOut
INVARIANT MenuTells
