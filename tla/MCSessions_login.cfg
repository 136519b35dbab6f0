\* Two browsers, two accounts, one code and two token requests, so that one
\* may log in while the other is given a code.
CONSTANTS
  Codes = {k1}
  Requests = {r1, r2}
  NoCode = NoCode
  Browsers = {b1, b2}
  Accounts = {ann, bob}
  Anonymous = Anonymous
SYMMETRY SessionSymmetry
SPECIFICATION SessionSpec
INVARIANTS SessionTypeOK SessionTokenIsAccepted TokenMatchesSession OwnersLoggedIn
PROPERTY SpentCodeBuysNothing
CONSTRAINT OneFlow
