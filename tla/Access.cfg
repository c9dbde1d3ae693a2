SPECIFICATION Spec
CONSTANTS
  r1 = r1
  r2 = r2
  r3 = r3
  b1 = b1
  b2 = b2
  n1 = n1
  n2 = n2
  p1 = p1
  p2 = p2
  Requests = {r1, r2, r3}
  Browsers = {b1, b2}
  Names = {n1, n2, Blank}
  Passwords = {p1, p2}
  Blank = Blank
  Seeded = Seeded
  None = None
SYMMETRY Symmetry
INVARIANTS SessionsAreOfTheirUsers AcceptedSetupsLogIn LateSetupsAreRefused LogoutEndsTheSession
