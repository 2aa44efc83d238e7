SPECIFICATION Spec
CONSTANTS
  b1 = b1
  b2 = b2
  c1 = c1
  a1 = a1
  a2 = a2
  a3 = a3
  k1 = k1
  k2 = k2
  k3 = k3
  h1 = h1
  h2 = h2
  t1 = t1
  t2 = t2
  t3 = t3
  None = None
  Browsers = {b1}
  Clis = {}
  Attempts = {a1}
  Codes = {k1}
  Handlers = {h1}
  Tokens = {t1, t2}
  Faults = FALSE
  MaxBoots = 1
INVARIANT CookieCanRefresh
