SPECIFICATION Spec
CONSTANTS
  None = None
  t1 = t1  t2 = t2  t3 = t3  b1 = b1  b2 = b2
  Logins = {l1, l2}
  Tabs = {t1, t2, t3}
  Users = {u1}
  BrowserOf <- MCBrowserOf
  InitialRoles <- MCInitialRoles
  LaterRoles <- MCLaterRoles
  Lifetime = 2
  TransactionLifetime = 1
  Margin = 1
  Tolerance = 1
  Ahead <- MCAhead
  MaxTime = 3
SYMMETRY MCSymmetry
INVARIANT OwnLoginOnly
PROPERTY PagesAreServed
PROPERTY FormerRolesFade
