SPECIFICATION Spec
CONSTANTS
  Notifiers = {t1, t2}
  MaxFiles = 3
INVARIANTS TypeOK PagableUnlessOverlapped
PROPERTY NotificationAnswered
