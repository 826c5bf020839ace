SPECIFICATION Spec
CONSTANTS
  Key <- MCKey
  Limit <- MCLimit
  Window <- MCWindow
  Ask <- MCAsk
  Cooldown = 2
  Worker = {w1, w2}
  Site <- MCSite
CHECK_DEADLOCK FALSE
SYMMETRY MCSymmetry
INVARIANTS TypeOK RefusalIsEarned LoginTellsTheWait LoginClears WithinLimit CooldownKept
