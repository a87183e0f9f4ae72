SPECIFICATION LiveSpec
CONSTANTS
  x = x
  y = y
  l = l
  r = r
  Signal = {x, y}
  Derived = {l, r}
  Effect = {e1, e2, e3, e4, e5, e6, e7, e8}
  Val = {0, 1, 2, 3}
  NoTag = NoTag
  Page = Page
  STEP_LIMIT = 14
  Programs <- MCPrograms
  MaxFaults = 1
INVARIANTS
  TypeOK
  SettledEffectsAreCurrent
  DisposedEffectsAreSilent
  ArmsAreWhole
PROPERTIES
  EffectsSeeOneState
  UpdatesEnd
