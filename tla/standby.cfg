\* The idle session is labelled "standby" (PracticeWorkbench.tsx).
CONSTANTS
  Runs = {r1, r2}
  Takes = {t1}
  MaxLoads = 2
  MaxDemos = 0
  None = None
SPECIFICATION Spec
INVARIANT
  StandbyIsSilent
CHECK_DEADLOCK FALSE
