\* The dialog says that the microphone is being checked (MicrophoneCheckDialog.tsx).
CONSTANTS
  Runs = {r1, r2}
  Takes = {t1}
  MaxLoads = 1
  MaxDemos = 0
  None = None
SPECIFICATION Spec
INVARIANT
  CheckingMeansCheck
CHECK_DEADLOCK FALSE
