CONSTANTS
  Setups <- MCSetups
  Histories <- MCHistories
  attempts = 2
  MaxTimeouts = 1
  MaxDelta = 1
SPECIFICATION Spec
INVARIANTS TypeOK VerdictSound AckedSurvive LinearizableReported ReplayKeepsStreams TimesReplayed
PROPERTIES EventuallyDone
