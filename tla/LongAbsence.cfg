CONSTANTS
    TickInterval = 2500
    PingInterval = 5000
    PingSamples = 2
    InitialSlack = 5000
    GoalSlack = 5000
    CorrectionTime = 500000
    MaxDelay = 7500
    Delays = {650, 7500}
    Phases = {450, 2350}
    MaxAbsence = 600000
    Absences = {600000}
    Calm = 3000000
    Grace = 750000
    Tolerance = 250
SPECIFICATION Spec
INVARIANTS CorrectionsHelp
CHECK_DEADLOCK FALSE
