CONSTANTS
    Window = 3
    MaxTime = 7
    MaxFailures = 7
SPECIFICATION Spec
INVARIANTS CriticalEveryThird AlertedIffDegraded ReportIsCurrent
