\* Two reports, so that one can be lost behind the other; two faults.
CONSTANTS
    Reports = {r1, r2}
    MaxFaults = 2
SPECIFICATION Spec
PROPERTIES
    EveryReportArrives
    ImplementsHandover
\* When every report is on file nothing is left to do.
CHECK_DEADLOCK FALSE
