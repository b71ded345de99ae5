CONSTANTS
    Main = Main
    t1 = t1
    t2 = t2
    Ticks = {t1, t2}
    Free = Free
SPECIFICATION FairSpec
INVARIANT TypeOK
INVARIANT QuietDeinit
INVARIANT ExitSaves
PROPERTY StopStops
PROPERTY ExitEnds
PROPERTY PublicTickerRuns
\* The daemon ends.
CHECK_DEADLOCK FALSE
