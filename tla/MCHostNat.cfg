CONSTANTS
    Main = Main
    t1 = t1
    t2 = t2
    Ticks = {t1, t2}
    Free = Free
SPECIFICATION FairSpec
PROPERTY TickerRuns
\* The daemon ends.
CHECK_DEADLOCK FALSE
