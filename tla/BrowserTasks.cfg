SPECIFICATION FairSpec
CONSTANTS
    t1 = t1
    t2 = t2
    t3 = t3
    w1 = w1
    w2 = w2
    Tasks = {t1, t2, t3}
    Widgets = {w1, w2}
    widget <- WidgetOf
    NoTask = NoTask
INVARIANTS
    PagesAccounted
    NotRunMeansNotRun
PROPERTIES
    RetainedOutlivesOthers
    EveryCallAnswered
    ShutdownCompletes
CHECK_DEADLOCK FALSE
