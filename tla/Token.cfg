\* Two plain threads are needed so that two of them can wait at once; two
\* guards so that a release is not always the last one.
CONSTANTS
    Threads = {gui, t1, t2}
    GuiThread = gui
    Guards = {g1, g2}
    NoThread = NoThread
    NoGuard = NoGuard
SPECIFICATION FairSpec
\* A destroyed token with no guard and no ticket is garbage: nothing happens.
CHECK_DEADLOCK FALSE
INVARIANTS
    TypeOK
    NoPublicationAfterRevoke
    DrainIsFinal
    NoLostWakeup
PROPERTIES
    ImplementsGate
    WaitersReturn
