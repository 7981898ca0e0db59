\* One pipe, one keeper.  Alone: two writers, one controller, two readers.
\* With a task: four writer handles, the root flow's and one for each writing
\* command of a body.
SPECIFICATION PipesSpec
CONSTANTS
    Writer = {w0, w1, w2, w3}
    AloneWriter = {w0, w1}
    Keeper = {k1}
    Control = {c1}
    Reader = {main, worker}
    MaxPush = 2
    MaxBuffered = 2
    Bodies <- SomeBodies
    Main = main
    Worker = worker
    EarlyOut = w0
    Pin = k1
INVARIANTS NoLostWakeup LatchExact 
PROPERTIES ReadersReturn BothTerminate
