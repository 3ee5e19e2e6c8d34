\* Small instances of everything that waits for something: no bound stops a part before it
\* is answered.
CONSTANT None = None
SPECIFICATION FairSpec
PROPERTIES LoopProgress EveryoneServed
CHECK_DEADLOCK FALSE
