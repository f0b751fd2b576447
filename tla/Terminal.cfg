SPECIFICATION Spec
CONSTANTS
    RingSize = 4
    Size <- SmallSize
    Typed <- Keys
    Foreign <- Zero
VIEW View
INVARIANTS TypeOK LastTwo TextRight CommandRight
