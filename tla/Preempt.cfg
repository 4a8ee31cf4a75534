CONSTANT Procs = {1, 2, 3}
SPECIFICATION Spec
INVARIANTS TypeOK HolderRuns CountsHeldLocks
PROPERTY DeferredTickIsServed
