---------------------------- MODULE MCDreamWorker ----------------------------
EXTENDS DreamWorker
CONSTANTS o1, a1
FairSpec == DreamSpec /\ DreamFairness
=============================================================================
