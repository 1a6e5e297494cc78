------------------------- MODULE MCProcessInventory -------------------------
\* Instances of ProcessInventory for TLC.  The process numbers are not symmetric in a
\* run that checks liveness.
EXTENDS ProcessInventory

=============================================================================
