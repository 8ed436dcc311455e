------------------------------ MODULE MCCleanup ------------------------------
EXTENDS Cleanup
=============================================================================
