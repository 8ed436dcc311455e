------------------------------ MODULE MCCordOps ------------------------------
EXTENDS CordOps
=============================================================================
