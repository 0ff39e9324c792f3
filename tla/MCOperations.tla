---------------------------- MODULE MCOperations ----------------------------
EXTENDS Operations
=============================================================================
