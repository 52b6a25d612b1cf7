---------------------------- MODULE MCConcentrator ----------------------------
EXTENDS Concentrator
=============================================================================
