----------------------------- MODULE MCWorkQueue -----------------------------
EXTENDS WorkQueue
=============================================================================
