----------------------------- MODULE MCListener -----------------------------
EXTENDS Listener

CONSTANTS g1, all
=============================================================================
