----------------------------- MODULE MCTripwire -----------------------------
EXTENDS Tripwire
=============================================================================
