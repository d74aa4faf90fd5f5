---------------------------- MODULE MCLeadStore ----------------------------
EXTENDS LeadStore, TLC

MCGen == 1 .. 5
=============================================================================
