--------------------------- MODULE MCDayPipeline ---------------------------
EXTENDS DayPipeline, TLC

MCNames == 1..5

RecSymmetry == Permutations(Rec)
=============================================================================
