---------------------------- MODULE MCDayOfMatch ----------------------------
EXTENDS DayOfMatch

CONSTANTS t1, t2
=============================================================================
