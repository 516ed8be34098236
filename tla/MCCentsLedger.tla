---------------------------- MODULE MCCentsLedger ----------------------------
EXTENDS CentsLedger

\* Every amount of a 6-bit integer, as balance and as argument.
EveryAmount == Cents
=============================================================================
