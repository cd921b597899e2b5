------------------------------- MODULE MCBridge -------------------------------
EXTENDS Bridge, TLC

CONSTANTS ann, op1, op2, op3

MCUser     == {ann}
MCOperator == {op1, op2, op3}
MCRequired == {1, 2, 3}
MCTimeout  == {1}
Symmetry   == Permutations({op2, op3})
=============================================================================
