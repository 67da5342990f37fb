--------------------- MODULE MCDoubleGeneralizedTotalizer ---------------------
\* Three input literals, fresh variables from 4.
EXTENDS DoubleGeneralizedTotalizer

MCInLits == {1, 2, 3}

MCFirstVar == 4

=============================================================================
