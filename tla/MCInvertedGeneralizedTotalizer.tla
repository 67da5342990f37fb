------------------- MODULE MCInvertedGeneralizedTotalizer -------------------
\* Three input literals, fresh variables from 4.
EXTENDS InvertedGeneralizedTotalizer

MCInLits == {1, 2, 3}

MCFirstVar == 4

=============================================================================
