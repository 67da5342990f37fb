-------------------------- MODULE MCGTEDeterminism --------------------------
\* Three input literals, fresh variables from 4.
EXTENDS GTEDeterminism

MCInLits == {1, 2, 3}

MCFirstVar == 4

=============================================================================
