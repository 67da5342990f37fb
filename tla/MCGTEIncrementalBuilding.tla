----------------------- MODULE MCGTEIncrementalBuilding -----------------------
\* Three input literals, fresh variables from 4 in both variable managers.
EXTENDS GTEIncrementalBuilding

MCInLits == {1, 2, 3}

MCFirstVar == 4

=============================================================================
