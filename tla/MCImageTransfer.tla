-------------------------- MODULE MCImageTransfer --------------------------
EXTENDS ImageTransfer, TLC
CONSTANTS p1, p2, u1, d1, d2
TwoPhotos == d1 :> p1 @@ d2 :> p2
=============================================================================
