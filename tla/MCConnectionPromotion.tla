------------------------ MODULE MCConnectionPromotion ------------------------
EXTENDS ConnectionPromotion
=============================================================================
