--------------------------- MODULE MCRawConnection ---------------------------
EXTENDS RawConnection
=============================================================================
