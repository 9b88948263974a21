--------------------------- MODULE MCSessionHosts ---------------------------
EXTENDS SessionHosts
CONSTANTS i1, i2, i3
=============================================================================
