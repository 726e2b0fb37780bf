--------------------------- MODULE MCDesktopTurns ---------------------------
EXTENDS DesktopTurns
=============================================================================
