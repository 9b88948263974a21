----------------------------- MODULE MCCellsView -----------------------------
EXTENDS CellsView
CONSTANTS c1, c2
=============================================================================
