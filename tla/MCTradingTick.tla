--------------------------- MODULE MCTradingTick ---------------------------
EXTENDS TradingTick
CONSTANTS p1, p2
=============================================================================
