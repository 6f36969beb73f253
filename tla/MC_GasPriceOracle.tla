------------------------- MODULE MC_GasPriceOracle -------------------------
EXTENDS GasPriceOracle
=============================================================================
