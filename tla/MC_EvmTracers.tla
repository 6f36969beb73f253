--------------------------- MODULE MC_EvmTracers ---------------------------
EXTENDS EvmTracers
CONSTANTS a1, a2, a3, zero
=============================================================================
