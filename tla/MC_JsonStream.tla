--------------------------- MODULE MC_JsonStream ---------------------------
EXTENDS JsonStream
=============================================================================
