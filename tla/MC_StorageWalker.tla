-------------------------- MODULE MC_StorageWalker --------------------------
EXTENDS StorageWalker
=============================================================================
