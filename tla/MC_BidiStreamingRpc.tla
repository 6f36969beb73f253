------------------------ MODULE MC_BidiStreamingRpc ------------------------
(* One remote transaction of the KV client over a BidiStreamingRpc.        *)
EXTENDS BidiStreamingRpc

=============================================================================
