--------------------------- MODULE MCAudioBuffers ---------------------------
(* A ring of two samples, chunks smaller and larger than that.                *)
EXTENDS AudioBuffers

CONSTANT cava

MCChunkSizes == {1, 3}
MCValues == 0..MaxValues

=============================================================================
