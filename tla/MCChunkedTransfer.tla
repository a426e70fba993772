-------------------------- MODULE MCChunkedTransfer --------------------------
(* Model checking of ChunkedTransfer: a file of three buffers, the last not *)
(* full, a small one and a device that delivers over time, on one socket.   *)
EXTENDS ChunkedTransfer

CONSTANTS file, small, pipe

MCSize == [d \in Device |-> IF d = file THEN 5 ELSE IF d = small THEN 1 ELSE 3]
=============================================================================
