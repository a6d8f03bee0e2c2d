---------------------------- MODULE MCTransport ----------------------------
(* Instances of Transport for TLC, and of the layout of the buffers it     *)
(* works in.                                                               *)
EXTENDS Transport, BufferLayout

\* Hosts that open the first outputs of the driver.
MCPrefixSets == {{}, {0}, {0, 1}}

\* The layout of small blocks, as tests/unit/test_offsets.c looks at it.
ASSUME SmallBlocks ==
    \A nIn, nOut \in 0 .. 2, size \in 0 .. 3 : Inside(nIn, nOut, size) /\ Apart(nIn, nOut, size)
=============================================================================
