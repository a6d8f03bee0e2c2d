---------------------------- MODULE BufferLayout ----------------------------
(***************************************************************************)
(* The layout of the callback buffer (src/include/pipeasio_offsets.h),     *)
(* the one block in which every channel of the host has both its halves.   *)
(* The driver and the 64-bit half of the bridge each compute the places in *)
(* it on their own, in samples; a size_t is wide enough for any of them.   *)
(***************************************************************************)
EXTENDS Integers

Halves == 2     \* PIPEASIO_BUFFER_HALVES

\* Samples in the block of nIn inputs and nOut outputs (bytes in the code).
callback_size(nIn, nOut, size) == (nIn + nOut) * Halves * size

input_offset(i, size) == i * Halves * size
output_offset(i, nIn, size) == (nIn + i) * Halves * size
half_offset(half, size) == half * size

\* The half of a channel, in samples: the channels of a block are its inputs
\* followed by its outputs.
channel_offset(c, nIn, size) ==
    IF c < nIn THEN input_offset(c, size) ELSE output_offset(c - nIn, nIn, size)
first(c, half, nIn, size) == channel_offset(c, nIn, size) + half_offset(half, size)
Slice(c, half, nIn, size) ==
    first(c, half, nIn, size) .. first(c, half, nIn, size) + size - 1

-----------------------------------------------------------------------------
\* Every half of every channel lies inside the block.
Inside(nIn, nOut, size) ==
    \A c \in 0 .. nIn + nOut - 1, h \in 0 .. Halves - 1 :
        Slice(c, h, nIn, size) \subseteq 0 .. callback_size(nIn, nOut, size) - 1

\* No two of them share a sample, so a cycle of the one thread in one half never
\* touches what the other thread does in the other.
Apart(nIn, nOut, size) ==
    \A c, d \in 0 .. nIn + nOut - 1, g, h \in 0 .. Halves - 1 :
        c # d \/ g # h => Slice(c, g, nIn, size) \cap Slice(d, h, nIn, size) = {}
=============================================================================
