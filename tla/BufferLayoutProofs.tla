------------------------- MODULE BufferLayoutProofs -------------------------
(***************************************************************************)
(* The callback buffer's slices, for every number of channels and every    *)
(* buffer size.                                                            *)
(***************************************************************************)
EXTENDS BufferLayout, TLAPS

\* The halves of the channels follow one another without a gap: half h of
\* channel c is number 2c + h.
LEMMA SliceNumber ==
  ASSUME NEW nIn \in Nat, NEW size \in Nat, NEW c \in Nat, NEW h \in 0 .. Halves - 1
  PROVE  /\ 2 * c + h \in Nat
         /\ first(c, h, nIn, size) = (2 * c + h) * size
<1>1. channel_offset(c, nIn, size) = c * Halves * size
  <2>1. CASE c < nIn
    BY <2>1 DEF channel_offset, input_offset
  <2>2. CASE ~(c < nIn)
    <3>1. nIn + (c - nIn) = c
      OBVIOUS
    <3> QED BY <2>2, <3>1 DEF channel_offset, output_offset
  <2> QED BY <2>1, <2>2
<1>2. c * 2 * size + h * size = (2 * c + h) * size
  <2>1. h = 0 \/ h = 1
    BY DEF Halves
  <2> QED BY <2>1, SMT
<1> QED BY <1>1, <1>2 DEF first, half_offset, Halves

\* Multiplying by the size keeps order, with room for one slice.
LEMMA NextSlice ==
  ASSUME NEW size \in Nat, NEW m \in Nat, NEW n \in Nat, m < n
  PROVE  m * size + size <= n * size
<1>1. PICK k \in Nat : n = m + 1 + k
  <2>1. n - m - 1 \in Nat
    OBVIOUS
  <2>2. n = m + 1 + (n - m - 1)
    OBVIOUS
  <2> QED BY <2>1, <2>2
<1>2. (m + 1 + k) * size = m * size + size + k * size
  BY SMT
<1>3. k * size \in Nat
  BY SMT
<1>4. m * size \in Nat /\ n * size \in Nat
  BY SMT
<1> QED BY <1>1, <1>2, <1>3, <1>4

\* Every half of every channel lies inside the block CreateBuffers allocates.
THEOREM SlicesInside == \A nIn, nOut, size \in Nat : Inside(nIn, nOut, size)
<1> SUFFICES ASSUME NEW nIn \in Nat, NEW nOut \in Nat, NEW size \in Nat,
                    NEW c \in 0 .. nIn + nOut - 1, NEW h \in 0 .. Halves - 1,
                    NEW s \in Slice(c, h, nIn, size)
             PROVE  s \in 0 .. callback_size(nIn, nOut, size) - 1
  BY DEF Inside
<1>1. c \in Nat /\ 2 * c + h \in Nat /\ 2 * c + h < 2 * (nIn + nOut)
  BY DEF Halves
<1>2. (2 * c + h) * size + size <= (2 * (nIn + nOut)) * size
  BY <1>1, NextSlice
<1>3. callback_size(nIn, nOut, size) = (2 * (nIn + nOut)) * size
  BY SMT DEF callback_size, Halves
<1>4. first(c, h, nIn, size) = (2 * c + h) * size
  BY <1>1, SliceNumber
<1>5. (2 * c + h) * size \in Nat /\ (2 * (nIn + nOut)) * size \in Nat
  BY <1>1, SMT
<1> QED BY <1>2, <1>3, <1>4, <1>5 DEF Slice

\* No sample belongs to two channels or to both halves of one.
THEOREM SlicesApart == \A nIn, nOut, size \in Nat : Apart(nIn, nOut, size)
<1> SUFFICES ASSUME NEW nIn \in Nat, NEW nOut \in Nat, NEW size \in Nat,
                    NEW c \in 0 .. nIn + nOut - 1, NEW d \in 0 .. nIn + nOut - 1,
                    NEW g \in 0 .. Halves - 1, NEW h \in 0 .. Halves - 1,
                    c # d \/ g # h,
                    NEW s \in Slice(c, g, nIn, size), s \in Slice(d, h, nIn, size)
             PROVE  FALSE
  BY DEF Apart
<1> DEFINE m == 2 * c + g
           n == 2 * d + h
<1>1. c \in Nat /\ d \in Nat /\ m \in Nat /\ n \in Nat /\ m # n
  BY DEF Halves
<1>2. first(c, g, nIn, size) = m * size /\ first(d, h, nIn, size) = n * size
  BY <1>1, SliceNumber
<1>3. /\ s \in Nat /\ m * size <= s /\ s < m * size + size
      /\ n * size <= s /\ s < n * size + size
  BY <1>2 DEF Slice
<1>4. m * size \in Nat /\ n * size \in Nat
  BY <1>1, SMT
<1> HIDE DEF m, n
<1>5. m < n => m * size + size <= n * size
  BY <1>1, NextSlice
<1>6. n < m => n * size + size <= m * size
  BY <1>1, NextSlice
<1> QED BY <1>1, <1>3, <1>4, <1>5, <1>6
=============================================================================
