--------------------------- MODULE MCBufferPool ---------------------------
(* Instances of BufferPool for TLC.                                        *)
EXTENDS BufferPool, TLC

MCVal == 0 .. Size - 1

\* Threads are interchangeable.
MCSymmetry == Permutations(Thread)
=============================================================================
