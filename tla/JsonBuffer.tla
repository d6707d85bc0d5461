----------------------------- MODULE JsonBuffer -----------------------------
(***************************************************************************)
(* The buffer cJSON prints into (src/Enclave/json/cJSON.c): every function *)
(* of the printer asks ensure for the room it needs and then writes.  A    *)
(* piece is that request with the bytes written behind it.                 *)
(***************************************************************************)
EXTENDS Integers, Sequences

CONSTANT DefaultBufferSize   \* bytes allocated before anything is printed

ASSUME BufferAssumption == DefaultBufferSize \in Nat \ {0}

\* (mutant: what is printed already is forgotten)
EnsureNeeded(size, offset, needed) ==
  IF needed + 1 <= size THEN size ELSE 2 * (needed + 1)

\* ensure: the size of the buffer it returns (a size beyond INT_MAX, where
\* it gives up, is not modelled).
Ensure(size, offset, needed) ==
  IF needed + offset + 1 <= size THEN size ELSE 2 * (needed + offset + 1)

\* The buffer after a piece: its size and the offset.  The last byte may have
\* a terminator behind it, and the next ensure refuses an offset that is not
\* in the buffer.
WritePiece(buffer, piece) ==
  LET size == Ensure(buffer.size, buffer.offset, piece.needed)
      end  == buffer.offset + Len(piece.bytes)
  IN  [size |-> size, offset |-> end, fits |-> buffer.fits /\ end < size]

EmptyBuffer == [size |-> DefaultBufferSize, offset |-> 0, fits |-> TRUE]

\* The buffer after all of them.
BufferAfter(pieces) ==
  LET after[n \in 0..Len(pieces)] ==
        IF n = 0 THEN EmptyBuffer ELSE WritePiece(after[n - 1], pieces[n])
  IN  after[Len(pieces)]

\* The pieces of a printer that asks for what it writes: at most one byte more.
Honest ==
  {p \in [needed : Nat, bytes : Seq(0..255)] :
     Len(p.bytes) <= p.needed /\ p.needed <= Len(p.bytes) + 1}
=============================================================================
