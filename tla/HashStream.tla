----------------------------- MODULE HashStream -----------------------------
(* The buffering hash (hash::basic_hash with sha1 and md5): data comes in    *)
(* pieces of any length, whole blocks go through transform() and the rest    *)
(* waits in span_.  A machine word is HashWord bytes of HashByte values, a   *)
(* block is BlockBytes long; the compression function is taken to be free of *)
(* collisions, so that a chaining value is the list of blocks it has seen.   *)
EXTENDS Integers, Sequences, SequencesExt, Subject

CONSTANTS HashByte, HashWord, BlockBytes

ASSUME HashAssumption ==
    /\ HashByte \in Nat \ {0, 1} /\ HashWord \in Nat \ {0}
    /\ BlockBytes \in Nat /\ BlockBytes > 2 * HashWord
    /\ BlockBytes % HashWord = 0
    /\ \A n \in 0..HashWord : HashByte ^ n \in Nat \ {0}

HashU32 == HashByte ^ HashWord
BlockWithoutCount == BlockBytes - 2 * HashWord
PadMark == HashByte \div 2                   \* the highest bit of a byte
Zeros(n) == [i \in 1..n |-> 0]

-----------------------------------------------------------------------------
(* Byte order: sha1 is big-endian, md5 is little-endian. *)
BigBytes(word) == [i \in 1..HashWord |-> (word \div HashByte ^ (HashWord - i)) % HashByte]
LittleBytes(word) == Reverse(BigBytes(word))

BigCount(lo, hi) == BigBytes(hi) \o BigBytes(lo)
LittleCount(lo, hi) == LittleBytes(lo) \o LittleBytes(hi)
BitCount(alg, lo, hi) == IF alg = "sha1" THEN BigCount(lo, hi) ELSE LittleCount(lo, hi)

(* The words c2l() takes from a block, most significant byte first. *)
BigWords(block) ==
    [w \in 1..(BlockBytes \div HashWord) |->
        SubSeq(block, (w - 1) * HashWord + 1, w * HashWord)]
LittleWords(block) == [w \in DOMAIN BigWords(block) |-> Reverse(BigWords(block)[w])]

(* What transform() mixes into the state of the algorithm; the state is the  *)
(* list of what was mixed in.                                                *)
Sha1Transform(block) == BigWords(block)
Md5Transform(block) == LittleWords(block)

Mixed(alg, block) == IF alg = "sha1" THEN Sha1Transform(block) ELSE Md5Transform(block)
Transform(alg, chain, blocks) == chain \o [i \in DOMAIN blocks |-> Mixed(alg, blocks[i])]

(* The whole blocks of some data and the bytes after them. *)
Blocks(s) == [i \in 1..(Len(s) \div BlockBytes) |-> SubSeq(s, (i - 1) * BlockBytes + 1, i * BlockBytes)]
Rest(s) == SubSeq(s, (Len(s) \div BlockBytes) * BlockBytes + 1, Len(s))

-----------------------------------------------------------------------------
HashInit(alg) == [alg |-> alg, chain |-> <<>>, span |-> <<>>, lo |-> 0, hi |-> 0]

(* The length in bits, in two words, with the carry of the lower one. *)
CountedNoCarry(h, length) ==
    [h EXCEPT !.lo = (@ + length * 8) % HashU32,
              !.hi = (@ + ((length * 8) \div HashU32)) % HashU32]

Counted(h, length) ==
    LET lo == (h.lo + ((length * 8) % HashU32)) % HashU32
        carry == IF lo < h.lo THEN 1 ELSE 0
    IN  [h EXCEPT !.lo = lo, !.hi = (@ + carry + ((length * 8) \div HashU32)) % HashU32]

Update(h, data) ==
    LET c    == Counted(h, Len(data))
        rest == BlockBytes - Len(h.span)
        full == IF h.span = <<>> THEN <<>> ELSE <<h.span \o SubSeq(data, 1, rest)>>
        more == IF h.span = <<>> THEN data ELSE SubSeq(data, rest + 1, Len(data))
    IN  IF data = <<>> THEN h
        ELSE IF Len(data) < rest THEN [c EXCEPT !.span = @ \o data]
        ELSE [c EXCEPT !.chain = Transform(c.alg, @, full \o Blocks(more)), !.span = Rest(more)]

(* The digest and the object as on_result() leaves it, ready for new data. *)
Finalize(h) ==
    LET marked == Append(h.span, PadMark)
        spill  == Len(marked) > BlockWithoutCount
        chain  == IF spill
                  THEN Transform(h.alg, h.chain, <<marked \o Zeros(BlockBytes - Len(marked))>>)
                  ELSE h.chain
        span   == IF spill THEN Zeros(BlockWithoutCount)
                  ELSE marked \o Zeros(BlockWithoutCount - Len(marked))
    IN  [digest |-> Transform(h.alg, chain, <<span \o BitCount(h.alg, h.lo, h.hi)>>),
         hash |-> HashInit(h.alg)]

Once(alg, data) == Finalize(Update(HashInit(alg), data)).digest

-----------------------------------------------------------------------------
(* What the digest stands for: the message, the mark, as few zeros as make   *)
(* whole blocks, and the length of the message in bits.                      *)
PadLength(length) == CHOOSE n \in 0..BlockBytes - 1 : (length + 1 + n + 2 * HashWord) % BlockBytes = 0

PaddedBytes(alg, msg) ==
    LET bits == 8 * Len(msg)
    IN  msg \o <<PadMark>> \o Zeros(PadLength(Len(msg)))
          \o BitCount(alg, bits % HashU32, (bits \div HashU32) % HashU32)

PaddedMessage(alg, msg) ==
    LET all == PaddedBytes(alg, msg)
        block(i) == SubSeq(all, (i - 1) * BlockBytes + 1, i * BlockBytes)
    IN  [i \in 1..(Len(all) \div BlockBytes) |->
            IF alg = "sha1" THEN BigWords(block(i)) ELSE LittleWords(block(i))]

-----------------------------------------------------------------------------
(* One object of type sha1 or md5, fed piece by piece.  msg is a ghost: the  *)
(* bytes given to it since it was last finalized.                            *)
InitHash == \E alg \in {"sha1", "md5"} : subject = [part |-> "hash", hash |-> HashInit(alg), msg |-> <<>>]

UpdateHash(data) ==
    /\ subject.part = "hash"
    /\ subject' = [subject EXCEPT !.hash = Update(@, data), !.msg = @ \o data]

FinalizeHash ==
    /\ subject.part = "hash"
    /\ subject' = [subject EXCEPT !.hash = Finalize(@).hash, !.msg = <<>>]

(* HashOfMessage: however the bytes were cut into update() calls, and        *)
(* whatever was hashed by the same object before, the digest is that of the  *)
(* padded message, with its length in two words and the carry between them.  *)
HashOfMessage ==
    subject.part = "hash" =>
        LET padded == PaddedMessage(subject.hash.alg, subject.msg)
        IN  /\ Finalize(subject.hash).digest = padded
            /\ Once(subject.hash.alg, subject.msg) = padded
=============================================================================
