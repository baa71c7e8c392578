------------------------------- MODULE Layout -------------------------------
(* How reports, builds, file lists and coverage are laid out in an object of *)
(* the database (cov::io::handlers).  A stream is a sequence of 32-bit words;*)
(* the only bytes anybody looks at are the ones of the string table, so a    *)
(* word is four base-Byte digits and Byte is small.  Identifiers and         *)
(* statistics are opaque runs of words.                                      *)
EXTENDS Integers, Sequences, SequencesExt, FiniteSets, Orders

CONSTANT Byte      \* how many values a byte has (256 in the program)

ASSUME ByteAssumption == Byte \in Nat \ {0, 1}

Word == Byte * Byte * Byte * Byte

-----------------------------------------------------------------------------
(* A struct is a sequence of <<field, size in words>>; its value maps each   *)
(* field to that many words.                                                 *)
SizeOf(struct) == FoldLeft(LAMBDA n, f : n + f[2], 0, struct)

Fields(struct) == {struct[i][1] : i \in DOMAIN struct}

Pack(struct, value) ==
    FlattenSeq([i \in DOMAIN struct |-> value[struct[i][1]]])

Unpack(struct, words) ==
    [f \in Fields(struct) |->
        LET i == CHOOSE j \in DOMAIN struct : struct[j][1] = f
            before == SizeOf(SubSeq(struct, 1, i - 1))
        IN  SubSeq(words, before + 1, before + struct[i][2])]

CoverageStats == 7
GitOid == 5
ZeroOid == <<0, 0, 0, 0, 0>>
NoStats == <<0, 0>>

FileHeader == <<<<"magic", 1>>, <<"version", 1>>>>

ReportCommit ==
    << <<"branch", 1>>, <<"author_name", 1>>, <<"author_email", 1>>,
       <<"committer_name", 1>>, <<"committer_email", 1>>, <<"message", 1>>,
       <<"commit_id", GitOid>>, <<"committed", 2>> >>

ReportHeader ==
    << <<"strings", 2>>, <<"parent", GitOid>>, <<"file_list", GitOid>>,
       <<"entries", 3>>, <<"added", 2>> >>
      \o ReportCommit \o << <<"stats", CoverageStats>> >>

ReportEntry ==
    << <<"build", GitOid>>, <<"propset", 1>>, <<"stats", CoverageStats>> >>

BuildHeader ==
    << <<"strings", 2>>, <<"file_list", GitOid>>, <<"added", 2>>,
       <<"propset", 1>>, <<"stats", CoverageStats>> >>

TableHeader == << <<"strings", 2>>, <<"entries", 3>> >>

FilesBasic ==
    << <<"path", 1>>, <<"contents", GitOid>>, <<"lines_total", 1>>,
       <<"lines", 2>>, <<"line_coverage", GitOid>> >>

FilesExt ==
    FilesBasic \o << <<"functions", 2>>, <<"function_coverage", GitOid>>,
                     <<"branches", 2>>, <<"branch_coverage", GitOid>> >>

FunctionEntry ==
    << <<"name", 1>>, <<"demangled_name", 1>>, <<"count", 1>>,
       <<"start", 2>>, <<"end", 2>> >>

(* The sizes the program asserts when it is compiled. *)
ASSUME StructSizes ==
    /\ SizeOf(ReportHeader) = 37
    /\ SizeOf(ReportCommit) = 13
    /\ SizeOf(ReportEntry) = 13
    /\ SizeOf(BuildHeader) = 17
    /\ SizeOf(TableHeader) = 5
    /\ SizeOf(FilesBasic) = 14
    /\ SizeOf(FilesExt) = 28
    /\ SizeOf(FunctionEntry) = 7

TimeStamp(seconds) == <<(seconds \div Word) % Word, seconds % Word>>
ToSeconds(ts) == ts[1] * Word + ts[2]

-----------------------------------------------------------------------------
(* The string table: every string once, in order, each closed by a NUL, the  *)
(* whole padded to words.                                                    *)
StringsBuilder(strings) ==
    LET sorted  == Sorted(strings, TupleLess)
        bytes   == FlattenSeq([i \in DOMAIN sorted |-> Append(sorted[i], 0)])
        fill32  == [i \in 1..((4 - (Len(bytes) % 4)) % 4) |-> 0]
        start(i) == FoldLeft(LAMBDA n, s : n + Len(s) + 1, 0, SubSeq(sorted, 1, i - 1))
    IN  [bytes |-> bytes \o fill32, offsets |-> [i \in DOMAIN sorted |-> start(i)]]

At(bytes, offset) ==
    IF offset >= Len(bytes) THEN <<>>
    ELSE LET nul == CHOOSE n \in offset + 1 .. Len(bytes) + 1 :
                      /\ n > Len(bytes) \/ bytes[n] = 0
                      /\ \A k \in offset + 1 .. n - 1 : bytes[k] # 0
         IN  SubSeq(bytes, offset + 1, nul - 1)

IsValid(bytes, offset) ==
    offset < Len(bytes) /\ (offset = 0 \/ bytes[offset] = 0)

Locate(stg, str) ==
    LET notLess == {i \in DOMAIN stg.offsets : ~TupleLess(At(stg.bytes, stg.offsets[i]), str)}
        it == CHOOSE i \in notLess : \A j \in notLess : i <= j
    IN  IF notLess = {} \/ At(stg.bytes, stg.offsets[it]) # str
        THEN Len(stg.bytes) + 1
        ELSE stg.offsets[it]

ToWords(bytes) ==
    [i \in 1..(Len(bytes) \div 4) |->
        LET b(k) == bytes[4 * (i - 1) + k]
        IN  b(1) + Byte * (b(2) + Byte * (b(3) + Byte * b(4)))]

ToBytes(words) ==
    FlattenSeq([i \in DOMAIN words |->
        <<words[i] % Byte, (words[i] \div Byte) % Byte,
          (words[i] \div (Byte * Byte)) % Byte, words[i] \div (Byte * Byte * Byte)>>])

After(stg, header) == <<SizeOf(header), Len(stg.bytes) \div 4>>

AlignArray(stg, header, entry, count) ==
    <<(Len(stg.bytes) \div 4) + SizeOf(header), SizeOf(entry),
      IF count < Word THEN count ELSE Word - 1>>

-----------------------------------------------------------------------------
(* Reading: each load either fails (bad_syntax) or returns the object.       *)
BadSyntax == [ok |-> FALSE, err |-> "bad_syntax"]
Loaded(object) == [ok |-> TRUE, object |-> object]

BlockValid(strings, header) == strings[1] >= SizeOf(header)

ArrayValid(entries, strings, entry) ==
    /\ entries[2] >= SizeOf(entry)
    /\ entries[1] >= (strings[1] + strings[2]) % Word

HeaderValid(h, header, entry) ==
    BlockValid(h.strings, header) /\ ArrayValid(h.entries, h.strings, entry)

(* The stream after the header has been read, skipped to the strings. *)
HasStrings(in, h) == Len(in) >= h.strings[1] + h.strings[2]
LoadStrings(in, h) ==
    ToBytes(SubSeq(in, h.strings[1] + 1, h.strings[1] + h.strings[2]))

(* Where skipping to the entries leads, and reading each of them in the      *)
(* size the file says.                                                       *)
EntriesAt(h) ==
    LET end == h.strings[1] + h.strings[2]
    IN  end + (h.entries[1] - (end % Word))

HasEntries(in, h) == Len(in) >= EntriesAt(h) + h.entries[2] * h.entries[3]

LoadEntryPacked(in, h, entry, i) ==
    LET from == EntriesAt(h) + SizeOf(entry) * (i - 1)
    IN  Unpack(entry, SubSeq(in, from + 1, from + SizeOf(entry)))

LoadEntry(in, h, entry, i) ==
    LET from == EntriesAt(h) + h.entries[2] * (i - 1)
    IN  Unpack(entry, SubSeq(in, from + 1, from + SizeOf(entry)))
=============================================================================
