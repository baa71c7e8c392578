----------------------------- MODULE MCEncoding -----------------------------
(* Every small object through its handler and back, and every way to feed a  *)
(* message to the hash.  A behaviour either looks at one stored object or    *)
(* works with one hash object.                                               *)
EXTENDS Objects, HashStream, BuildProps

CONSTANT MaxMessage     \* the longest message hashed, in bytes

Strings == {<<>>, <<1>>, <<2, 1>>, <<1, 3, 3>>}
OidA == <<1, 2, 3, 4, 5>>
Stats(n) == <<n, n + 1, n + 2, n + 3, n + 4, n + 5, n + 6>>
Times == {0, Word - 1, Word, 2 * Word + 3}

BuildEntries == [build : {OidA}, props : {<<>>, <<1>>, <<3, 2>>}, stats : {Stats(1)}]

ReportOf(name, message, committed, builds) ==
    [parent |-> ZeroOid, file_list |-> OidA, commit_id |-> OidA, branch |-> name,
     author_name |-> <<2, 1>>, author_email |-> message, committer_name |-> <<2, 1>>,
     committer_email |-> name, message |-> message, committed |-> committed,
     added |-> Word + 1, stats |-> Stats(2), builds |-> builds]

FileEntry(path, functions) ==
    [path |-> path, contents |-> OidA, lines_total |-> <<7>>, lines |-> <<5, 4>>,
     line_coverage |-> OidA, functions |-> IF functions = ZeroOid THEN NoStats ELSE <<2, 1>>,
     function_coverage |-> functions, branches |-> NoStats, branch_coverage |-> ZeroOid]

Positions == {<<0, 0>>, <<0, 2>>, <<1, 0>>, <<Word - 1, 1>>}
FunctionSeqs ==
    SeqOf([name : {<<1>>, <<2, 1>>}, demangled_name : {<<>>, <<2, 1>>}, count : {<<3>>},
           start : Positions, end : Positions], 1)

(* The text hashed; a chunk is the next bytes of it. *)
Text == [i \in 1..MaxMessage |-> (i * i) % HashByte]

Object(kind, obj) == [part |-> "object", kind |-> kind, obj |-> obj]

InitObjects ==
    \/ \E name, message \in Strings, committed \in Times, builds \in SeqOf(BuildEntries, 2) :
         subject = Object("report", ReportOf(name, message, committed, builds))
    \/ \E props \in Strings, added \in Times :
         subject = Object("build", [file_list |-> OidA, added |-> added, props |-> props, stats |-> Stats(3)])
    \/ \E paths \in SeqOf(Strings, 3), oids \in [1..3 -> {ZeroOid, OidA}] :
         subject = Object("files", FilesBuilder([i \in DOMAIN paths |-> FileEntry(paths[i], oids[i])]))
    \/ \E lines \in SeqOf({0, 1, Word - 1}, 4) : subject = Object("lines", lines)
    \/ \E fns \in FunctionSeqs : subject = Object("functions", fns)

(* What follows -p: one name, with the values that are read in some way. *)
GivenProps == {<<"a">> \o v : v \in {<<>>, <<"=">>, <<" ", "=", " ", "on">>, <<"=", "false", " ">>, <<"=", "b", "=">>,
                                    <<"=", "0", "7">>, <<"=", "-", "7">>, <<"=", "1", "0", "0">>, <<"=", "-">>,
                                    <<"=", "'">>, <<"=", "'", "7", "'">>, <<"=", "DQ", "on", "'">>}}
InitProps == \E given \in SeqOf(GivenProps \cup {<<" ", "b", "=", "'", " ", "7">>, <<"=", "on">>}, 3) :
                subject = [part |-> "props", given |-> given]

(* The next n bytes of the text. *)
FeedHash(n) ==
    /\ subject.part = "hash" /\ Len(subject.msg) + n <= MaxMessage
    /\ UpdateHash(SubSeq(Text, Len(subject.msg) + 1, Len(subject.msg) + n))

-----------------------------------------------------------------------------
IsObject == subject.part = "object"

(* Functions whose position the reader accepts. *)
Ordered == subject.kind = "functions" =>
             \A i \in DOMAIN subject.obj : ~PosAfter(subject.obj[i].start, subject.obj[i].end)

(* Each name given has the value given last, as the text it was written as   *)
(* when it is in quotes or stands for nothing else, and is there once.       *)
PropsRead ==
    subject.part = "props" =>
        LET given == subject.given
            text == PropsFrom(given)
            read == PropertiesOf(text)
            name(i) == Property(given[i])[1]
            value(i) == Strip(From(given[i], FirstOf(given[i], 1, {"="}) + 1))
            last == {i \in DOMAIN given : \A j \in i + 1..Len(given) : name(j) # name(i)}
            quoted(v) == v # <<>> /\ Head(v) \in {"'", "DQ"}
            spoken == {"on", "false"}
        IN  /\ Normalize(text) = text /\ Len(text) = Cardinality(DOMAIN read)
            /\ DOMAIN read = {name(i) : i \in DOMAIN given}
            /\ \A i \in last :
                 CASE read[name(i)][1] = "string" ->
                        /\ IsPrefix(read[name(i)][2], IF quoted(value(i)) THEN Tail(value(i)) ELSE value(i))
                        /\ Len(value(i)) - Len(read[name(i)][2]) <= IF quoted(value(i)) THEN 2 ELSE 0
                   [] OTHER -> ~quoted(value(i)) /\ Range(value(i)) \subseteq Range(Digits) \cup spoken \cup {"-"}

LoadsAs(stored, loaded) ==
    /\ Ordered => /\ loaded = Loaded(subject.obj)
                  /\ \A dh, de \in 0..2 : DbLoad(Newer(subject.kind, stored, dh, de)) = Loaded(subject.obj)
    /\ loaded.ok <=> Ordered
    /\ ~DbLoad([stored EXCEPT ![2] = @ + Half]).ok
    /\ \A n \in 0..Len(stored) - 1 : ~DbLoad(SubSeq(stored, 1, n)).ok
LoadsStored(stored) == LoadsAs(stored, DbLoad(stored))

(* LoadsBack: db_object::load returns exactly the object db_object::store    *)
(* was given: strings found again in the shared table, entries in their      *)
(* place, times wider than a word put together, basic file entries filled    *)
(* up.  So does the file of a later minor version, whose header and entries  *)
(* are longer than this program knows; one of another major version is       *)
(* refused, and so is every stream that ends early: a torn object is never   *)
(* taken for a shorter one.  A function list is refused just when a function *)
(* ends before it starts, as one does whose end column was left out.  The    *)
(* properties a build is given are the ones read from its text.              *)
LoadsBack ==
    /\ PropsRead
    /\ IsObject => LoadsStored(DbStore(subject.kind, subject.obj))
=============================================================================
