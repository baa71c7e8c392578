----------------------------- MODULE ConfigFile -----------------------------
(* A configuration file as libgit2 reads and writes it for the program: a    *)
(* sequence of lines.  A header opens a section, an other line is a comment  *)
(* or blank, an odd one is good for git and unknown to the clean-up grammar  *)
(* of module_config.cc.  A name is a section followed by a key.              *)
EXTENDS Integers, Sequences, SequencesExt

Header(section) == [kind |-> "header", section |-> section]
Value(key, value) == [kind |-> "value", key |-> key, value |-> value]
Other == [kind |-> "other"]

Headers(file) == {i \in DOMAIN file : file[i].kind = "header"}
SectionAt(file, i) ==
    LET above == {h \in Headers(file) : h <= i}
    IN  IF above = {} THEN <<>> ELSE file[CHOOSE h \in above : \A g \in above : g <= h].section

IsEntry(line) == line.kind \in {"value", "odd"}
NameAt(file, i) == Append(SectionAt(file, i), file[i].key)
Holds(file, i, name) == IsEntry(file[i]) /\ NameAt(file, i) = name

(* foreach_entry: the entries in the order of the file. *)
EntriesOf(file) ==
    LET entry(i) == IF IsEntry(file[i]) THEN <<[name |-> NameAt(file, i), value |-> file[i].value]>> ELSE <<>>
    IN  FlattenSeq([i \in DOMAIN file |-> entry(i)])
ValuesOf(file, name) ==
    LET held == SelectSeq(EntriesOf(file), LAMBDA e : e.name = name) IN [i \in DOMAIN held |-> held[i].value]

(* delete_multivar(name, ".*"): the headers stay. *)
DeleteAll(file, name) ==
    LET line(i) == IF Holds(file, i, name) THEN <<>> ELSE <<file[i]>>
    IN  FlattenSeq([i \in DOMAIN file |-> line(i)])

(* The first section of that name takes the value, or a new one at the end. *)
AppendEntry(file, name, value) ==
    LET section == Front(name)
        mine == {h \in Headers(file) : file[h].section = section}
        first == CHOOSE h \in mine : \A g \in mine : h <= g
        after == {g \in Headers(file) : g > first}
        end == IF after = {} THEN Len(file) ELSE (CHOOSE g \in after : \A f \in after : g <= f) - 1
    IN  IF mine = {} THEN file \o <<Header(section), Value(Last(name), value)>>
        ELSE SubSeq(file, 1, end) \o <<Value(Last(name), value)>> \o SubSeq(file, end + 1, Len(file))

(* set_multivar(name, "^$", value): an empty value is replaced. *)
SetMultivar(file, name, value) ==
    IF "" \in {ValuesOf(file, name)[i] : i \in DOMAIN ValuesOf(file, name)}
    THEN [i \in DOMAIN file |-> IF Holds(file, i, name) /\ file[i].value = "" THEN Value(Last(name), value)
                                ELSE file[i]]
    ELSE AppendEntry(file, name, value)

(* set_string and delete_entry refuse a name that has several values. *)
SetString(file, name, value) ==
    CASE Len(ValuesOf(file, name)) = 0 -> [ok |-> TRUE, file |-> AppendEntry(file, name, value)]
      [] Len(ValuesOf(file, name)) = 1 ->
           [ok |-> TRUE, file |-> [i \in DOMAIN file |-> IF Holds(file, i, name) THEN Value(Last(name), value)
                                                         ELSE file[i]]]
      [] OTHER -> [ok |-> FALSE, file |-> file]
DeleteEntry(file, name) ==
    IF Len(ValuesOf(file, name)) = 1 THEN [ok |-> TRUE, file |-> DeleteAll(file, name)]
    ELSE [ok |-> FALSE, file |-> file]
=============================================================================
