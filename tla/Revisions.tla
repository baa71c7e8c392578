------------------------------ MODULE Revisions ------------------------------
(* From the revision a user writes to the reports `cov log` and `cov show`   *)
(* look at (revparse.cc, builtin_log.cc, show.cc, show_range.cc).            *)
(* A repository is a record: refs maps full names, sequences of their parts, *)
(* to an oid or to another name; objects maps oids, positive numbers, to the *)
(* kind and the parent of the object.  A revision is a sequence of           *)
(* characters, where a name, or what a sha begins with, counts as one.       *)
EXTENDS Texts

NoOid == 0

IsReport(repo, id) == id \in DOMAIN repo.objects /\ repo.objects[id].kind = "report"

(* ref::next: no report, and a report without parent, lead nowhere. *)
NextReport(repo, id) == IF IsReport(repo, id) THEN repo.objects[id].parent ELSE NoOid

-----------------------------------------------------------------------------
Direct(id) == [type |-> "direct", id |-> id]
Symbolic(name) == [type |-> "symbolic", name |-> name]
Undetermined(name) == [type |-> "undetermined", name |-> name]

(* references_impl::dwim *)
DwimPrefixes == <<<<>>, <<"refs">>, <<"refs", "tags">>, <<"refs", "heads">>>>
Candidates(repo, shorthand) ==
    SelectSeq([i \in DOMAIN DwimPrefixes |-> Append(DwimPrefixes[i], shorthand)],
              LAMBDA name : name \in DOMAIN repo.refs)

(* symbolic_reference::peel_target: a name that is not there is peeled to    *)
(* an undetermined reference.  After as many links as there are references   *)
(* the chain is known to be a ring, which the loop never leaves.             *)
PeelTarget(repo, ref) ==
    LET follow(r) == IF r.type # "symbolic" THEN r
                     ELSE IF r.name \in DOMAIN repo.refs THEN repo.refs[r.name] ELSE Undetermined(r.name)
        after[i \in 0..Cardinality(DOMAIN repo.refs) + 1] == IF i = 0 THEN ref ELSE follow(after[i - 1])
    IN  after[Cardinality(DOMAIN repo.refs) + 1]

(* repository::current_head, as far as the parser asks: the branch HEAD is   *)
(* on and whether it is there.                                               *)
HeadUnborn(repo, base) ==
    LET head == PeelTarget(repo, repo.refs[<<"HEAD">>])
    IN  /\ head.type = "undetermined"
        /\ \/ base = "HEAD"
           \/ Len(head.name) = 3 /\ SubSeq(head.name, 1, 2) = <<"refs", "heads">> /\ base = head.name[3]

-----------------------------------------------------------------------------
Failed(error) == [error |-> error, id |-> NoOid]
Parsed(id) == [error |-> "", id |-> id]

(* get_number: one when no digits follow. *)
GetNumber(rev, i) ==
    LET end == FirstNotOf(rev, i, Range(Digits))
    IN  [end |-> end, number |-> IF end = i THEN 1 ELSE NumberOf(SubSeq(rev, i, end - 1))]

(* The loop over what follows the name: how many parents to go back. *)
ParentCount(rev, start) ==
    LET none == [error |-> "", count |-> 0]
        step[i \in start..Len(rev) + 1] ==
            IF i = Len(rev) + 1 THEN none
            ELSE LET n == GetNumber(rev, i + 1)
                     rest == step[n.end]
                 IN  CASE rev[i] = "^" /\ n.number > 1 -> [none EXCEPT !.error = "notfound"]
                       [] rev[i] \notin {"^", "~"} -> [none EXCEPT !.error = "invalidspec"]
                       [] OTHER -> [rest EXCEPT !.count = @ + n.number]
    IN  step[start]

(* Going back further than the first report leads to the zero oid. *)
Ancestor(repo, id, count) ==
    LET after[n \in 0..count] == IF n = 0 THEN id ELSE NextReport(repo, after[n - 1])
    IN  after[count]

(* What a name stands for.  A sha can be given by its first characters. *)
Target(repo, base, ref) ==
    CASE ref.type = "symbolic" -> Failed("never")
      [] ref.type = "undetermined" -> Failed(IF HeadUnborn(repo, base) THEN "unbornbranch" ELSE "notfound")
      [] OTHER -> Parsed(ref.id)

Named(repo, base) ==
    LET found == Candidates(repo, base)
    IN  IF found # <<>> THEN Target(repo, base, PeelTarget(repo, repo.refs[Head(found)]))
        ELSE IF base \in DOMAIN repo.partial THEN Parsed(repo.partial[base]) ELSE Failed("notfound")

GoBack(repo, named, parents) ==
    IF parents.error # "" THEN Failed(parents.error)
    ELSE IF named.error # "" \/ parents.count = 0 THEN named
    ELSE IF IsReport(repo, named.id) THEN Parsed(Ancestor(repo, named.id, parents.count))
    ELSE Failed("wrong_object_type")

(* revs::parse_single *)
ParseSingle(repo, rev) ==
    LET start == FirstOf(rev, 1, {"^", "~"})
    IN  GoBack(repo, Named(repo, IF start = 2 THEN rev[1] ELSE "?"), ParentCount(rev, start))

-----------------------------------------------------------------------------
LocateRangeGiven(repo, from, to) == from

(* locate_range: two walks in turns, each looking for a report the other     *)
(* one has been at; NoOid when they end without meeting.                     *)
LocateRange(repo, from, to) ==
    LET steps == Cardinality(DOMAIN repo.objects) + 1
        turn(w) ==
          LET allowed == w.allowed \cup ({w.top} \ {NoOid})
          IN  CASE w.met # NoOid \/ (w.top = NoOid /\ w.bottom = NoOid) -> w
                [] w.met = NoOid /\ w.top # NoOid /\ w.top \in w.unallowed -> [w EXCEPT !.met = w.top]
                [] w.met = NoOid /\ w.top \notin w.unallowed /\ w.bottom # NoOid /\ w.bottom \in allowed ->
                     [w EXCEPT !.met = w.bottom]
                [] OTHER -> [met |-> NoOid, allowed |-> allowed,
                             unallowed |-> w.unallowed \cup ({w.bottom} \ {NoOid}),
                             top |-> NextReport(repo, w.top), bottom |-> NextReport(repo, w.bottom)]
        after[i \in 0..steps] ==
          IF i = 0 THEN [met |-> NoOid, allowed |-> {}, unallowed |-> {}, top |-> to, bottom |-> from]
          ELSE turn(after[i - 1])
    IN  IF from = NoOid \/ to = NoOid THEN from ELSE after[steps].met

(* An end of a range has to be a report, if it is anything. *)
OnlyReport(repo, parsed) ==
    IF parsed.error = "" /\ parsed.id # NoOid /\ ~IsReport(repo, parsed.id)
    THEN Failed("wrong_object_type") ELSE parsed

RangeEnd(repo, rev, head) == IF rev = <<>> THEN head ELSE OnlyReport(repo, ParseSingle(repo, rev))

Spanned(repo, head, from, to) ==
    LET error == IF head.error # "" THEN head.error
                 ELSE IF from.error # "" THEN from.error ELSE to.error
    IN  IF error # "" THEN [error |-> error, single |-> FALSE, from |-> NoOid, to |-> NoOid]
        ELSE [error |-> "", single |-> FALSE, to |-> to.id, from |-> LocateRange(repo, from.id, to.id)]

ParseEnds(repo, from_rev, to_rev, head) ==
    Spanned(repo, head, RangeEnd(repo, from_rev, head), RangeEnd(repo, to_rev, head))

Alone(parsed) == [error |-> parsed.error, single |-> TRUE, from |-> NoOid, to |-> parsed.id]

(* revs::parse *)
ParseRevs(repo, range) ==
    LET dots == {i \in 1..Len(range) - 1 : range[i] = "." /\ range[i + 1] = "."}
        pos == CHOOSE i \in dots : \A k \in dots : i <= k
        from_rev == Before(range, pos)
        to_rev == From(range, pos + 2)
        broken == (from_rev = <<>> /\ to_rev = <<>>) \/ (to_rev # <<>> /\ to_rev[1] = ".")
    IN  IF dots = {} THEN Alone(ParseSingle(repo, range))
        ELSE ParseEnds(repo, from_rev, to_rev,
                       IF broken THEN Failed("invalidspec")
                       ELSE IF from_rev = <<>> \/ to_rev = <<>> THEN ParseSingle(repo, <<"HEAD">>)
                       ELSE Parsed(NoOid))

-----------------------------------------------------------------------------
NoLimit == -1

(* navigate: an object that is no report is presented, and is the last. *)
Navigate(repo, range, max_count) ==
    LET steps == Cardinality(DOMAIN repo.objects) + 1
        walk[n \in 0..steps] ==
          IF n = 0 THEN [id |-> range.to, shown |-> <<>>]
          ELSE LET w == walk[n - 1]
               IN  IF w.id \in {NoOid, range.from} \/ Len(w.shown) = max_count \/ w.id \notin DOMAIN repo.objects
                   THEN w ELSE [id |-> NextReport(repo, w.id), shown |-> Append(w.shown, w.id)]
    IN  walk[steps].shown

(* builtin log *)
LogRange(repo, range, max_count) ==
    LET error == IF range.error # "" THEN range.error
                 ELSE IF ~IsReport(repo, range.to) THEN "wrong_object_type" ELSE ""
    IN  [error |-> error, shown |-> IF error # "" THEN <<>> ELSE Navigate(repo, range, max_count)]

LogCommand(repo, rev, max_count) == LogRange(repo, ParseRevs(repo, rev), max_count)

(* The parser of show: revision and path are parted by the first colon. *)
SplitPath(rev) ==
    LET colon == FirstOf(rev, 1, {":"})
    IN  [revision |-> Before(rev, colon), path |-> From(rev, colon + 1)]

(* report_diff: the objects whose file lists are compared.  A build or a     *)
(* file list is compared with itself, a report with its parent or, without   *)
(* one, with itself, a range with the report it was found to start from.     *)
LookupError(repo, id) == IF IsReport(repo, id) THEN ""
                         ELSE IF id \in DOMAIN repo.objects THEN "wrong_object_type" ELSE "notfound"

ReportDiff(repo, range) ==
    LET list == range.to \in DOMAIN repo.objects /\ repo.objects[range.to].kind \in {"build", "files"}
        parent == NextReport(repo, range.to)
        older == IF range.single THEN IF list \/ parent = NoOid THEN range.to ELSE parent ELSE range.from
        error == IF range.single /\ list THEN ""
                 ELSE IF ~IsReport(repo, range.to) THEN LookupError(repo, range.to)
                 ELSE IF range.single THEN "" ELSE LookupError(repo, range.from)
    IN  [error |-> error, newer |-> range.to, older |-> older]

(* What builtin show prints above the table of a whole report; an empty      *)
(* range is shown as its report.                                             *)
RootPrinted(repo, range) ==
    LET alone == ~range.single /\ range.from = range.to
    IN  Navigate(repo, IF alone THEN [range EXCEPT !.single = TRUE, !.from = NoOid] ELSE range, 1)

ShowRange(repo, range, path) ==
    LET diff == ReportDiff(repo, range)
    IN  IF range.error # "" THEN [error |-> range.error]
        ELSE IF diff.error # "" THEN [error |-> diff.error]
        ELSE [error |-> "", path |-> path, newer |-> diff.newer, older |-> diff.older,
              above |-> IF path = <<>> THEN RootPrinted(repo, range) ELSE <<>>]

ShowCommand(repo, rev) ==
    LET parts == SplitPath(rev) IN ShowRange(repo, ParseRevs(repo, parts.revision), parts.path)

-----------------------------------------------------------------------------
(* print_facade: the text is stripped at its end, and what follows the marks *)
(* of a known format starts in one column, counted in bytes.                 *)
AlignMark == "|>"

PrintFacade(text, rstrip, add_align_marks) ==
    LET msg == IF rstrip THEN Rstrip(text) ELSE text
        marks == {i \in DOMAIN msg : msg[i] = AlignMark}
        lineStart(i) == LET breaks == {k \in 1..i - 1 : msg[k] = LF}
                        IN  IF breaks = {} THEN 1 ELSE (CHOOSE k \in breaks : \A j \in breaks : j <= k) + 1
        width(i) == i - lineStart(i)
        alignment == IF marks = {} THEN 0
                     ELSE LET widest == CHOOSE i \in marks : \A k \in marks : width(k) <= width(i) IN width(widest)
    IN  IF ~add_align_marks THEN msg
        ELSE FlattenSeq([i \in DOMAIN msg |->
               IF i \in marks THEN [k \in 1..alignment - width(i) |-> " "] ELSE <<msg[i]>>])

-----------------------------------------------------------------------------
(* Which names a reference may have (reference::is_valid_name).  A name is a *)
(* sequence of characters; "lock" counts as one, as only ".lock" matters.    *)
Forbidden == {"*", ":", "?", "[", "DQ", "^", "~", " ", "\t", "control"}
Upper == {"A", "_"}

(* The part of a name from one slash to the next.  (The first character of   *)
(* an empty part is taken to be the one behind it in the name.)              *)
BadPart(name, from, to) ==
    LET part == SubSeq(name, from, to)
    IN  name[from] = "." \/ IsSuffix(<<".", "lock">>, part)

NameStep(name, s, i) ==
    LET c == name[i]
        refused == \/ c \in Forbidden
                   \/ c = "." /\ s.seen = "."
                   \/ c = "{" /\ s.seen = "@"
                   \/ c = "/" /\ (s.seen = "/" \/ BadPart(name, s.part, i - 1))
    IN  [ok |-> s.ok /\ ~refused, part |-> IF c = "/" THEN i + 1 ELSE s.part, seen |-> c]

IsValidName(name) ==
    LET after[i \in 0..Len(name)] ==
            IF i = 0 THEN [ok |-> TRUE, part |-> 1, seen |-> ""] ELSE NameStep(name, after[i - 1], i)
        end == after[Len(name)]
    IN  /\ name # <<>> /\ end.ok /\ end.seen # "/"
        /\ ~BadPart(name, end.part, Len(name))
        /\ end.part = 1 => Range(name) \subseteq Upper

(* branch-tag.hh: a branch or a tag is asked about by its full name. *)
IsValidBranch(name) == IsValidName(<<"r", "/", "h", "/">> \o name)
=============================================================================
