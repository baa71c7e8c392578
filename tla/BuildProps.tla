----------------------------- MODULE BuildProps -----------------------------
(* The properties of a build: `cov report -p name=value` makes a JSON text   *)
(* of them (report::builder), kept in the build and read again to be shown   *)
(* (report::build::properties).  A text given is a sequence of characters, a *)
(* whole word being one of them; a JSON text is the sequence of its members,  *)
(* kept without the braces around them.  Writing and reading JSON is the     *)
(* library's.                                                                *)
EXTENDS Texts

LongMax == 99       \* the largest number a long long holds, small here

String(s) == <<"string", s>>
Bool(b) == <<"bool", b>>
Number(n) == <<"number", n>>

(* node: a quote is a string, also one that is never closed; what is left of *)
(* on, off, true and false are numbers that fit, and strings.                *)
Unquoted(value) ==
    LET inner == Tail(value)
    IN  IF inner # <<>> /\ Last(inner) = Head(value) THEN Front(inner) ELSE inner

Signed0(value) == IF value # <<>> /\ Head(value) = "-" THEN Tail(value) ELSE value
IsNumber(value) == IsDigits(Signed0(value)) /\ NumberOf(Signed0(value)) <= LongMax

Node(value) ==
    IF value # <<>> /\ Head(value) \in {"'", "DQ"} THEN String(Unquoted(value))
    ELSE IF value \in {<<"true">>, <<"on">>} THEN Bool(TRUE)
    ELSE IF value \in {<<"false">>, <<"off">>} THEN Bool(FALSE)
    ELSE IF IsNumber(value)
    THEN Number(IF Head(value) = "-" THEN -NumberOf(Tail(value)) ELSE NumberOf(value))
    ELSE String(value)

(* json::map::set: a name keeps the place it was first given at. *)
SetMember(members, name, value) ==
    IF \E i \in DOMAIN members : members[i][1] = name
    THEN [i \in DOMAIN members |-> IF members[i][1] = name THEN <<name, value>> ELSE members[i]]
    ELSE Append(members, <<name, value>>)

(* report::builder::properties *)
Property(given) ==
    LET prop == Strip(given)
        pos == FirstOf(prop, 1, {"="})
    IN  IF pos > Len(prop) THEN <<prop, String(<<>>)>>
        ELSE <<Strip(Before(prop, pos)), Node(Strip(From(prop, pos + 1)))>>

PropsFrom(propset) ==
    FoldLeft(LAMBDA members, given : SetMember(members, Property(given)[1], Property(given)[2]), <<>>, propset)

(* normalize, escape_dict: the text is read with its braces and written      *)
(* again without them.  A name found twice has its last value.               *)
Normalize(text) == FoldLeft(LAMBDA members, m : SetMember(members, m[1], m[2]), <<>>, text)

(* report::build::properties *)
PropertiesOf(text) ==
    LET members == Range(Normalize(text))
    IN  [name \in {m[1] : m \in members} |-> (CHOOSE m \in members : m[1] = name)[2]]
=============================================================================
