------------------------------- MODULE Tools -------------------------------
(* From the words after `cov` to the tool that is run: aliases (tools.cc),   *)
(* the words of an alias (split_command.cc) and the command line a process   *)
(* is started with under Windows (win32.cc).  A text is a sequence of        *)
(* characters.                                                               *)
EXTENDS Integers, Sequences, SequencesExt, FiniteSets

Blank == " "
Quotes == {"'", "DQ"}           \* DQ is the double quote
Backslash == "BS"

-----------------------------------------------------------------------------
(* split_command: a quote is closed by its own kind and ends the word; a     *)
(* backslash takes the next character as it is, but not in single quotes.    *)
NoWord == [words |-> <<>>, word |-> <<>>, quote |-> "", escaped |-> FALSE]

SplitStep(s, c) ==
    CASE s.escaped -> [s EXCEPT !.word = Append(@, c), !.escaped = FALSE]
      [] ~s.escaped /\ s.quote = "" /\ c = Blank ->
           IF s.word = <<>> THEN s ELSE [s EXCEPT !.words = Append(@, s.word), !.word = <<>>]
      [] ~s.escaped /\ s.quote = "" /\ c \in Quotes -> [s EXCEPT !.quote = c]
      [] ~s.escaped /\ s.quote # "" /\ c = s.quote ->
           [s EXCEPT !.words = Append(@, s.word), !.word = <<>>, !.quote = ""]
      [] ~s.escaped /\ c = Backslash /\ s.quote # "'" -> [s EXCEPT !.escaped = TRUE]
      [] OTHER -> [s EXCEPT !.word = Append(@, c)]

SplitCommand(command) ==
    LET after[i \in 0..Len(command)] == IF i = 0 THEN NoWord ELSE SplitStep(after[i - 1], command[i])
        end == after[Len(command)]
    IN  IF end.word = <<>> THEN end.words ELSE Append(end.words, end.word)

-----------------------------------------------------------------------------
NoAlias == <<"none">>

(* resolve: the last entry of that name, so the most specific file wins. *)
Resolve(aliases, tool) ==
    LET of == SelectSeq(aliases, LAMBDA a : a.name = tool)
    IN  IF of = <<>> THEN NoAlias ELSE Last(of).command

(* handle_resolved: an own command before a program of that name. *)
HandleResolved(tool, args, builtins) ==
    [how |-> IF tool \in builtins THEN "builtin" ELSE "run_tool", tool |-> tool, args |-> args]

(* The loop of tools::handle: the words of each alias go before those of     *)
(* the ones before it.  Nothing ends the loop when an alias comes round, so  *)
(* after as many rounds as there are aliases it is known never to end.       *)
RECURSIVE Expand(_, _, _, _)
ExpandBehind(aliases, command, combined, rounds) ==
    LET words == SplitCommand(command)
        tool == Head(words)
    IN  IF words = <<>> THEN [end |-> "empty"]
        ELSE IF Resolve(aliases, tool) = NoAlias
             THEN [end |-> "tool", tool |-> tool, args |-> combined \o Tail(words)]
        ELSE IF rounds = 0 THEN [end |-> "never"]
        ELSE Expand(aliases, Resolve(aliases, tool), combined \o Tail(words), rounds - 1)
Expand(aliases, command, combined, rounds) ==
    LET words == SplitCommand(command)
        tool == Head(words)
    IN  IF words = <<>> THEN [end |-> "empty"]
        ELSE IF Resolve(aliases, tool) = NoAlias
             THEN [end |-> "tool", tool |-> tool, args |-> Tail(words) \o combined]
        ELSE IF rounds = 0 THEN [end |-> "never"]
        ELSE Expand(aliases, Resolve(aliases, tool), Tail(words) \o combined, rounds - 1)

HandleTool(tool, args, aliases, builtins) ==
    LET cmd == Resolve(aliases, tool)
        expanded == Expand(aliases, cmd, <<>>, Len(aliases))
        help == \E i \in DOMAIN args : args[i] \in {<<"-", "h">>, <<"--help">>}
    IN  IF cmd = NoAlias THEN HandleResolved(tool, args, builtins)
        ELSE IF help THEN [how |-> "help"]
        ELSE IF expanded.end # "tool" THEN [how |-> expanded.end]
        ELSE HandleResolved(expanded.tool, expanded.args \o args, builtins)

(* list_tools: the names of the groups asked for, each once.  The programs   *)
(* are the files named cov-... in the core directory.                        *)
ListAliases(aliases) == {aliases[i].name : i \in DOMAIN aliases}

ListExternals(core) == {Tail(f.name) : f \in {g \in core : ~g.dir /\ Head(g.name) = "cov-"}}

ListGroup(group, aliases, builtins, core) ==
    CASE group \in {"builtins", "builtin"} -> builtins
      [] group \in {"aliases", "alias"} -> ListAliases(aliases)
      [] group = "others" -> ListExternals(core)
      [] OTHER -> {}

ListTools(groups, aliases, builtins, core) ==
    UNION {ListGroup(groups[i], aliases, builtins, core) : i \in DOMAIN groups}

-----------------------------------------------------------------------------
(* append_arg: backslashes count for themselves unless a quote follows. *)
Repeated(c, n) == [i \in 1..n |-> c]

AppendArgStep(s, c) ==
    CASE c = Backslash -> [out |-> Append(s.out, c), slashes |-> s.slashes + 1]
      [] c = "DQ"      -> [out |-> s.out \o Repeated(Backslash, s.slashes) \o <<Backslash, c>>, slashes |-> 0]
      [] OTHER         -> [out |-> Append(s.out, c), slashes |-> 0]

AppendArg(arg) ==
    LET after[i \in 0..Len(arg)] == IF i = 0 THEN [out |-> <<"DQ">>, slashes |-> 0]
                                    ELSE AppendArgStep(after[i - 1], arg[i])
        end == after[Len(arg)]
    IN  IF Contains(arg, "DQ") \/ Contains(arg, Blank)
        THEN end.out \o Repeated(Backslash, end.slashes) \o <<"DQ">> ELSE arg

CommandLine(words) == FlattenSeq([i \in DOMAIN words |-> Append(AppendArg(words[i]), Blank)])

(* CommandLineToArgvW, for what CommandLine writes: 2n backslashes before a  *)
(* quote are n of them, one more makes the quote a character.                *)
ArgvStep(s, c) ==
    LET half == Repeated(Backslash, s.slashes \div 2)
    IN  CASE c = Backslash -> [s EXCEPT !.slashes = @ + 1]
          [] c = "DQ" -> IF s.slashes % 2 = 1 THEN [s EXCEPT !.word = @ \o half \o <<c>>, !.slashes = 0]
                         ELSE [s EXCEPT !.word = @ \o half, !.slashes = 0, !.quoted = ~@]
          [] c = Blank /\ ~s.quoted ->
               LET word == s.word \o Repeated(Backslash, s.slashes)
               IN  [s EXCEPT !.words = IF word = <<>> THEN @ ELSE Append(@, word), !.word = <<>>, !.slashes = 0]
          [] OTHER -> [s EXCEPT !.word = @ \o Repeated(Backslash, s.slashes) \o <<c>>, !.slashes = 0]

Argv(line) ==
    LET after[i \in 0..Len(line)] ==
            IF i = 0 THEN [words |-> <<>>, word |-> <<>>, slashes |-> 0, quoted |-> FALSE]
            ELSE ArgvStep(after[i - 1], line[i])
    IN  after[Len(line)].words
=============================================================================
