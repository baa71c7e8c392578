------------------------------ MODULE MCSetup ------------------------------
(* What a user sets up: modules, settings, aliases and exclusion marks, over *)
(* every small file and command.                                             *)
EXTENDS Subject, Modules, Settings, Tools, Excludes

CONSTANT MaxLines       \* the longest source text with marks, in lines
MaxListed == 6          \* paths one module may have: two in a file, one per command, and one to spare

Op(cmd, args) == [cmd |-> cmd, args |-> args]
Ops == {Op("set_separator", <<"::">>), Op("set_separator", <<"">>), Op("remove_module", <<"M">>),
        Op("show", <<>>), Op("add_path", <<"M">>)}
         \cup {Op(c, <<m, p>>) : c \in {"add_path", "remove_path"}, m \in {"M", "N"}, p \in {"a", "b"}}

ModuleFiles ==
    LET core == <<Header(<<"core">>), Value("x", "1")>>
        m == <<Header(<<"module", "M">>), Value("path", "a")>>
        n == <<Other, Header(<<"module", "N">>), Value("path", "b"), Value("path", "a")>>
        rest == <<Header(<<"module", "M">>), Value("path", "b"), Other>>
        sep == <<Header(<<"module">>), Value("sep", "/")>>
    IN  {<<>>, core \o m, m \o n \o core, sep \o m \o core \o m, m \o core \o rest, n \o rest \o sep \o m,
         sep \o core, n \o sep \o sep}

InitModules ==
    \E file \in ModuleFiles, ops \in SeqOf(Ops, 3) :
        subject = [part |-> "modules", file |-> file, ops |-> ops]

Scope(which) == [kind |-> "scope", which |-> which]
Command(cmd, val) == [kind |-> "command", cmd |-> cmd, val |-> val]
Arg(val) == [kind |-> "arg", val |-> val]
NameX == <<"core", "x">>
ConfigTokens ==
    {<<t>> \o u : t \in {Arg(NameX), Command("add", NameX), Command("get", NameX), Command("get_all", NameX),
                         Command("unset", NameX), Command("unset_all", NameX), Command("list", NameX)},
                  u \in {<<>>, <<Arg("v")>>, <<Arg("v"), Arg("w")>>, <<Command("get", NameX)>>}}
ConfigCalls == ConfigTokens \cup {<<Scope(s)>> \o t : s \in {"local", "global", "system"}, t \in ConfigTokens}

ConfigFiles == {[file |-> <<>>, access |-> "none"]}
    \cup [file : {<<>>, <<Header(<<"core">>), Value("x", "1"), Value("y", "2")>>}, access : {"r", "rw"}]
    \cup [file : {<<Header(<<"core">>), Value("x", "1"), Value("x", "")>>}, access : {"rw"}]

(* The user's files are where the first variable that is set says; every     *)
(* other place of theirs holds a file that nobody should look at.            *)
Decoy == [file |-> <<Header(<<"core">>), Value("x", "decoy")>>, access |-> "rw"]
XdgPlaces == <<<<"XDG_CONFIG_HOME", "xdg", "config">>, <<"HOME", "home", ".config">>, <<"USERPROFILE", "profile", ".config">>>>
GlobalPlaces == <<<<"HOME", "home", ".covconfig">>, <<"USERPROFILE", "profile", ".covconfig">>>>
PlacedFiles(env, vars) ==
    LET at(places, level) ==
            LET there == SelectSeq(places, LAMBDA place : place[1] \in vars)
            IN  [p \in {Tail(place) : place \in Range(places)} |->
                   IF there # <<>> /\ Tail(Head(there)) = p THEN env[level] ELSE Decoy]
    IN  at(XdgPlaces, "xdg") @@ at(GlobalPlaces, "global")
          @@ <<"sysroot", "etc">> :> env["system"] @@ <<"repository", "config">> :> env["local"]

InitSettings ==
    \E env \in [Range(Levels) -> ConfigFiles], vars \in SUBSET {"XDG_CONFIG_HOME", "HOME", "USERPROFILE"},
       inRepo \in BOOLEAN, tokens \in ConfigCalls :
        /\ env["system"].file = <<>> \/ env["xdg"].file = <<>>
        /\ env["local"].access = IF inRepo THEN "rw" ELSE "none"
        /\ vars # {"HOME"} => env["system"].access = "none" /\ env["global"].access # "r" /\ env["local"].file = <<>>
        /\ subject = [part |-> "settings", disk |-> PlacedFiles(env, vars), vars |-> vars, inRepo |-> inRepo,
                      tokens |-> tokens]

GivenWords == SeqOf({<<"a">>, <<"b">>, <<>>, <<"a", " ", "b">>, <<"'", "DQ">>, <<"BS">>, <<"BS", "DQ">>,
                <<"a", "BS", "BS", " ", "BS">>}, 3)
Alias(name, command) == [name |-> name, command |-> command]
AliasFiles == SeqOf({Alias(n, c) : n \in {<<"a">>, <<"b">>}, c \in {<<"b", " ", "1">>, <<"a", " ", "2">>,
                       <<"c", " ", "3", " ", "4">>, <<" ">>, <<"'", "b", "'", "5">>}}, 3)

File(name, dir) == [name |-> name, dir |-> dir]
CoreFiles == {File(<<"cov-", "t">>, FALSE), File(<<"cov-", "c">>, FALSE), File(<<"cov-", "d">>, TRUE), File(<<"notes">>, FALSE)}

InitCommands ==
    \/ \E words \in GivenWords : subject = [part |-> "words", words |-> words]
    \/ \E aliases \in AliasFiles, tool \in {<<"a">>, <<"c">>}, args \in {<<>>, <<<<"x">>>>, <<<<"x">>, <<"-", "h">>>>} :
         subject = [part |-> "alias", aliases |-> aliases, tool |-> tool, args |-> args]
    \/ \E groups \in SeqOf({"builtins", "builtin", "aliases", "alias", "others", "any"}, 3), aliases \in AliasFiles,
          core \in SUBSET CoreFiles :
         /\ Len(aliases) = 1
         /\ subject = [part |-> "list", groups |-> groups, aliases |-> aliases, core |-> core]

InitExcludes ==
    \E text \in SeqOf({"text", "blank", "line", "start", "stop"}, MaxLines)
                  \cup SeqOf({"text", "line", "start", "stop", "foreign", "end"}, MaxLines - 2) :
        subject = [part |-> "excludes", text |-> text]

InitSetup == InitModules \/ InitSettings \/ InitCommands \/ InitExcludes

-----------------------------------------------------------------------------
(* What a command means for how often a path is listed for a module. *)
Meaning(mods) ==
    [separator |-> mods.separator,
     listed |-> [mp \in {"M", "N"} \X {"a", "b"} |->
                   Cardinality({<<i, j>> \in (DOMAIN mods.entries) \X (1..MaxListed) :
                                  /\ mods.entries[i].name = mp[1] /\ j \in DOMAIN mods.entries[i].prefixes
                                  /\ mods.entries[i].prefixes[j] = mp[2]})]]
Meant(m, op) ==
    CASE op.cmd = "set_separator" -> [m EXCEPT !.separator = op.args[1]]
      [] op.cmd = "add_path"      -> [m EXCEPT !.listed[op.args] = @ + 1]
      [] op.cmd = "remove_path"   -> [m EXCEPT !.listed[op.args] = IF @ = 0 THEN 0 ELSE @ - 1]
      [] op.cmd = "remove_module" -> [m EXCEPT !.listed = [mp \in DOMAIN @ |-> IF mp[1] = op.args[1] THEN 0 ELSE @[mp]]]
      [] OTHER                    -> m
NotOfModules(file) == SelectSeq(EntriesOf(file), LAMBDA e : e.name[1] # "module")

KeepsModules(file, before, done) ==
    LET meant == FoldLeft(Meant, Meaning(before), subject.ops)
        read(head) == FromReport(head, {done.file}, {file}).mods
    IN  /\ done.ok => Meaning(read(TRUE)) = meant
        /\ read(FALSE) = before
        /\ NotOfModules(done.file) = NotOfModules(file)
        /\ ~done.ok => done.file = file
        /\ done.file # file => \A h \in Headers(done.file) : h < Len(done.file) /\ done.file[h + 1].kind = "value"

(* ModulesKept: what `cov module` has written is, when read again, what its  *)
(* operations mean, whatever sections the modules were spread over before: a *)
(* path is added once more, taken away once (a path the file listed twice is *)
(* still listed after that), or goes with its module.  The rest of the file  *)
(* keeps its values, no section is left empty, and a refused command leaves  *)
(* the file as it is.  show uses what was written for the report of HEAD and *)
(* what was committed for others.  Left out: a file with lines the clean-up  *)
(* does not know, and one whose lock is taken.                               *)
ModulesKept ==
    subject.part = "modules" =>
        KeepsModules(subject.file, FromConfig(subject.file), ModuleCommand(subject.file, subject.ops, FALSE))

(* Setting or adding a value, or taking it away, shows in what is read.      *)
TakesEffect(p, env, changed, asked, effective) ==
    LET above(l) == {Levels[j] : j \in {k \in DOMAIN Levels : \E i \in DOMAIN Levels : Levels[i] = l /\ k > i}}
    IN  CASE p.cmd \in {"unset", "unset_all"} -> asked = <<>>
          [] OTHER -> /\ "v" \in Range(asked)
                      /\ "" \notin Range(asked) => Last(asked) = "v"
                      /\ \A l \in changed :
                           "" \notin Range(asked) /\ (\A k \in above(l) : ValuesOf(env[k].file, NameX) = <<>>)
                             => Last(effective) = "v"
ObeysScope(given, p, env, done, after, asked, effective) ==
    LET changed == {l \in DOMAIN env : after[l] # env[l]}
        rest(e, l) == SelectSeq(EntriesOf(e[l].file), LAMBDA x : x.name # NameX)
    IN  /\ changed \subseteq IF given = "unspecified" THEN {"local"}
                             ELSE IF given = "global" THEN {"xdg", "global"} ELSE {given}
        /\ Cardinality(changed) <= 1
        /\ "decoy" \notin Range(done.said) \cup Range(asked) \cup Range(effective)
        /\ \A f \in DOMAIN subject.disk : subject.disk[f] = Decoy => done.disk[f] = Decoy
        /\ \A l \in changed : rest(after, l) = rest(env, l)
        /\ ~done.ok \/ ~Writes(p) => changed = {}
        /\ done.ok /\ Writes(p) /\ env["xdg"].access # "r" => TakesEffect(p, env, changed, asked, effective)
ObeysAfter(given, p, env, done, after) ==
    ObeysScope(given, p, env, done, after,
               GetAll(after, OpenConfig(after, subject.inRepo, p.which, FALSE), NameX),
               GetAll(after, OpenCautiously(after, subject.inRepo), NameX))
Obeys(p, env, done) ==
    ObeysAfter(Tokens0(subject.tokens).which, p, env, done, LevelsAt(done.disk, subject.vars))

(* SettingsObeyed: `cov config` changes one file, the one of the scope it    *)
(* was given or of the repository, and in it the name it was given; asking   *)
(* in the same scope then gives the value, and so does every other command   *)
(* unless a more specific file holds the name.  A file in a place that a     *)
(* variable of higher rank replaces is neither read nor changed, and without *)
(* a place for it nothing is written.  Left out: a file of the user that can *)
(* be read and not written, and an empty value that is added to.             *)
SettingsObeyed ==
    LET s == subject
    IN  s.part = "settings" => Obeys(ParseConfig(s.tokens, s.inRepo), LevelsAt(s.disk, s.vars),
                                     ConfigCommand(s.disk, s.vars, s.inRepo, s.tokens))

Quoted(word) ==
    <<"DQ">> \o FlattenSeq([i \in DOMAIN word |-> IF word[i] \in {"DQ", "BS"} THEN <<"BS", word[i]>>
                                                  ELSE <<word[i]>>]) \o <<"DQ">>

(* The line with its first word replaced by the words of its alias, if any. *)
Replaced(aliases, line) ==
    LET words == SplitCommand(Resolve(aliases, line[1])) IN IF words = <<>> THEN words ELSE words \o Tail(line)
RECURSIVE LinesFrom(_, _, _)
LinesFrom(aliases, line, rounds) ==
    IF rounds = 0 \/ line = <<>> THEN {line}
    ELSE IF Resolve(aliases, line[1]) = NoAlias THEN {line}
    ELSE {line} \cup LinesFrom(aliases, Replaced(aliases, line), rounds - 1)

Leads(s, done, lines) ==
    LET ends == {l \in lines : l # <<>> /\ Resolve(s.aliases, l[1]) = NoAlias}
    IN  CASE done.how = "help"  -> Resolve(s.aliases, s.tool) # NoAlias
          [] done.how = "never" -> ends = {} /\ <<>> \notin lines
          [] done.how = "empty" -> <<>> \in lines
          [] OTHER -> <<done.tool>> \o done.args \in ends

(* WordsArrive: a tool gets the words it was given.  A quoted word comes out *)
(* of split_command as it was; a Windows command line is taken apart into    *)
(* the words it was made of (none of them empty); an alias stands for its    *)
(* words in front of the ones given, through aliases of aliases, and only    *)
(* when they come round the command never ends.  What is listed can be run:  *)
(* each name is one of the kinds asked for and leads to an alias, to a       *)
(* command of cov or to a program among its files, and no program is missed. *)
WordsArrive ==
    /\ subject.part = "words" =>
         LET line == FlattenSeq([i \in DOMAIN subject.words |-> Append(Quoted(subject.words[i]), " ")])
         IN  /\ SplitCommand(line) = subject.words
             /\ <<>> \notin Range(subject.words) => Argv(CommandLine(subject.words)) = subject.words
    /\ subject.part = "alias" =>
         LET s == subject
         IN  Leads(s, HandleTool(s.tool, s.args, s.aliases, {<<"c">>}), LinesFrom(s.aliases, <<s.tool>> \o s.args, 4))
    /\ subject.part = "list" =>
         LET s == subject
             listed == ListTools(s.groups, s.aliases, {<<"c">>}, s.core)
             program(name) == \E f \in s.core : ~f.dir /\ f.name = <<"cov-">> \o name
             runs(done) == done.how = "builtin" \/ program(done.tool)
         IN  /\ \A name \in listed : \/ Resolve(s.aliases, name) # NoAlias
                                      \/ runs(HandleTool(name, <<>>, s.aliases, {<<"c">>}))
             /\ Contains(s.groups, "others") => {<<"t">>, <<"d">>} \cap listed = {n \in {<<"t">>} : program(n)}

Inside(text, i) == \E s \in 1..i : text[s] = "start" /\ \A k \in s..i - 1 : text[k] # "stop"
Stopped(text, s) == \E k \in DOMAIN text : k > s /\ text[k] = "stop" /\ \A j \in s + 1..k : text[j] # "start"
Marked(text) == {i \in DOMAIN text : text[i] \notin {"blank", "foreign"} /\ (Inside(text, i) \/ text[i] = "line")}

(* A start without a stop and the lines below it, up to the next start.      *)
Unstopped(text) == {s \in DOMAIN text : text[s] = "start" /\ ~Stopped(text, s)}
Beneath(text, s) == {i \in DOMAIN text : i >= s /\ \A j \in s + 1..i : text[j] # "start"}
(* Its block can be told from others: no line above it, and none of those    *)
(* marked on their own below it, has become part of another block.           *)
StandsAlone(text, s, gone) ==
    /\ s - 1 \notin gone
    /\ \/ \A i \in Beneath(text, s) : text[i] # "line"
       \/ \A i \in Beneath(text, s) : text[i] \notin {"blank", "foreign"}

ReportedOn(text) ==
    LET written == {i \in DOMAIN text : text[i] # "blank"}
    IN  [complete |-> TRUE, lines |-> [i \in DOMAIN text |-> i % 2],
         functions |-> {r \in {Block(i, j) : i, j \in written} : r.start <= r.end}]
LeftAsItIs(file, source) == StripFile(file, source).file = file
StripsMarked(text, reported, found, done) ==
    LET gone == {i \in DOMAIN text : IsLineExcluded(i, found.blocks)}
        open == Unstopped(text)
        takenBack == UNION {Beneath(text, s) : s \in open}
        hidden(r) == \A i \in r.start..r.end : i \in gone \/ text[i] = "blank"
        touched(r) == {b \in Range(found.blocks) : b.start <= r.end /\ r.start <= b.end}
    IN  /\ gone \ takenBack = Marked(text) \ takenBack
        /\ \A s \in open : StandsAlone(text, s, gone)
                           => gone \cap Beneath(text, s) = {i \in Beneath(text, s) : text[i] = "line"}
        /\ DOMAIN EraseLines(reported.lines, found) = {i \in DOMAIN text : i \notin gone /\ ~(text[i] = "blank" /\ i % 2 = 0)}
        /\ \A r \in reported.functions \ FilterBlocks(reported.functions, found) : hidden(r)
        /\ \A r \in FilterBlocks(reported.functions, found) : hidden(r) => Cardinality(touched(r)) > 2
        /\ {done.told[k].line : k \in DOMAIN done.told} = gone
        /\ done.lines + done.functions = 0 <=> done.file = reported

(* ExcludedAsMarked: exactly the marked lines are taken out, and blank ones  *)
(* never reached; a mark with the tag of another platform is none, and its   *)
(* line stays, inside START and STOP too.  A start without a stop, before    *)
(* another start or at the end, takes back what it excluded, all but the     *)
(* lines below it that are marked on their own.  (Left out: such a start     *)
(* right below an excluded line, and one with both a line marked on its own  *)
(* and a blank or foreign one below it.)  A function goes only if all of its *)
(* lines do, and does go when they make up no more than two blocks.  The     *)
(* user is told of every line that goes, and that nothing was excluded only  *)
(* if the report is as it was; a file that cannot be read or is not          *)
(* described whole stays as it is.                                           *)
ExcludedAsMarked ==
    subject.part = "excludes" =>
        LET text == subject.text
            reported == ReportedOn(text)
        IN  /\ StripsMarked(text, reported, FindBlocks(text), StripFile(reported, text))
            /\ LeftAsItIs(reported, NoSource) /\ LeftAsItIs([reported EXCEPT !.complete = FALSE], text)
=============================================================================
