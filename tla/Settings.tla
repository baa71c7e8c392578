------------------------------ MODULE Settings ------------------------------
(* `cov config` and the configuration every other command reads (config.cc   *)
(* of cov-rt and of git2-c++, tools.cc).  env gives, for each level, the     *)
(* lines of its file and whether it can be read or written.                  *)
EXTENDS ConfigFile

Levels == <<"system", "xdg", "global", "local">>

(* get_home, calc_global_path, calc_system_path: where the files are, given  *)
(* which variables of the environment are set; a path is a directory and a   *)
(* name in it, and without a variable there is none.                         *)
NoPath == <<"", "">>

GetHome(vars) == IF "HOME" \in vars THEN "home" ELSE IF "USERPROFILE" \in vars THEN "profile" ELSE ""

CalcGlobalPath(vars) ==
    LET home == GetHome(vars)
    IN  [xdg    |-> IF "XDG_CONFIG_HOME" \in vars THEN <<"xdg", "config">>
                    ELSE IF home # "" THEN <<home, ".config">> ELSE NoPath,
         global |-> IF home # "" THEN <<home, ".covconfig">> ELSE NoPath]

CalcSystemPath == <<"sysroot", "etc">>

PathsOf(vars) == [system |-> CalcSystemPath, xdg |-> CalcGlobalPath(vars).xdg,
                  global |-> CalcGlobalPath(vars).global, local |-> <<"repository", "config">>]

LevelsAt(disk, vars) ==
    [level \in Range(Levels) |-> IF PathsOf(vars)[level] = NoPath THEN [file |-> <<>>, access |-> "nowhere"]
                                 ELSE disk[PathsOf(vars)[level]]]

Readable(env, level) == env[level].access \in {"r", "rw"}
Writable(env, level) == env[level].access = "rw"

(* open_default: the files that can be read, the most general first. *)
OpenDefault(env) == SelectSeq(<<"system", "xdg", "global">>, LAMBDA level : Readable(env, level))

(* cautiously_open_config: and the one of the repository one stands in. *)
OpenCautiously(env, inRepo) == OpenDefault(env) \o (IF inRepo THEN <<"local">> ELSE <<>>)

(* open_global: reading and writing may mean two files. *)
OpenGlobal(env, write) ==
    LET fits(level) == IF write THEN Writable(env, level) ELSE Readable(env, level)
    IN  IF ~fits("xdg") /\ fits("global") THEN <<"global">> ELSE <<"xdg">>

OpenConfig(env, inRepo, which, write) ==
    CASE which = "unspecified" -> OpenCautiously(env, inRepo)
      [] which = "local"       -> <<"local">>
      [] which = "global"      -> OpenGlobal(env, write)
      [] which = "system"      -> <<"system">>

-----------------------------------------------------------------------------
(* parser: one command, its arguments, and the scope; a command that writes  *)
(* is about the repository unless it says otherwise.                         *)
NoCommand == [ok |-> TRUE, cmd |-> "unspecified", which |-> "unspecified", args |-> <<>>]

HandleToken(p, token) ==
    CASE token.kind = "scope" -> [p EXCEPT !.which = token.which]
      [] token.kind = "command" ->
           IF p.cmd # "unspecified" THEN [p EXCEPT !.ok = FALSE]
           ELSE [p EXCEPT !.cmd = token.cmd, !.args = IF token.cmd = "list" THEN <<>> ELSE <<token.val>>]
      [] token.kind = "arg" ->
           IF p.cmd = "unspecified" THEN [p EXCEPT !.cmd = "set_or_get", !.args = <<token.val>>]
           ELSE IF p.cmd \in {"set_or_get", "add"} /\ Len(p.args) < 2 THEN [p EXCEPT !.args = Append(@, token.val)]
           ELSE [p EXCEPT !.ok = FALSE]

Writes(p) == p.cmd \in {"add", "unset", "unset_all"} \/ (p.cmd = "set_or_get" /\ Len(p.args) = 2)

Tokens0(tokens) == FoldLeft(LAMBDA p, t : IF p.ok THEN HandleToken(p, t) ELSE p, NoCommand, tokens)

ParseConfigOrGlobal(tokens, inRepo) ==
    LET p == Tokens0(tokens)
        which == IF Writes(p) /\ p.which = "unspecified" THEN (IF inRepo THEN "local" ELSE "global") ELSE p.which
    IN  [p EXCEPT !.which = which,
                  !.ok = @ /\ p.cmd # "unspecified" /\ (p.cmd = "add" => Len(p.args) = 2)
                           /\ (which = "local" => inRepo)]

ParseConfig(tokens, inRepo) ==
    LET p == Tokens0(tokens)
        which == IF Writes(p) /\ p.which = "unspecified" THEN "local" ELSE p.which
    IN  [p EXCEPT !.which = which,
                  !.ok = @ /\ p.cmd # "unspecified" /\ (p.cmd = "add" => Len(p.args) = 2)
                           /\ (which = "local" => inRepo)]

(* A name has the values of all files; one value is asked of the most        *)
(* specific file that holds it.                                              *)
GetAll(env, levels, name) == FlattenSeq([i \in DOMAIN levels |-> ValuesOf(env[levels[i]].file, name)])
GetString(env, levels, name) ==
    LET values == GetAll(env, levels, name) IN IF values = <<>> THEN <<>> ELSE <<Last(values)>>

Changed(file, p) ==
    CASE p.cmd = "set_or_get" -> SetString(file, p.args[1], p.args[2])
      [] p.cmd = "add"        -> [ok |-> TRUE, file |-> SetMultivar(file, p.args[1], p.args[2])]
      [] p.cmd = "unset"      -> DeleteEntry(file, p.args[1])
      [] p.cmd = "unset_all"  -> [ok |-> ValuesOf(file, p.args[1]) # <<>>, file |-> DeleteAll(file, p.args[1])]

(* handle: git writes to the most specific file that is open, and makes one  *)
(* that is missing.                                                          *)
Answered(env, levels, p) ==
    CASE p.cmd \in {"get", "set_or_get"} -> GetString(env, levels, p.args[1])
      [] p.cmd = "get_all" -> GetAll(env, levels, p.args[1])
      [] OTHER -> <<>>

Saved(disk, path, access, done) ==
    IF access \in {"r", "nowhere"} \/ ~done.ok THEN [ok |-> FALSE, said |-> <<>>, disk |-> disk]
    ELSE [ok |-> TRUE, said |-> <<>>, disk |-> [disk EXCEPT ![path] = [file |-> done.file, access |-> "rw"]]]

HandleConfig(disk, vars, env, p, levels) ==
    LET target == Last(levels)
    IN  IF ~p.ok THEN [ok |-> FALSE, said |-> <<>>, disk |-> disk]
        ELSE IF ~Writes(p) THEN [ok |-> TRUE, said |-> Answered(env, levels, p), disk |-> disk]
        ELSE Saved(disk, PathsOf(vars)[target], env[target].access, Changed(env[target].file, p))

ConfigAt(disk, vars, inRepo, env, p) ==
    HandleConfig(disk, vars, env, p, OpenConfig(env, inRepo, p.which, Writes(p)))

ConfigCommand(disk, vars, inRepo, tokens) ==
    ConfigAt(disk, vars, inRepo, LevelsAt(disk, vars), ParseConfig(tokens, inRepo))
=============================================================================
