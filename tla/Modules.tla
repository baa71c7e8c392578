------------------------------ MODULE Modules ------------------------------
(* The modules of a project, kept in .covmodules and edited by `cov module`  *)
(* (module.cc, module_config.cc, builtin_module.cc).                         *)
EXTENDS ConfigFile

Sep == <<"module", "sep">>
PathOf(mod) == <<"module", mod, "path">>
IsPath(name) == Len(name) = 3 /\ name[1] = "module" /\ name[3] = "path"
InModule(name) == Len(name) = 3 /\ name[1] = "module"

NoModules == [separator |-> "", entries |-> <<>>]

IndexOf(mods, mod) == LET at == {i \in DOMAIN mods.entries : mods.entries[i].name = mod}
                      IN  IF at = {} THEN 0 ELSE CHOOSE i \in at : \A j \in at : i <= j
AddEntry(mods, mod, path) ==
    IF IndexOf(mods, mod) = 0 THEN [mods EXCEPT !.entries = Append(@, [name |-> mod, prefixes |-> <<path>>])]
    ELSE [mods EXCEPT !.entries[IndexOf(mods, mod)].prefixes = Append(@, path)]

(* modules::from_config: the last separator counts, and all of the paths. *)
FromConfig(file) ==
    FoldLeft(LAMBDA mods, e : IF e.name = Sep THEN [mods EXCEPT !.separator = e.value]
                              ELSE IF IsPath(e.name) THEN AddEntry(mods, e.name[2], e.value) ELSE mods,
             NoModules, EntriesOf(file))

(* from_report: the file in the work tree, if there is one and the report is *)
(* of its HEAD, else the one of the report's commit.  Each is a set of at    *)
(* most one file; a work tree without the file has an empty one.             *)
FromReport(headReported, workdir, committed) ==
    LET used == IF headReported /\ workdir # {} THEN workdir ELSE committed
    IN  [ok |-> used # {}, mods |-> IF used = {} THEN NoModules ELSE FromConfig(CHOOSE file \in used : TRUE)]

-----------------------------------------------------------------------------
(* set_separator, add, remove, remove_all *)
Edited(result, mods) == [result |-> result, mods |-> mods]

SetSeparator(mods, sep) ==
    IF sep = mods.separator THEN Edited("unmodified", mods)
    ELSE Edited("needs_update", [mods EXCEPT !.separator = sep])

Add(mods, mod, path) ==
    LET i == IndexOf(mods, mod)
    IN  IF i # 0 /\ Contains(mods.entries[i].prefixes, path) THEN Edited("duplicate", mods)
        ELSE Edited("needs_update", AddEntry(mods, mod, path))

RemovePath(mods, mod, path) ==
    LET i == IndexOf(mods, mod)
        left == RemoveFirst(mods.entries[i].prefixes, path)
    IN  IF i = 0 THEN Edited("no_module", mods)
        ELSE IF left = <<>> THEN Edited("needs_update", [mods EXCEPT !.entries = RemoveAt(@, i)])
        ELSE Edited(IF left = mods.entries[i].prefixes THEN "unmodified" ELSE "needs_update",
                    [mods EXCEPT !.entries[i].prefixes = left])

RemoveModule(mods, mod) ==
    LET i == IndexOf(mods, mod)
    IN  IF i = 0 THEN Edited("unmodified", mods)
        ELSE Edited("needs_update", [mods EXCEPT !.entries = RemoveAt(@, i)])

-----------------------------------------------------------------------------
(* dump: everything known of modules is taken out and written again, in one  *)
(* transaction but for the separator, which goes before the lock is taken.   *)
Written(mods, file) ==
    LET withSep == IF mods.separator = "" THEN file ELSE SetString(file, Sep, mods.separator).file
        paths == FlattenSeq([i \in DOMAIN mods.entries |->
                   [j \in DOMAIN mods.entries[i].prefixes |->
                      [name |-> PathOf(mods.entries[i].name), value |-> mods.entries[i].prefixes[j]]]])
    IN  FoldLeft(LAMBDA f, e : SetMultivar(f, e.name, e.value), withSep, paths)

DumpAppends(mods, file, locked) == Written(mods, DeleteAll(file, Sep))

Dump(mods, file, locked) ==
    LET noSep == DeleteAll(file, Sep)
        names == {EntriesOf(noSep)[i].name : i \in DOMAIN EntriesOf(noSep)}
        cleared == FoldSet(LAMBDA name, f : DeleteAll(f, name), noSep, {n \in names : InModule(n)})
    IN  IF locked THEN noSep ELSE Written(mods, cleared)

(* cleanup_config: comments and sections without values are left out, and    *)
(* everything from the first line the grammar does not know.                 *)
CleanupConfig(file) ==
    LET odd == {i \in DOMAIN file : file[i].kind = "odd"}
        text == IF odd = {} THEN file ELSE SubSeq(file, 1, (CHOOSE i \in odd : \A j \in odd : i <= j) - 1)
        used(h) == \E i \in DOMAIN text : /\ i > h /\ text[i].kind = "value"
                                          /\ \A g \in Headers(text) : g <= h \/ g > i
        line(i) == IF text[i].kind = "value" \/ (i \in Headers(text) /\ used(i)) THEN <<text[i]>> ELSE <<>>
    IN  FlattenSeq([i \in DOMAIN text |-> line(i)])

-----------------------------------------------------------------------------
(* parser::parse: showing is asked for alone, the others have their number   *)
(* of arguments.                                                             *)
ArgsOf == [show |-> 0..1, show_separator |-> 0..1, set_separator |-> {1}, add_path |-> {2},
           remove_path |-> {2}, remove_module |-> {1}]
ParsedOps(ops) ==
    /\ Len(ops) > 1 => \A i \in DOMAIN ops : ops[i].cmd \notin {"show", "show_separator"}
    /\ \A i \in DOMAIN ops : Len(ops[i].args) \in ArgsOf[ops[i].cmd]

Apply(mods, op) ==
    CASE op.cmd = "set_separator" -> SetSeparator(mods, op.args[1])
      [] op.cmd = "add_path"      -> Add(mods, op.args[1], op.args[2])
      [] op.cmd = "remove_path"   -> RemovePath(mods, op.args[1], op.args[2])
      [] op.cmd = "remove_module" -> RemoveModule(mods, op.args[1])
      [] OTHER                    -> Edited("unmodified", mods)

(* handle: the first refusal ends it, with nothing written. *)
ModuleCommand(file, ops, locked) ==
    LET step(st, op) ==
            LET e == Apply(st.mods, op)
            IN  IF ~st.ok THEN st
                ELSE [ok |-> e.result \in {"unmodified", "needs_update"}, mods |-> e.mods,
                      modified |-> st.modified \/ e.result = "needs_update"]
        done == FoldLeft(step, [ok |-> ParsedOps(ops), mods |-> FromConfig(file), modified |-> FALSE], ops)
    IN  [ok |-> done.ok,
         file |-> IF done.ok /\ done.modified THEN CleanupConfig(Dump(done.mods, file, locked)) ELSE file]
=============================================================================
