# A verification of cov, the coverage history tool

`cov` keeps the history of code coverage beside a git repository: objects in a
content-addressed database, branches and tags as files, and one `HEAD` per work
tree. This directory holds TLA+ models of that program, the TLC runs that check
them and TLAPS proofs of what matters most.

All paths below are relative to the repository (`src/`).

## The system

| Part | State | Operations | Where |
|---|---|---|---|
| object database | files named by the SHA-1 of their content, below `objects/coverage` | `write`, `lookup_object` by id or prefix | `libs/cov-api/src/cov/db.cc`, `zstream.cc`, `io/safe_stream.cc` |
| reference store | one file per reference below `refs/`, temporary files next to them | `create`, `create_matching`, `copy_ref`, `remove_ref`, `lookup`, `dwim`, listing | `cov/ref/*.cc`, `io/safe_stream.cc` |
| repository | HEAD of a work tree, shared references | `current_head`, `update_current_head`, `lookup`, `write` | `cov/repository.cc` |
| revision parser | none (reads references and reports) | `parse_single`, `parse`, `locate_range` | `cov/revparse.cc` |
| report | JSON input, stored oids | store files, tree, build, report; move the branch, retry | `libs/cov-rt/src/report_command.cc`, `apps/builtins/builtin_report.cc` |
| branch, tag, checkout, reset | none of their own | create, delete, select, detach, orphan, move | `libs/cov-rt/src/{branches,checkout}.cc`, `apps/builtins/` |
| set-up | a new `.covdata` or a work-tree link | `init_repository`, `discover_repository` | `cov/init.cc`, `cov/discover.cc` |
| child processes | pipes, two reader threads, a writer thread | `run_tool`, `run_filter` | `libs/cov-rt/src/{posix,win32}.cc` |
| tool dispatch | aliases in the configuration | `tools::handle`, listing, command lines | `libs/cov-rt/src/{tools,split_command}.cc` |
| report files | JSON of a filter, text of the files in git and in the work tree | load, verify, pack into runs, statistics | `libs/cov-rt/src/report.cc` |
| serialized objects | headers, string tables, entries in words of 32 bits | `load`, `store` of each handler | `cov/io/*.cc` |
| hashes | chaining value, block buffer, bit count | `update`, `finalize` | `cov/hash/*.{hh,cc}` |
| diffs, modules, projection | modules in `.covmodule`, statistics of rows | diff two reports, group, add up | `cov/{projection,module,module_config}.cc` |
| printing | templates, tables, colored lines | parse and format, fill, align, paint | `cov/format/*.cc`, `libs/cov-core/src/*.cc`, `libs/hilite/` |
| configuration | files at system, global and local level | `cov config`, `open_default`, `open_global` | `git2-c++/config.cc`, `libs/cov-rt/src/config.cc` |
| exclusion filter | blocks, single and empty lines of a file | `on_line`, strip lines and functions | `extras/libs/excludes/`, `extras/filters/strip_excludes.cc` |
| the rest | | C++ grammars, web export, reference counts, build tools | `libs/`, `extras/`, `tools/` |

How the parts interact: every command is a process of its own. A command opens
the repository, reads `HEAD` and references, looks up objects, stores objects
and in the end replaces or removes one or two reference files. There is no lock
anywhere: two `cov` processes meet only in the file system, in `rename`, `unlink`,
`mkdir` and `fopen`. Inside a process all is sequential, except for the threads
that feed a filter.

What is hard here, and therefore what the properties are about:

* checks and the write they guard are separate system calls (`update_current_head`,
  `copy_ref`, `remove_ref`, `branch --delete`);
* `cov report` writes many objects and then one reference, and may be killed anywhere;
* the retry loop of `cov report` must start afresh, and must end;
* temporary files live among the references, their names are random, and the
  generator has an off-by-one;
* errors of `close()` and of `refs_->create` are not looked at;
* a name may be needed as a file by one process and as a directory by another;
* an `init` that fails removes what it made, one that is killed does not, and two
  may run at once;
* a filter and `cov` write to each other through pipes that can fill up;
* hand-made formats (words, runs with a flag bit, carries, string offsets, aligned
  columns, quoted words) have edges that no test of one example reaches.

`PROJECT.json` lists these as hazards with their lines and the properties that cover them.

## Modules

| Module | Models |
|---|---|
| `CovCommands` | concurrent `cov` processes: report, reset, branch, tag, checkout |
| `RefStore` | the reference store at the level of system calls |
| `AtomicRefs` | what the reference store promises; `RefStore` implements it |
| `ObjectStore` | the object database at the level of system calls |
| `ContentStore` | what the database promises; `ObjectStore` implements it |
| `RunFilter` | a filter as a child process: pipes, threads, exit, on POSIX and on Windows |
| `InitRepo` | `cov init` call by call, work trees, discovery |
| `Layout`, `Objects` | the words, string tables and arrays of stored objects; load and store of each kind |
| `BuildProps` | the properties of a build: from the command line, to text and back |
| `HashStream` | the block stream below SHA-1 and MD5 |
| `ReportFile` | reading a filter's report, comparing texts, packing lines, ratios |
| `CoverageView` | function aliases, which lines and functions `show` prints |
| `LinePrinter`, `Lighter` | a printed source line: tokens cut at line ends, nested, colored, tab stops |
| `Revisions` | names, ancestors, ranges, `log` and `show`; which names are valid |
| `Projection`, `StatsTable` | diff and grouping of files into rows; the table of `show` |
| `Texts`, `Template`, `Formatter` | templates over words: parsing, conditions, loops, wrapping, ratings |
| `ConfigFile`, `Settings`, `Modules` | a git configuration file (external), `cov config`, `cov module` |
| `Tools` | words of a command, aliases, dispatch, listing |
| `Excludes` | the filter `strip-excludes` |
| `CovCommands_proofs`, `RefStore_proofs`, `ObjectStore_proofs`, `RunFilter_proofs`, `InitRepo_proofs`, `HashStream_proofs` | the inductive invariants of these modules and the theorems about them |
| `ReportFile_proofs` | theorems about `ReportFile` and `CoverageView`, for inputs of any size |
| `DataInduction` | induction and recursion over numbers, for the proofs about sequential code |
| `Orders`, `Subject` | sorting; the variable of the runs over sequential code |
| `MCCovCommands`, `MCRefStore`, `MCObjectStore`, `MCInitRepo` | instances for TLC |
| `MCEncoding`, `MCReport`, `MCText`, `MCShow`, `MCSetup`, `MCInputs` | the inputs and the properties of the sequential code |

The two store modules justify the grain of `CovCommands`. There, storing an object
and replacing, reading or removing a reference are single steps; `RefStore` and
`ObjectStore` show that this is how the file-level code behaves as long as the disk
is not full and temporary names differ (the runs `RefAtomic` and `ObjStore`, and the
theorems `ImplementsAtomicRefs` and `ImplementsContentStore`), and show what happens
otherwise.

### CovCommands

State: `db` (the stored objects; an object is a record and its own id, which is what
content addressing means), `refs` (the files below `refs/heads` and `refs/tags`),
`head` (the `HEAD` file of each work tree), and the locals of each process: `cmd`,
`pc`, `seen` (a `current_head()` in the making), `known` (the HEAD an attempt builds
on), `target`, `left`, and the oids stored so far.

A report is the parent, an abstract `data` value (commit, branch and coverage) and
links to the tree and to the builds. Each `data` value has a set of leaves, which
two inputs may share. Line coverage, function coverage and source blobs are all
leaves.

| Code | Actions |
|---|---|
| `builtin_report.cc` `handle`, `stored_file::store` | `StoreLeaf`, `StoreTree`, `StoreBuild`, `StoreFails` |
| `update_current_branch` | `TakeKnown`, `PrepareReport`, `StoreReport`, `CompareHead` |
| `current_head` | `ReadHead`, `ReadTip`: two files, two steps |
| `update_current_head` | `ReadHead`, `ReadTip`, `CompareHead`, `MoveTip` |
| `revs::parse_single` | `ParseSingle`, `ParseNotFound`, `PeelTarget`, `ParentWalk` |
| `copy_ref`, `params::create`, `branch_checkout_ref` | `CopyRefExists`, `CopyRefCreate`, `SetHead` |
| `checkout_ref`, `detach_ref`, `checkout_orphaned` | `CheckoutDwim`, `CheckoutDwimHeads`, `CheckoutOrphaned`, `SetHead` |
| `params::remove`, `remove_ref` | `ReadHead`, `ReadTip`, `RemoveLookup`, `RemoveMatch`, `RemoveUnlink` |

`dwim` reads a tag before a branch; since the tag file is read first and the branch
file later, these are two steps. `std::move(builds)` is modelled by what it does:
`MovedBuilds` is the empty list a second turn of the loop finds. `Crash` ends a
process anywhere; what it stored stays. The fault `"write"` lets a write fail, and
the model follows the code: an ignored failure (`store_build`, `refs_->create` in
`update_current_head`) lets the command go on.

### RefStore

Files are names for inodes, because a temporary file that is open stays writable
after its name was taken over. `print()` becomes `Mkdir`, `OpenTmp`, `WriteLine`,
`Commit` and, on failure, `Rollback`. `Mkdir` fails if a file is where a directory is
needed; `Commit` fails if a directory is where the file is needed. `remove_ref` is
`Lookup` (by its caller), `LookAgain`, `Unlink`; `filesystem::remove` also takes an
empty directory. A listing takes the directory entries there when it starts and looks
at them one by one.

A reference name is a record of directory, stem and extension, because the temporary
name is `<stem>_tmp<random><extension>`. The random part is the process itself, or,
with the fault `"nul"`, the empty string: the alphabet's terminating NUL can be drawn
as the first character (1 in 37), which ends the name there. Faults: `"crash"`,
`"open"` (fopen fails), `"nul"`. The line of a reference is assumed to fit on the
disk. `crashed` is a ghost: it remembers which processes were killed, so that
`NoLitter` can tell whose temporary files may be left.

### ObjectStore

The same file system; an object is deflated in two parts, of which the first may
leave the buffers early, so a file's content is which object each part was written
for. `finish()` is `CloseOut`, `Publish`, `Cleanup`. An exception of `rename` is not
caught anywhere and ends the process. Reading is `ReadFile` and `Inflate`; a
truncated file leads to `FinishSpins`, from where the loop in `zstream::finish` does
not come back. A stream mixed from two writers either fails in `append` or spins:
which one depends on how much of its input zlib has used by then, so both are allowed.

Only crashes of processes are modelled. The code never calls `fsync`, so nothing is
claimed about a crash of the machine.

### RunFilter

One behaviour is one call of `run_filter` and `parser::filter`. `pc` is the main
thread (`Where`, `OpenPipes`, `Fork`, `StartThreads`, `Joined`, `WaitChild`,
`FilterResult`), `threads` the writer and the two readers, `holders` who has which
end of which pipe open, `buffer` what is in the pipes, a chunk being the unit of a
read or a write. `os` chooses between `posix.cc` and `win32.cc`, which differ in the
search for the program, in what a failed start leaves open, in the order of joining
and waiting, and in how carriage returns are treated. The
main thread joins the writer and then the readers, which is to wait for all three. A writer that meets a pipe without a reader gets
EPIPE, since `sigpipe_handler` blocks the signal and takes it off. The filter (`ChildBegins` to
`ChildKilled`) is external. `status`, as `waitpid` sees it, becomes `code` through the
cast to `char`. `wrote` is a ghost. `WholeOutput` compares it with `got`: equal on
POSIX; on Windows `WithoutCR`, the same chunks in the same order but for the carriage
returns, which are dropped in front of a line end.

### InitRepo

A process runs `Check` (is there a repository), `Remove` (`--force`), for a work tree
`Prepare` and `CheckLinked`, then one `Build` step per directory or file and a `Store`
for its contents, in the order of the code (`Steps`); a failing call leads to `Abort`,
the destructor of `init_transaction`, which removes entry by entry. `gitdir` is the
exception: its failure is not looked at. `Kill` ends a process between any two calls.
The ghosts `overlapped` (ran beside another init) and `torn` (the removal of the main
directory was cut short) let the properties say exactly when they hold.
`KeepsRepository` asks for a repository that is not `torn`: the proof of an earlier
form failed, and the obligation it left is a behaviour with two failures. A
`--force` that is killed while it removes leaves some parts; a plain init does not
find a valid repository, completes it, looks valid for a moment, then fails and
removes what the first one had left. The repository was lost to the `--force`
already. (TLC finds this with `MaxFaults = 2`; with `~torn` that larger instance
passes too, twelve million states; the run keeps one failure.)

### The sequential code

Code that only computes is written as operators, each named for the function it
stands for, and checked over every input of a small set: an initial state of
`MCInputs` is one input, `subject`, and the invariants compare what the operators
make of it with an independent definition. Only the hash takes steps, one for each
`update()`. The reference definitions are in the MC modules beside the properties;
those that are also proved (`HashOfMessage`, `LinesSurvive`, `RatiosExact`,
`VerifiedText`, `FunctionsCounted`) are beside the operators, in `HashStream`,
`ReportFile` and `CoverageView`.
Data are abstracted to what the code tells apart:

* `Layout` and `Objects` keep every offset, size and count; a word has four bytes of
  base `Byte`, a string is a sequence of byte values. `Newer` makes the file a later
  minor version would write.
* `HashStream` leaves the compression functions free: the digest is the list of blocks
  in words, so that equal digests mean equal padded messages.
* `ReportFile` and `CoverageView` keep the width: numbers have `Bits` bits instead of
  32, counts one less. The text of the commit and that of the work tree are
  independent of each other and of the measured one.
* `Template`, `Formatter`, `Tools`, `StatsTable` and `LinePrinter` work on sequences of
  characters from alphabets that hold each special character of the code once.
* `ConfigFile` models the part of libgit2 that is used: a file is a list of sections,
  values and other lines.
* `Excludes` knows a line by the marker in it.

## Runs

Two processes are enough for each race found here: all of them need one process
between two steps of another one. Two names are needed for references that get in
each other's way, two inputs for reports that differ.

| Run | Shows |
|---|---|
| `CovHistory` | two processes, 3 commands out of report, `--amend`, reset (to a parent, to any stored object), detach and all forms of branch, tag, checkout and orphan, with crashes and failing writes: `TypeOK`, `DbClosed`, `RefsClosed`, `NoEcho`. Three commands are one history, one amend or reset and one racer |
| `CovSerial` | one process, 5 commands, each may be killed anywhere: `ReportOnTop` and `NeverDeletesCurrent` hold when nobody races. The two inputs share a file, as successive reports do |
| `CovRetry` | two processes report, amend and reset: `Finishes` under fairness |
| `RefAtomic` | names `a` and `a/b`, 3 operations of every kind, crashes and failing opens: `RefinesAtomicRefs`, `Returns`, `NoLitter`. A write of `a` that meets a directory of that name has to fail without an effect and without a temporary file left behind |
| `ObjStore` | two objects with a common prefix, 4 operations, crashes and failing opens: `NamedByContent`, `StoredIsReadable`, `RefinesContentStore`, `LookupReturns` |
| `ObjHostile` | full disk and shared temporary names: `ObjectsNeverVanish` |
| `Filter` | three chunks of input, pipes of one, up to two chunks on each output, exits with 0, 1 and 254 (negative as a `char`), both platforms: `WholeOutput`, `OnlyCleanExit`, `Completes` |
| `InitRepo` | two interchangeable processes, 3 inits of the repository or its work tree with or without `--force`, one failing call or crash: `ValidIsWhole`, `KeepsRepository`, `InitIsFound` |
| `Inputs` | the sequential code, half a million inputs, see below |

What `Inputs` checks:

| Property | Of | Says |
|---|---|---|
| `LoadsBack` | object serialization | what was stored is loaded, also from a later minor version; a torn or foreign file is refused; build properties survive |
| `HashOfMessage` | hashes | the digest does not depend on how the message was cut |
| `LinesSurvive` | report files | packed lines unpack to the same lines and counts; no file is lost |
| `RatiosExact` | statistics | percentages, their differences and their order are those of the numbers |
| `VerifiedText` | reporting | a text is taken only if it is the measured one up to line ends; what is kept follows what was compared |
| `FunctionsCounted` | functions | one per position, with the calls of all its names; visited if any was called; the labels printed account for all calls |
| `MissedAreShown` | show | every missed line and function is printed, whole and in its colors |
| `TemplateKept`, `OptionalOutput` | templates | no text is lost; conditions agree with what is printed |
| `WrappedText` | formatting | words survive wrapping |
| `DatesTold` | formatting | ages are told to half of the smallest unit counted, the repeated rounding included, and grow with time except where weeks end |
| `JudgedRight` | ratings | a mark is the place of the ratio among the configured ones, in either order |
| `StatsConserved`, `TableAligned` | show | each file counts in one row; bars stand in columns |
| `ModulesKept` | modules | the file read again means what the operations said, from any spread of a module over sections, paths listed twice included |
| `SettingsObeyed` | configuration | a value is set where asked, found from there, shadowed as documented |
| `WordsArrive` | tools | words pass through aliases and command lines; only a ring of aliases does not end |
| `ExcludedAsMarked` | exclusion filter | marked lines go and no others, lines for another platform stay; a start without a stop gives back all but the lines marked on their own |
| `LogIsRange` | revisions | `log` and `show` print the range of reports meant; only a ring of references does not answer; names are valid as documented |

Bounds of `Inputs`: `Byte = 4` gives words of 256 values, so offsets take
more than one byte; `HashByte = 4` and `HashWord = 2` give a bit count of 16 to
the low word, blocks have `BlockBytes = 8`, messages up to `MaxMessage = 40` bytes fill
several blocks and carry into the high word; `Bits = 8` puts the limit of a run at 127
and that of a ratio's product within reach; texts have up to `MaxText = 4` characters
and lines up to `LastLine = 16`, more than two distances of context; templates have
`MaxPieces = 3` pieces, files to strip `MaxLines = 6` lines, which is two blocks and
what is around them, histories `MaxReports = 4` reports, enough for two branches that
part and a walk that overtakes the other; dates are told at the first and last second
of every step up to eight years; `LongMax = 99` is the largest number a
property keeps as one.

What these properties leave out, because the code does something else there (each
is named at the property or excluded from the inputs in the MC module):

* two negative ratios of equal whole part compare the wrong way round (`types.hh:218`);
* a directory that repeats the path asked for, `a/a` under `a`, has its name cleaned
  twice (`projection.cc:231`);
* the step from weeks to months: what is 10 weeks old one second is 2 months old the
  next, and 9 weeks (63 days) are told of a younger date than 2 months (about 60), as
  the tests have it (`date-test.cc:241`, `formatter.cc:247`);
* both ratings at zero divide by zero (`defaults.cc:132`);
* a global file that can be read and not written: values are asked from one file and
  set in the other (`config.cc:198`); `--add` replaces an empty value
  (`builtin_config.cc:37`);
* an unclosed start right below an excluded line, whose block began above it and is
  not taken back (`excludes.cc:114`); one that has below it both a line marked on its
  own and a blank or foreign line: after the gap a new block begins, which forgets the
  lines marked before it and the one it begins with (`excludes.cc:111`); a function cut
  by three blocks (`strip.cc:103`);
* empty words on a Windows command line (`win32.cc:40`).

Facts of the code that the models follow without a property against them: a function
whose end column is not given is stored with column zero, and refused when read if it
starts after that on the same line (`function_coverage.cc:116`); every percentage of
the table is judged by the rating of branches (`column_selectors.cc:18`); a leading
slash passes `is_valid_name` (`reference.cc:53`); `cov module` does not look at the
error of `dump` (`builtin_module.cc:95`).

Runs that are expected to find a violation, each a finding of `PROJECT.json` with
the sentence of a document, message or test it contradicts:

| Run | What the code does |
|---|---|
| `CovLostUpdate` | a report of another process is dropped from the history |
| `CovLostBuilds` | a report that had to retry has no builds |
| `ObjSpin` | looking up an object truncated by a full disk does not return |

The models show more of the same kind; these have no run of their own, but changing
the constants of an existing configuration, or stating the property, exhibits them:

* a branch checked out in another work tree is deleted (`NeverDeletesCurrent` with a
  second work tree; `branches.cc:249`);
* `--delete` takes several names and removes only the first (`branches.cc:246`);
* `a` cannot be created after `a/b` was removed: its directory is left behind
  (`references.cc:201`);
* with temporary names cut at a drawn NUL, `v1.0` and `v1.1` share `v1_tmp` and creating
  one changes the other (fault `"nul"` of `RefStore`; `safe_stream.cc:19`);
* two creations of one name without `--force` both succeed, the second replaces the
  first (`references.cc:219`);
* `reset` announces a tip that could not be written (fault `"write"`; `repository.cc:158`);
* `reset <sha>` sets a branch to an object that is no report (`revparse.cc:251`);
* `checkout <name>` detaches at the tag when there is a branch of that name too
  (`checkout.cc:137`);
* a listing shows temporary files as branches (`listed`; `reference_list.cc:21`);
* on a full disk the tail of an object is lost and `write` returns true
  (`StoredIsReadable` with the fault `"full"`; `safe_stream.cc:99`), and a reference
  may become an empty file (`safe_stream.cc:75`);
* two writers whose temporary name was cut publish one's object under the other's
  hash (`NamedByContent` with the fault `"nul"`; `safe_stream.cc:19`);
* an init that fails beside another one removes the repository the other has made
  (`KeepsRepository` without its last disjunct; `init.cc:31`).

Bounds of the others: `MaxCommands`, `MaxOps` and `MaxInits` bound the commands or
operations begun in a behaviour, `MaxFaults` the failures, `MaxWrites` what a filter
writes, `Inodes` the files that exist at once (six, more than the runs use: `OpenTmp`
is never held up by it). When all operations are used up the system really is done;
`Finished` says so, so that deadlock checking stays on.

Fairness: weak fairness of `Step(p)` for each process. A running process is
scheduled again; no single action is promised to be the one taken, a crash is never
promised, and no new command is ever promised. `Finishes` rests on the number of
commands being finite: with an endless stream of other reports the loop in
`update_current_branch` may in principle retry forever.

In `RunFilter` each thread of the parent is weakly fair, and so are the filter's calls
once begun: a read or a write that can finish does. `ChildExits` is strongly fair: a
filter that again and again is between two calls exits in the end. Without that
nothing could be said, since `cov` waits for its filter without a time limit. A kill
is never promised. On Windows the code also waits for the handles of the pipes; that
wait is taken to return at once.

## Proofs

Every safety invariant, every action property and both refinements of the state
machines are proved, for every number of processes, names, objects, commands and
faults and for every capacity, from the named ASSUMEs of the modules. So is the hash
for every message, and so is what `cov report` makes of a file for lines, texts and
functions of any number. A theorem about a state machine rests on an inductive
invariant, in a chain of lemmas: `Init` establishes it, each action preserves each
part it can disturb, and it implies the property. A theorem about sequential code has
the form `AnyX => P`: `AnyX` says that `subject` is an input of that kind, without the
bounds of the run `Inputs`, and `P` is the invariant that run checks.

| Theorem | States | Under |
|---|---|---|
| `CovCommands_proofs!TypeCorrect`, `Integrity`, `RefsStayClosed`, `NoEchoCorrect` | `TypeOK`, `DbClosed`, `RefsClosed`, `NoEcho` | nothing more |
| `CovCommands_proofs!SerialOnTop` | `ReportOnTop` | `Serial` |
| `CovCommands_proofs!SerialSparesCurrent` | `NeverDeletesCurrent` | `Serial`, `SingleTree`, `NoneIsNoObject` |
| `ObjectStore_proofs!TypeCorrect`, `PublishedForGood` | `TypeOK`, `ObjectsNeverVanish` | nothing more: full disk and shared names too |
| `ObjectStore_proofs!NamedCorrect`, `StoredCorrect`, `ImplementsContentStore` | `NamedByContent`, `StoredIsReadable`, `RefinesContentStore` | `Reliable` |
| `RefStore_proofs!TypeCorrect` | `TypeOK` | nothing more |
| `RefStore_proofs!LitterCorrect`, `ImplementsAtomicRefs` | `NoLitter`, `RefinesAtomicRefs` | `OwnTmpNames` |
| `RunFilter_proofs!TypeCorrect`, `CleanExitCorrect`, `OutputCorrect` | `TypeOK`, `OnlyCleanExit`, `WholeOutput` | nothing more |
| `InitRepo_proofs!TypeCorrect`, `WholeCorrect`, `RepositoryKept`, `FoundAgain` | `TypeOK`, `ValidIsWhole`, `KeepsRepository`, `InitIsFound` | nothing more |
| `HashStream_proofs!HashCorrect` | `HashOfMessage` | nothing more |
| `ReportFile_proofs!LinesCorrect` | `LinesSurvive` | `AnyLines` (all lines and hits of the full width) or `AnyJson` (any number of files and items) |
| `ReportFile_proofs!TextsCorrect` | `VerifiedText` | `AnyTexts` (all lengths, all alphabets with CR and LF) |
| `ReportFile_proofs!RatiosCorrect` | `RatiosExact` | `AnyStats` (`visited * 100` fits a word) |
| `ReportFile_proofs!FunctionsCorrect` | `FunctionsCounted` | `AnyFunctions` (the calls of one position fit a word) |

The conditions, and why they are there:

* `Reliable`: the faults `"full"` and `"nul"` do not occur. On a full disk `write`
  returns true for a truncated object, and a temporary name cut at a drawn NUL may be
  another writer's (both are listed under Runs): the properties are false then.
* `OwnTmpNames`: the fault `"nul"` does not occur, for the same reason.
* `Serial`, `SingleTree`: there is one process, and one work tree. Two commands at
  once lose an update (run `CovLostUpdate`), and a branch of another work tree is not
  protected. Crashes stay allowed.
* `NoneIsNoObject`: the marker for "no file" is not an object.
* `RefDirsAssumption` (an ASSUME of `RefStore`): the name of a temporary file is not
  that of a directory some reference needs, as when a branch is called
  `a_tmp<random>/b`.
* `AnyStats`: `stats::calc` multiplies two 32-bit numbers before it widens, so that
  `visited * 100` wraps beyond that (`types.hh:287`). All digits are allowed; the later
  products, in `uintmax_t`, have no width in the model, and with the two digits the
  code asks for they are far from theirs.
* `AnyFunctions`: `merge_aliases` adds calls in an `unsigned`. A sum that wraps to zero
  is a function that was called and is counted as missed.
* `BitsAssumption` (an ASSUME of `ReportFile`): there are more than two bits, and what
  a power of two is: the provers know nothing of `^`. TLC evaluates it in `Inputs`.

**CovCommands.** None of the invariants is inductive as it stands. A step of report
stores an object whose children it stored some steps before, so the locals have to be
closed too: `LocalsClosed` says that every oid in `leaves`, `tree`, `builds`, `seen`,
`known` and `target` resolves, which stays true because the database only grows.
`AmendReady` says that between `prepare` and `store` an amending process knows a tip
that is a report, so that `ParentFor` is a field of a stored object, and thus closed by
`DbClosed`. For `NoEcho`, `FreshReady` keeps what `PrepareReport` found out until
`StoreReport` uses it: no other process can change it, since objects do not change.
`CommandShape` and `SeenShape` say which fields of a command and of `seen` may be
used at which `pc`. `SerialInv` adds what only holds without races: what was read of
HEAD and of the branch is what is there until the command itself writes
(`ReadsCurrent`), the report to be moved to was made for it (`MadeForTip`), and what is
to be removed is not the current branch (`SparesCurrent`).

**ObjectStore.** The property needs who owns which inode: an inode has one name
(`OneName`), a writer's temporary file is the one it has open and holds what it has
written so far (`Tidy`), and what a reader has read is a whole object (`Heard`). The
refinement maps a published file to a stored object; `Publish` is the step that
stores, every other step of a writer is a stutter.

**RefStore.** `Shape` knows the name of each process's temporary file; `TmpsOwned` gives
each temporary file to a process that will rename or remove it, or that was killed;
`FileInv` says that an inode has one name and that the file to be renamed holds its
line. `Commit` and `Unlink` are the steps of `AtomicRefs`; what a process read in
`Lookup` is carried to `LookAgain`. `FilesApart` says that no name is a file and a
directory at once, so that an `Unlink` that fails on a directory had no reference to
remove; it rests on `mkdir` and `rename` and is part of the invariant only.

**RunFilter.** `ExitInv` follows the status through the cast to `char`: of `0..255` only 0
becomes 0, and a killed filter has status 1. `Flow` says that what was written is what
was read followed by what is in the pipe; at the end of a reader the pipe is drained
and has no writer left (`Drained`), so nothing can follow.

**InitRepo.** `MainInv`: as long as no removal was cut short, a HEAD means that all the
parts are there (`HeadLast`), because what an init has reached is there (`Reached`) and
HEAD is made last; and an init that is alone, is not forced and has not yet made HEAD
knows that there is none (`NoHeadYet`), so its clean-up removes no repository. `Alone`
says that a command not marked `overlapped` is the only one running. `WtInv` follows a
work tree's init: the common directory stays, and what was made is there and written.

**HashStream.** `HashSpec` feeds one object any bytes in pieces of any length, without
bound, and finalizes it at any time. The inductive invariant is that the object holds
`Kept(alg, m)` for the message `m` so far: the blocks of `m` in the chain, `Rest(m)` in
the span, `8 * Len(m)` in the two words. It needs no induction over the message,
because each branch of `update` is one lemma about `m \o data`: it stays within a block
(`LessThanBlock`), it fills the block (`OneBlock`), or it starts on a block boundary
(`AfterWholeBlocks`). `CarryCounts` is the carry between the words, for a word of any
size; `PaddedChain` the padding, with and without a block of its own, where `FillIs`
says that the number of zeros is the only one that makes whole blocks.
`HashAssumption` states that the powers of `HashByte` are positive numbers: the
provers know nothing of `^`.

**DataInduction.** The induction theorems of the library take an operator as a
parameter, which the provers cannot instantiate. Here its place is taken by values. A
set of numbers has a least element (`Least`), because finite sets are well-founded
under inclusion and a number is known by the interval below it. So a set that has 0
and with each number the next one has them all (`UpTo`, and `AllBelow` for strong
induction), and a function with a first value and a step, itself a function, exists
(`Recursion`, where an index may look back to any smaller one). A loop of the code is
a recursive function, and each has a lemma `...Is` that it satisfies its equation.

**ReportFile.** *Lines.* The writer walks the sorted lines, the reader the runs. The
lemma between them says that after each run the reader stands on the line the writer
stood on, with the same lines and hits behind it; a gap longer than a null run holds
is several of them. *JSON.* Items are applied in order, so the last item of a line
decides, in the model's map as in the code's. *Texts.* A text is cut into pieces at line
ends; converting one way or the other changes no piece but for the CR at its end, so
that equal digests mean equal pieces. *Ratios.* The rounded quotient is the nearest
one; two ratios are put over the larger number of digits, where they are plain
numbers. *Functions.* `Sorted` puts each member of a finite set at its rank, for any strict
order (`InPlace`, `InOrderIs`), which gives one merged function for each position. The calls of
a position are a sum over entries, the counts of its names one sum each, the labels
sums of neighbours; `SumOfBoth` and `NamesSum` split the first into the others, and `NoWrap`
says that none of them wraps when the total does not. This proof is why
`FunctionsCounted` is stated on the sums and not only on zero and non-zero.

What stays with TLC:

* liveness (`Finishes`, `Returns`, `LookupReturns`, `Completes`): fairness and ENABLED
  are beyond the prover;
* of the sequential code (run `Inputs`):
  * `TemplateKept`, `OptionalOutput`, `WrappedText`, `DatesTold`, `JudgedRight`,
    `StatsConserved`, `TableAligned`, `WordsArrive`: `Template`, `Formatter`, `Projection` and `Tools`
    have operators that call each other (templates, trees and aliases nest), declared
    RECURSIVE, for which the prover loses its SMT backend;
  * `MissedAreShown`: it speaks of `LinePrinter` and `Lighter` too, for the same reason;
  * `LoadsBack`, `ModulesKept`, `SettingsObeyed`, `ExcludedAsMarked`, `LogIsRange`: not
    recursive, but folds, selections and sorts of sequences whose step is an operator,
    and properties of whole commands, made of many of these.

## Not modelled

* The C++ grammars (`libs/c++filt`, `libs/hilite/hilite-cxx`): parsers over characters
  that no other part depends on; a small model would restate the grammar. What becomes
  of their tokens is in `Lighter` and `LinePrinter`.
* Web export (`extras/libs/web`, `extras/cov_export`): HTML made of what `Projection`
  and `CoverageView` compute.
* Reference counts (`counted.hh`): one atomic counter; no object is shared by threads.
* git itself (blobs, diffs, commits), zlib, libgit2's configuration parser beyond
  `ConfigFile`, the compression functions of the hashes.
* Help texts, wording of messages, the pager, translations, and the build tools.
* Crashes of the machine: the code never calls `fsync`.

## Plan

What would come next, in this order:

* `ExcludedAsMarked`, `LogIsRange` and `LoadsBack` in the way of `ReportFile_proofs`:
  their folds written as recursive functions, which is what `DataInduction` reasons
  about, and a lemma for each;
* `FindChunks` and `LinesOfChunks` of `CoverageView`, the part of `MissedAreShown` that
  is without RECURSIVE operators.
