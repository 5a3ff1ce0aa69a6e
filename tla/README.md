# A verification project for ncdu-rs

TLA+ models of the disk-usage scanner and browser in `src/src/`, model-checked
with TLC on small instances, and theorems about them proved with TLAPS for every
value of the constants. Paths below are relative to the repository, which this
directory calls `src/`: `sink.rs` is `src/src/sink.rs`.

1. [The system](#the-system)
2. [The modules and the code](#the-modules-and-the-code)
3. [What the runs check](#what-the-runs-check)
4. [Fairness](#fairness)
5. [What is proved](#what-is-proved)
6. [Where the code and its documentation differ](#where-the-code-and-its-documentation-differ)
7. [What is not modelled](#what-is-not-modelled)
8. [Plan](#plan)

## The system

`main.rs` reads the command line and runs one of: the quota fast path (print one
number and leave), a scan followed by the terminal browser, a scan followed by
an export to JSON. There is one process; only the parallel walker has threads.

| component | state it keeps | operations | talks to |
|---|---|---|---|
| `main.rs` | options; the output file behind a `BufWriter` | `run`, `try_quota_total`, `export` | everything below |
| `xfs_quota.rs` | none | `is_xfs`, `project_id_for`, `quota_usage_bytes`, `parse_xfs_quota_report` | `statfs`, `/etc/projects`, a child process |
| `scan.rs` | the recursion of `scan_dir`: one directory iterator per level | `scan`, `scan_dir`, `stat_of` | `exclude`, `sink`, the file system |
| `scan_parallel.rs` | `Walked` values on the stacks of rayon workers; then the recursion of `emit` | `scan_parallel`, `walk_dir`, `build_tree`, `emit` | as `scan.rs`, and a rayon pool |
| `exclude.rs` | `ExcludeSet`: the parsed chains and the two root lists; a `Patterns` per directory being walked | `Pattern::parse`, `add`, `for_path`, `matches`, `enter` | the walkers |
| `sink.rs` | the `Tree` being filled; one `MemSinkDir` per open directory, with the totals of its subtree so far | `create_root`, `set_read_error`, `add_special`, `add_stat`, `add_dir`, `finalize`, `link_child` | `model` |
| `model.rs` | the arena `Tree::nodes` with `sub`, `next` and `parent` links; `Devices` | `create`, `get_id` | all of the below |
| `browser.rs` | `current_dir`, `parent_stack`, `items`, `selected`, `confirm_delete`, `status_msg`; raw mode of the terminal | `new`, `run`, `event_loop`, `load_dir`, `handle_key`, drawing | `delete`, the terminal |
| `delete.rs` | none of its own: the tree and the disk | `delete_entry`, `relative_path`, `unlink_from_parent`, `subtree_totals` | the file system |
| `json_export.rs` | none | `export_tree`, `write_dir`, `write_entry_object` | a writer |
| `json_import.rs` | the `Tree` being built and the recursion of `parse_item` | `import_tree`, `parse_item` | only tests call it |

What is hard about it, and what therefore makes each component correct:

* **The totals travel.** A directory's blocks and items are gathered in its
  handle, flushed to its node and passed up to the handle of the caller, with
  saturating additions at every step (`sink.rs:206`). Correct is: the totals of a
  finalized directory are the saturated sum over its subtree, whatever the order
  in which the walk adds, descends, fails and finalizes; no entry is lost or
  counted twice; what is finalized does not change again.
* **Links in an arena.** `sub`, `next` and `parent` are written by four functions
  in three files and must stay one tree: lists without cycles, parent links that
  agree with them, an entry leaving its list only by being deleted.
* **Two walkers, one promise.** The sequential walker drives the sink while it
  reads; the parallel one builds placeholders, forks, joins, patches results
  into place by index and drives the sink afterwards, on a pool that may have
  fewer threads than the tree has levels. Both must report each entry once,
  below its own directory, as what it is, while other programs remove files and
  put others in their place, and the OS refuses to look at some.
* **Matching piece by piece.** The walk carries a set of partly matched patterns
  from directory to directory. What `matches` answers for one name must be what
  the patterns mean for the whole path, also where the parallel walker computes
  the set in one worker and uses it in another.
* **Deleting from a tree that is being looked at.** Between `d` and `y` other
  keys are read, other programs remove things, a removal fails half-way; the
  list, the cursor, the path, the totals and the disk must stay in step.
* **An export that is inherited from.** Devices are written only where they
  change, and the importer has to inherit them the same way; and it has to make
  one sense of dumps that contradict themselves, or refuse them whole.
* **A run with many ways out.** A dump behind a buffer, a truncated output file,
  a fast path that may fail at each of its steps, a terminal to be given back.

## The modules and the code

`PROJECT.json` maps each definition to the lines it stands for. How the modules
depend on each other:

    MemSink ---- MemSinkProofs (used by all proofs below that drive the sink)
       |-- Delete -- Browser -- BrowserProofs
       |-- Json -- ArenaProofs (with ChildChain)
       |-- Scan    <----- FileTree -- Census (abstract)
       |     `-- ScanProofs (with ExcludeProofs)
       `-- ParScan <---------'
             `-- ParScanProofs (with ScanProofs)
    Exclude ---- FileTree, Census
       `-- ExcludeProofs
    ChildLists (abstract) <- ChildChain -- ArenaProofs
    XfsQuota -- Main -- MainProofs
    Lemmas (induction, intervals, lists, sums; used by the proofs)

**`MemSink`** (`sink.rs`, `model.rs`). `nodes` is `Tree::nodes`, `devices` is
`Devices::list`, `open` the stack of live `MemSinkDir` values, the innermost
last. One action per method: `CreateRoot`, `SetReadError`, `AddSpecial`, `AddStat`,
`AddDir`, `FinalizeSub`, `FinalizeRoot`. A method's trailing calls (`link_child`,
the addition to the parent's handle) are part of its action. An `EntryId` k is
k + 1; the chain of a directory is the sequence `kids`. `told` is a history: the
running total of what the walker has reported, which lets the totals of a range
of ids be said without recursion. `blocks` stands for `size` too, which the code
treats in the same statements.

**`ChildChain`** refines **`ChildLists`**: here the lists are what they are in
the arena, `sub` and `next`, and the loops of `link_child`, `parse_item` and
`unlink_from_parent` take one turn per step. This is what entitles the other
modules to sequences.

**`FileTree`** is what a walk works on. The file system: objects with a name in
a directory and a nature (its kind, whether lstat works on it and `read_dir` in it,
whether its name is UTF-8), `Vanish` for other programs that remove, `Replace` for
those that put a file or an empty directory in the place of another or change what is
permitted, `NotReturned` for an entry that `read_dir` fails to return. That `lstat` fails
(`~stat`) is a property of the entry and not of its being gone: its directory may be
listed but not searched, its path too long, its disk broken. And
the patterns: it has the variables of `Exclude`, `Configure` is `run` giving the
`--exclude` options to `add` and the walker calling `for_path`. **`Census`** is the
abstract scan: one step from no report to a faithful one, in which an entry is
excluded when the patterns *mean* it to be, by `Exclude!Meaning` of its whole path,
and is reported as what it was at some time during the scan, or as an error where
lstat fails on it. A scan may be refused (`Refuse`) when `fs::metadata` fails on the root or
says that it is no directory, and when the walker is `denied` something else it needs:
the parallel one the threads of its pool (`granted`). **`Scan`** and
**`ParScan`** drive `MemSink` and are each shown to implement `Census`, by a
report computed from the finished arena. They carry the `Patterns` as the code
does: `Scan` in its `todo` record per level of `scan_dir`, `ParScan` in the items
of a `par_iter` and in its record per call of `walk_dir` (`open`, `read`, `join`,
`done`), and ask `Exclude!Matches` and `Exclude!Enter`. `ParScan` has further a stack of calls per worker, the queue of closures nobody has
begun, and the stack of `emit`. Of rayon it is assumed that any worker may run
any queued closure, that a worker waiting for its own `par_iter` runs others
meanwhile, and that `collect` keeps the order of the items.

**`Exclude`** (`exclude.rs`). A written pattern is a sequence of tokens, globs
and slashes; `Parse` gives the chain; the two roots, `cur` (the `Patterns` of
the directory the walk is in) and `path` are the state. `fnmatch` is a constant
relation. The `Vec`s of pointers are sets, since `match_list` and `enter_into`
depend on nothing else. A path as `for_path` splits it may have empty components, from
adjacent slashes, which a glob may match but no other component of a pattern does.

**`Delete`** has the functions of `delete.rs` as operators on an arena;
**`Browser`** has one action per key and the disk: `disk` are the objects still
there, `denotes` what the name of a node leads to (itself, except for the lossy
names of markers). `ConfirmYes` is all of `delete_entry` with its error exits,
the partial removal of a directory among them.

**`Json`**: `Item` is the nested value `export_tree` writes, by the recursion of
`write_dir` (`Written`); `parse_item` is a machine with a stack of calls, one step per
item. A dump is written from a scan, or comes from another program (`Receive`): its
items, by how deep they nest, are the levels of `Nested`, and may be malformed or have
fields that contradict each other; what was imported is exported once more and imported
again. `import_tree` first has serde_json read the whole text, which gives up at 128 open
brackets and braces (`unbounded_depth` is not asked for in `Cargo.toml`). The array of a
dump, those of its directories and the object in the innermost leave room for 125
directories inside one another: `Levels`, and a dump that is `TooDeep` is refused,
whoever wrote it.

**`XfsQuota`** has the parsers as operators on lines, **`Main`** is `run` with a
program counter; every call to the system may fail and the process may be killed
between any two steps. The steps of `Browser::run` are in it: raw mode, the
alternate screen, the event loop with its result, the restoring.

## What the runs check

Every property has a mutant of the code that breaks it. Bounds are in the `.cfg`
files; the widths of integers are constants, small enough to saturate.

| run | question | states | instance |
|---|---|---|---|
| `sink` | Are the arena and the totals right after every walk? | 2.3 M | all trees of at most 5 entries, totals that saturate at 5, two devices |
| `sink_suberr` | Does `suberr` mean what `model.rs` says? (no) | | 4 entries |
| `browser` | Do view, tree, totals and disk stay in step? | 421 k | all trees of at most 4 entries, every sequence of keys, vanishing files, saturation at 6 |
| `browser_links` | Are the totals right after any deletion? (no) | | 3 entries |
| `browser_lossy` | Is it always the target that is deleted? (no) | | 3 entries, names that are not UTF-8 |
| `scan` | Is the sequential walk a census, and does it end? | 2.42 M | 4 objects on 3 levels, 5 natures, one of 5 patterns, read errors, vanishing files, a directory and the entry in it that may be replaced |
| `parscan` | Is the parallel walk the same census, without deadlock? | 1.28 M | 4 objects on 3 levels, two of them siblings to which the patterns lead differently, 4 natures, one of 2 patterns, 2 workers, threads that may be denied, vanishing files, one directory in the middle that may be replaced |
| `exclude` | Is the incremental matcher right? | 786 k | two patterns of up to 5 tokens, walks of depth 3, also through empty components |
| `json` | Does a dump keep the tree, and is any dump read as written? | 636 k | all trees of at most 4 entries, 2 devices, totals that overflow in bytes, a limit of 3 levels of directories; dumps of other programs, just below and beyond it too |
| `chain` | Are the links lists, and does every loop end? | 4.6 k | 6 entries, 3 of them directories |
| `main` | What do a printed total, an exit code and an output file tell, and is the terminal given back? | 377 k | project files of 3 lines, reports of 2, dumps of 3 writes through a buffer of 2 |
| `main_fallback` | Does a failing fast path fall back to a scan? (no) | | as `main` |

*sink.* `SubtreeIsRange`: the child lists of a finalized directory tile the ids
of its subtree. `TotalsExact`, `SuberrExact`: its totals and its flag are those
of that range. `ParentsAgree`, `DevicesInjective` relate the
redundant structures, `ClosedNeverChange` is an action property. Five entries
give three levels with siblings on each side of a subdirectory, all the shapes
the handles distinguish; the theorems below make the bound irrelevant.

*browser.* `ViewIsListing`, `CursorOnRow` and `PathIsShown` say that what is on
the screen is what a key acts on; `PrunedExactly`, `ItemsExact` and
`TotalsFollowDeletes` that a sequence of deletions leaves the tree that a scan
of the rest would give, and after saturation no total above it; `PrunedIsGone` and `OnlyTargetRemoved` relate the tree and the disk. Four
entries allow two nested deletions, a partial removal, and a target in the
head, middle and tail of a list.

*scan, parscan.* `IsCensus` is the refinement of `Census`; `Terminates` is
liveness. The tree of `parscan` is deeper than the pool has workers, which is
where nested `par_iter` calls could come to a standstill; the two siblings in it need
different sets of patterns, so that handing each that of the other breaks `IsCensus`.
`EachTaskOnce`: a subdirectory that a `par_iter` waits for is queued or walked by exactly one
worker. The natures and patterns of `scan` give all reasons for a marker: excluded
files, directories excluded by a pattern for directories only, names that are not
UTF-8, entries on which lstat fails, unreadable directories; and the patterns reach across
the path of the scanned directory, begin anywhere, or need the right set in the subdirectory:
handing it the set of its parent breaks `IsCensus`.

*exclude.* `SplitAsWritten`: the chain, joined again, is the written pattern
between its outermost slashes. `CarriedExactly`: the pointers carried are the
places the patterns have reached. `MatchesIsMeaning`: the answer is the meaning
for the whole path. Five tokens are the shortest that have a leading and a
trailing slash around a pattern of two components.

*json.* `RoundTrip`: the imported arena is the one the dump was written from,
scanned or itself imported, field by field, apart from `items` and `suberr`, which
the importer does not restore, from the size of a marker, which is not written,
and from totals whose bytes saturate. `ReExported`: its dump is the same dump.
`ReadAsWritten`: a dump is refused when it nests too deep, or when it is another
program's and has a malformed item; any other becomes one node per item with the right
lists, sizes and devices, and of the type that counts for most of those its fields
claim. Among the refused dumps are ones this program wrote, of trees too deep. The dumps of other
programs nest up to three directories below the root, one more than the limit leaves room
for, with devices left out, repeated and changed back, which is what inheriting them can
get wrong.

*chain.* `ChainsAreLists` is the refinement of `ChildLists`; `UnlinkFinds` that
the loop of `unlink_from_parent` does not run off the end; `WalksEnd` that no
loop runs for ever. Six entries allow a list of five, with the target anywhere.

*main.* `TotalIsOfProject`, `KeptUntilScanned`, `SuccessIsWhole` tie what the
user gets to the steps that were completed. `TerminalRestored`: once the event
loop was reached, the run does not return in raw mode unless the terminal
refuses, and does not return success over an error of the loop.

The types are checked once per module (`TypeOK`, `BTypeOK`, ...), apart from
`ChildChain`, whose refinement of `ChildLists` says more.

`CHECK_DEADLOCK` is left on everywhere: a finished system has a step that says
it is finished.

## Fairness

* `Scan`: `WF(Prepare \/ Walk)`. The walk is a loop of the only thread, so its next
  step is eventually taken. `Vanish` and `Replace` have no fairness.
* `ParScan`: `WF(Main)` and `WF(Work(w))` for each worker: a thread that can go
  on is scheduled by the operating system. No fairness between the closures of
  the queue is assumed.
* `ChildChain`: `WF(Turn)`, for the loops of one thread.
* `MemSink`, `Browser`, `Json`, `Exclude`, `Main`: none. Keys, other programs,
  failures and signals need never happen; the properties of these modules are
  safety properties.

## What is proved

Eight modules hold theorems and lemmas, checked by TLAPS. Assumptions are those
named in the modules: `SinkAssumption` (block counts are at most `u64::MAX`; a scan
has at most `u32::MAX` entries, as ids are `u32`), `ExcludeAssumption` (a slash is not
in a name, a glob is the whole text between two slashes, `fnmatch` is a relation),
`JsonAssumption` (a block has a byte; serde_json reads some levels; no device is numbered `u64::MAX`; the fields of
other programs' dumps have the types that parsing gives them, and their items nest
finitely deep), `FileTreeAssumption` (a finite tree: each object
but the root is in a directory, without cycles, under one name of its own there),
`ChainAssumption` (the first entry is a directory), `BrowserAssumption` (a page has a
row), `QuotaAssumption` and `MainAssumption` (types of the constants). They hold for any
tree, any number of patterns and any depth.

**Induction** (`Lemmas`). The induction theorems of the library take an operator as a
parameter, which the provers cannot instantiate. `SetInduction` states induction for
a set instead (a set of naturals that holds 0 and every successor of its members
holds all of them) and proves it from the theorems on finite sets; `Upward` and
`Downward` are its forms on an interval, `LeastExists` the least element of a set. With
them the sums over sets, which the community modules define by recursion, get their
equations: `SumsUnfold`, and from it `SumUnion`, `SumFamily`, `SumMonotone`.

**The sink** (`MemSinkProofs`). `Spec => []TypeOK`,
`ClosedNeverChange`, `DevicesInjective` and `ParentsAgree` are proved from the
types and the effects of each method. `SubtreeIsRange`, `TotalsExact` and
`SuberrExact` speak of finalized directories, and none is inductive alone: while
a directory is open, part of its total is in its own handle, part in handles
above it on the stack. The inductive invariant `IInv` says what each open handle
has accounted for: its directory's range up to `Reach`, which is the newest entry
for the innermost handle and the subdirectory being descended into for the
others. A handle's list tiles that range, its sums are those of that range, and
finalizing a handle hands its range to the one below it on the stack. That the
sums may be saturated at every level is the lemma `SatAdds`. `SubtreesAreRanges`
says of subtrees read off the lists, by recursion, that they are ranges; the theorems on
deletions begin with it.

**The links** (`ArenaProofs`). `CSpec => ChainsAreLists` is the refinement of
`ChildLists` for any number of entries. The invariant `CInv` maps each directory to the
list that `Walked` reads off its links (`Mapped`) and says that the lists are `next`
links throughout, that no entry is at two places of them, and that what is not linked
yet leads nowhere (`Hold`); and of a loop that is running, where in which list it is
(`Linking`, `Windowing`, `Unlinking`). A turn of a loop is then a stutter, or appends or
removes one entry of one list. That the walk along the links ends, and so means
something, is that no entry comes twice. `UnlinkFinds` is the same invariant: the loop
of `unlink_from_parent` runs towards a target that is ahead of it in its list.
`ChainLoopsEnd` reads off it how many turns each loop has left (`TurnsLeft`): what is left
of the list it is on, at most `N`, and less after every turn.

**The matcher** (`ExcludeProofs`). The invariant is that `cur` is exactly the set
of places the patterns have reached on `path` (`CarriedExactly`), and that the
two roots hold the heads of their patterns. `FitsOneMore` is the step: a pattern
fits the longer path by k components exactly when it fits the shorter one by
k - 1 and its k-th component matches the new name. `LeadsOn` says which places
the lists of a directory and the unanchored root hold together, and from it
follow both that `Enter` keeps the invariant and that `Matches` answers what the
patterns mean (`PatternsMean`).

Two lemmas are what the walkers need: `EnterCarries` (entering a subdirectory with the
places reached in its parent gives the places reached in it) and `MatchesMeans` (asked
about a name with the places reached, the matcher answers what the patterns mean for
the whole path). Parsing is a recursive function over positions; `ParseType` says that
the parse of any pattern is a non-empty chain, so that every pointer is into one
(`Typing`). `ReadAsGiven` is `SplitAsWritten`: from the last text back, what the parse from a
place on says when it is joined again is the text from there on (`SplitRight`). It rests on the
one thing the module assumes of a written pattern, that a glob is the whole text between two
slashes.

**The sequential walk** (`ScanProofs`). `SSpec => IsCensus`: for any tree, any patterns
and any interference, what the finished arena says is a census of what was on disk at
some time during the scan, each entry once, below its own directory, and as what it
is or what the patterns mean for its path. The invariant `SInv` puts together the sink's
`IInv`, the matcher's invariant and

* `FsOK`: what was in a directory is still there, or is excused by the interference.
  `Interfered` bounds what any step may do to the file system, so that interference is
  looked at once (`Quiet`, `QuietKeeps`);
* `NamesOK`, `ListsOK`: each node is for an object of its own, and each is in the list
  of the directory its object is in;
* `KindsOK`: a node says what its object was at some time, or that lstat fails on it;
* `DirsOK`, `CompleteOK`: a directory that was read has its error flag right, and of
  its entries each is recorded, is still in a call's `todo`, or is excused;
* `TodoOK`: what a call of `scan_dir` has left to look at is not recorded yet, and the
  patterns it carries are the places reached on the path of its directory.

`EntryEnters`, `LookedKeeps`, `BeginKeeps` and `ReturnStep` are the steps of the walk: an
entry is looked at and added, a directory is opened, a directory is read, a call
returns. When no call is left nothing is awaited, so that `CompleteOK` says that the
report is whole (`FaithfulTree`). Each step is then a step of `Census` (`Interfere`,
`Prepare`, `Answer`, `Refuse`) or a stutter. The recursive definitions `Above` and
`PathTo` unfold because the tree has no cycles (`Level`). `STypeOK` is the same invariant.

Four more results rest on it.

* `ScanUsesSink`: what the walk does to the arena is a behaviour of `MemSink`, so that the
  theorems on totals, lists, marks and devices hold of the tree it builds.
* `ScanIsTrue`: a census still leaves choices, about objects that were interfered with.
  Where nothing was (`excused = {}`) there are none: the report is `TrueRows`, a function
  of the tree and the patterns. That a census has just the objects that can be reached
  is an induction on their depth (`FaithfulIsTrue`); `Alone` says that what was left
  alone is what it was. Nor is such a scan refused but for a root that `stat` fails on or
  says to be no directory (`Refused`).
* `SinkAccepts`: the sink's guards are conditions the code does not test, and the walk
  never fails them (`Ready`). Without it, a step that the sink's contract forbids
  would just be missing from the model.
* `ScanWindsDown`: `TurnsLeft` counts what the calls on the stack still have to look at,
  and a whole call for each object not yet recorded. Every step of the walk lowers it,
  and no interference raises it.

**The parallel walk** (`ParScanProofs`). `TasksOnce` is `EachTaskOnce` for any number
of workers, any tree and any interference with it. Its invariant `PInv` has three
parts, as predicates on values so that a step is a lemma about the arrays before
and after it. `Calls`: what a call holds (its subdirectories are its own, each at one
place of its `par_iter`, without results until it forks, and not also among the
entries still to read). `Stacks`: a directory is at one place of one stack at most,
and exactly when its call runs. `Tasks`: what a `par_iter` waits for is queued or
running, and not both. `Begins`, `GoesOn`, `Forks`, `RootReturns` and `SubReturns` are
the steps; that a call has returned only when it waits for nothing is what a
`join` guarantees, and is what keeps a result from being lost.

`PSpec => IsCensus` (`ParallelIsCensus`) says that the second phase is a census of what
the first phase met, however the workers took turns and whatever changed meanwhile.
The invariant `QInv` has, besides `PInv`, the invariants of the sink, of the matcher and of
the tree:

* `Good`: a `Walked` says of its entry what it was, and lists its directory's entries each
  once, and so do the `Walked`s in it, down to the leaves. A recursive value is good when
  it lies in a set in which every value says so of itself (`GoodParts`, `GoodWhole`), which
  needs no induction over its depth;
* `Promises`: what each call of `walk_dir` holds. Each entry of its directory is a child or
  still to read, or excused; a placeholder stands for each directory, at the index its
  task carries (`TaskOK`), with the patterns reached there; a result is good and is of
  the directory it is stored for. So `build_tree` fills every placeholder
  (`PatchedRight`, `JoinedGood`);
* `Phases`: nothing is emitted before the walk is over, and then from a good tree;
* `EmitsOK` and `WalkOK`: emission is the sequential walk over again. `T` is `ScanProofs` with
  `todo` given by the calls of `emit`, where the children left are the entries left to look at,
  and a read error not yet reported is a directory not yet read. Its lemmas on how a
  node is added, a directory begun, read and closed then apply as they are.

`PTypeOK` (`ParallelTypes`) follows from the same invariant.

*The two walkers.* `ParallelUsesSink` and `WalkersAgree` are the same results as
`ScanUsesSink` and `ScanIsTrue`, through `T`: undisturbed, both walks report `TrueRows`,
whatever the number of workers and whoever takes which directory; the parallel one may
besides be refused its threads, and nothing is walked without them (`Granted`).

*Progress.* `PoolGoesOn`: while `walk_dir` has not returned for the root, some worker
`CanWork`. A worker that waits in a `par_iter` takes closures of other ones meanwhile, and
a result it waits for may be complete before it can return to it; so each worker alone
may wait, and it must be shown that not all do, round in a circle. `InOrder` is the
reason: the calls can be numbered in the order in which they began, and on each
stack, and from a directory to its subdirectories, the numbers rise. The call that began
last is on top of its stack and waits for no call under way: it can go on, or
closures are queued, and its worker may take them. `EmissionGoesOn` says the same of the
second phase: `CanEmit` until the tree is finished. `WalkWindsDown` is the measure: each
call of `walk_dir` is begun, opened, read, forked and joined once, as no closure is of a
directory that has been begun (`Fresh`), and `emit` visits each record once.

`CanWork` and `CanEmit` are written out as conditions on the state, since ENABLED is not
provable; on the instance of `parscan`, TLC finds them equal to the ENABLED of `Work(w)`
and of emission.

**The browser** (`BrowserProofs`). `BTypeOK`, `ViewIsListing`, `CursorOnRow`,
`PathIsShown`, and where every name is what it seems `OnlyTargetRemoved`, hold for any
tree and any keys, deletions and interference. The invariant `BInv` adds the shape of
the arena (`Shape`: each list in ascending order of ids after its directory's, each
parent before its child), which every method of the sink (`ShapeStep`) and
`delete_entry` (`PrunedEffect`, `PrunedShape`) keep, and `Trail`: what climbing the parent
links from the shown directory gives is `parent_stack`. `Enter` and `Back` then move
along it (`TrailDown`, `TrailUp`); a deletion leaves it alone, since only the list of the
shown directory changes and that is the last of the trail (`TrailStays`). The two
recursive functions, `Chain` and `Branch`, exist because ids order the tree
(`ChainUnfolds`, `BranchUnfolds`). That a list shows each child once is `ListingOf`.

*Deletions.* `PrunedExactly` and `ItemsExact` need to know how the set of entries below a
directory (`Branch`) changes when one list loses its target. Branches are nested or
disjoint (`Nested`, `SiblingsApart`), since lists do not share entries (`Apart`); so the
target's branch leaves those above it, whole, and no other (`BranchAfter`). The invariant
`DInv` says that what is left of the scanned tree is what it was without the branches of
the targets, and that `items` counts it; it starts from `SubtreesAreRanges`, by which a
scan makes the ranges the branches. `PrunedIsGone` adds the disk: what is still there is
in what is left of the tree. It holds where every name is what it seems (`~LossyNames`);
`browser_lossy` shows that it must be assumed.

*Totals.* `TotalsFollowDeletes` has two halves, and `TInv` has both. After saturation no
total is above what is left; that is not inductive, but the local inequality is: a
directory's total is at most what the walk reported for it and the totals of its
children, since a saturating subtraction takes the same from each ancestor. As long as
nothing has saturated and no link was a target, every total is exactly what is left.
Both start from `TotalsExact`, turned from ranges into sums over branches by telescoping
the history `told`.

**Export and import** (`ArenaProofs`). `RoundTrip` and `ReExported` hold for trees of any
size and shape, and `JTypeOK` through the import of any dump. The invariant `JInv` has
three parts.

* `ScanInv`: the sink's invariant, and that the root comes first and spans all
  (`Rooted`). So a finished scan is a tree (`TreeOK`, by `ScannedTree`): the list of a
  directory goes through the entries after it in order, each with what is below it, up
  to where the directory ends (`KidsSpan`).
* `Reads`: what is imported is such a tree as far as it goes (`ImportOK`). The list of an
  open call ends at the entry that the call above it on the stack is for, or at the newest
  entry. The items are those of some set in which every item has items of that set
  (`Sound`), so that no induction over the nesting of a dump is needed. What `parse_item`
  does up to the children, and at the end, is `Made` and `Ended`; that they keep the
  spans is `MadeKeeps` and `EndedKeeps`.
* `Mirrors`: when the dump was written from a tree, what was read so far are the first
  entries of that tree, and what the calls have left are the items of the entries that
  follow in its lists (`Agrees`). The item parsed next is then that of the next entry
  (`NextItem`), and its node is that entry again (`MadeBack`, from `TypeBack`, `SizeBack` and
  the inherited device); `MadeAgrees` and `EndedAgrees` are the steps. When no call is left,
  all entries were read.

`Item` is recursive over entries, and exists because lists only hold later entries
(`ItemUnfolds`). That two trees with the same entries have the same items goes from the
last entry down (`SameItems`), and gives `ReExported`.

`ImportIsDump` is `ReadAsWritten`, for any dump and any limit of serde_json. `JInv` holds, beside
the three parts, a record of the item and the outer device each entry was made from
(`ReadOK`): an entry agrees with its record, and its children's records are the items of its
record's array, in order. At the end this record is the very one the property reads off
the lists (`FoundIsRead`), because each entry has exactly one place in them (`OneSpot`): the
spans of two directories are nested or disjoint (`Laminar`), so none is in two lists
(`NotInBoth`). That an import that is not too deep is refused only for a malformed item of the
dump goes along
the levels of `Nested` (`Graded`): what a call `l` deep has left is on the level `l` below
the last.

**The command line** (`MainProofs`). The invariant adds to the properties what
each step of `run` may rely on (`Steps`): a project is known when the report is
read, a tree is there when output is made, the file was truncated when the dump
is written to it, raw mode is on only while the browser runs.
`TotalIsOfProject`, `KeptUntilScanned`, `SuccessIsWhole`, `TerminalRestored` and the types
(`MTypeOK`) hold for files, reports and dumps of any length.

Only model-checked: liveness (`Terminates` of both walks, `WalksEnd`). The provers have no
rule for ENABLED, and so none for fairness. What liveness follows from is proved, as
safety: that the walks and loops have a next step until they are done (`SinkAccepts`,
`PoolGoesOn`, `EmissionGoesOn`), and that there are finitely many of them
(`ScanWindsDown`, `WalkWindsDown`, `ChainLoopsEnd`).

## Where the code and its documentation differ

Three of these come from counterexamples TLC finds against a documented promise
(`sink_suberr`, `browser_links`, `browser_lossy`) and one from a step that must
not happen (`main_fallback`); the others were met while reading.

* `sink.rs:226`: an unreadable directory does not set `suberr` above it, though
  `model.rs:124` speaks of errors in some descendant. Only error markers do.
* `delete.rs:48`: deleting a hard link subtracts blocks which `add_stat` never
  added, so the ancestors' totals fall short of what remains.
* `delete.rs:67`: the marker of a name that is not UTF-8 carries the replacement
  text. If a sibling really has that name, deleting the marker removes it.
* `main.rs:66`: an error of `is_xfs` or `project_id_for` ends the run, though both
  files say that the fast path falls back to a scan.
* `json_import.rs:18`: a dump of more than 125 directories inside one another is refused by
  serde_json, also one that `export` wrote, though the module names UTF-8 names as the
  only consequence of reading with it.
* `sink.rs:161`: hard links count nothing; the README says once per link.
* `delete.rs:117`: a comment calls `items` a count of immediate children; a scan
  counts all descendants, only the importer sets immediate counts.
* `xfs_quota.rs:112`: a blank line ends the search for the row of the project.
* `scan.rs:54`: under a relative path, anchored patterns are matched from that
  path on and not against absolute paths.
* `scan.rs:78`: an entry `read_dir` fails to return leaves no error mark.

## What is not modelled

* Drawing and `fmt_size` in `browser.rs`: they change none of the browser's state.
  The order of equal totals, which is by name. Panics while drawing.
* Directories that are renamed during a scan, or replaced by a link to another
  directory, which `read_dir` would follow: an object stays where it is or goes.
  The scanned path is resolved once: `main.rs:94` resolves it again for the browser.
  A failure of lstat that passes by itself, of one call and not of the next: whether it
  works changes only with what another program does (`Replace`).
* `Inodes`, `shared_size`, `Ext` and `fmt_path` in `model.rs`: no code of the
  program calls them on a scanned tree.
* Text: names and their escapes, the header of a dump, the splitting of lines into
  words, the reading of JSON, which is serde's, but for its limit. That the reader an
  import is given fails: only tests call `import_tree`, on text in memory.
* Option parsing, which is clap's.
* Write errors inside `json_export.rs` are in `Main`, as failing writes.

## Plan

Every safety property of the runs has its theorem, and every liveness property the two
halves that can be proved. What would add to it:

1. *More of the file system.* Directories that are renamed during a scan: an object would
   have a place that changes, and the census would be of places.
2. *More of `model.rs`.* `Inodes` and `shared_size`, as soon as code calls them on a
   scanned tree.
3. *Panics.* `sub_items` in `sink.rs:128` and `blocks * 512` in `browser.rs:240` overflow
   only for trees beyond the types' limits; a model with the panic as an outcome would
   say where it ends a run.
