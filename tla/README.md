# RSFuzz in TLA+

RSFuzz runs a grammar-based fuzzer in two phases. The *capture phase* generates
batches of inputs, clusters them by the coverage of the program under test, and
captures *rules* (recurrent sequences): sets of sub-sequences of derivation
trees that the inputs of one cluster have in common. The *test phase* generates
inputs with a generator that avoids completing a captured rule. These modules
model both phases, the table that connects them, the launcher, and of the
interpreters that RSFuzz runs the parts that are protocols of their own: the
memory of JerryScript and the asynchronous machinery of QuickJS.

## Inventory

The program is Python under `src/main`; `src/bnf` is data (grammars and cost
tables). `src/benchmark-src` holds the C sources of the programs under test,
JerryScript, QuickJS and Jsish, which the coverage runners build and run.

| Component | Source | State it keeps | Operations | Module |
|---|---|---|---|---|
| Rule table | `generateRS.py:729-768` | `subseq_for_generator`, `idx_subseq`, `rs_for_generator`, `n_subseq` | built after every update, pickled, read by the generator | `RuleTable` |
| Input generator | `rsfuzzGenerator.py:37-288` | the tree (a list of levels), the partly concatenated next level, `tmp_sub_seqs`, depth and input counters | `expand_node_randomly`, `expand_minimum_node`, `prune_children`, `satisfy_pre_seq`, `generate_input` | `InputGenerator`, `Derivation` |
| Capture loop | `generateRS.py:193-349, 574-625, 673-808`, `naive_genRS.py` | `dt_idx_dict`, `seqs_idx_dict`, `cov_idx_dict`, `unique_seqs`, `unique_dt`, `total_clusters`, `captured_covs`, `recurrent_sequences`, `parameter_dict`, `prev_captured_*.pickle`, `n_chance`, `max_n_chance`, `do_update`, `before_cov_vec`, error and coverage files | `run`, `create_csv`, `update_recurrent_sequences`, `no_newline`, `test_input_files` | `CaptureLoop`, `UpdateSchedule`, `ScheduleHistory` |
| Launcher and test phase | `runRSFuzz.py:8-82`, `runFuzzer.py:151-262` | files of `capture_data`, `total_cov`, `info_num` | `run_rsfuzz_online`, `run`, `timeout(1)` killing either child | `Campaign` |
| Rule extraction | `generateRS.py:95-138, 351-572, 627-671`, `naive_genRS.py:413-531, 741-781` | `recurrent_sequences` during an update; the rest are pure functions | `dt_to_sequences`, `simplify_subpaths`, `compare_subpaths`, `capture_rule_from_cluster`, `including_seqs`, `remove_included_seqs`, `merge_rules` | `SubSequences`, `RuleExtraction` |
| Grammar preprocessing | `rsfuzzGenerator.py:291-619` | none | `calculate_depths`, `trans_regexp`, `parse_bnf` | `Depths` (`calculate_depths`) |
| Tribble generator | `tribbleGenerator.py:154-203, 240-299, 632-641` (the rest is a copy of `rsfuzzGenerator.py`) | `uncovered_paths`, `target_path`, `selected_slot`, and the tree | `main`, `generate_input`, `expand_minimum_node_guided` | `TribbleGenerator` |
| Evaluation scripts | `runRatio.py`, `errorCheck.py`, `runNaive.py` | counters | one pass over generated inputs | none, except the launcher part (`Campaign`) |
| JerryScript heap | `jerry-core/jmem/jmem-heap.c`, `jmem-poolman.c` | the heap area with the free list in it, `jmem_heap_list_skip_p`, `jmem_heap_allocated_size`, `jmem_heap_limit`, the pool of free chunks | allocate, free, reallocate, pool chunks; ask for a collection under growing pressure | `JmemHeap` |
| JerryScript garbage collector | `jerry-core/ecma/base/ecma-gc.c` | the object list, reference counts and colours, the recursion limit; weak containers and the `WEAK_REFS` of their keys | `ecma_gc_run` | `MarkSweep` |
| QuickJS promises and job queue | `quickjs.c:45850-46755, 1786-1841` | promise state, reaction lists, `already_resolved`, the job list, the rejection tracker | resolving functions, `then`, `await`, reaction and thenable jobs | `Promises` |
| QuickJS async generators | `quickjs.c:19301-19728` | generator state, request queue, frame, outstanding continuation | `next`, `return`, `throw`, `js_async_generator_resume_next`, the functions of its awaits, the finalizer | `AsyncGenerator` |
| The rest of the interpreters | `benchmark-src` | | parsers, bytecode, libraries, built-in objects | none |

How they interact: the launcher starts one child after the other; the children
share nothing but files. The capture loop calls the generator for every batch
with the table of its last update, runs the batch (one program run for all of it,
or one per input), and calls rule extraction when an update is due. The
generator and the capture loop communicate through the rule table on the way in
and through `samples/` and `trees/` on the way out. An interpreter is a process of
its own, of which the loop sees a coverage report and an outcome. Inside
JerryScript the collector and the allocator call each other: an allocation that
finds too little room asks for a collection, which frees blocks while the
allocation is under way. Inside QuickJS an async generator resumes through
promise jobs, and the program's own code runs between any two of them.

What is hard, and where it is modelled:

* *Long sequences of steps over shared state.* The next level of a tree is
  addressed by offsets while it is being concatenated; the set of matched
  sub-sequences is grown one node at a time and drives the pruning of all nodes
  after it (`InputGenerator`). Seven dictionaries are filled at different
  places of `create_csv` and kept between updates that happen at irregular
  times (`CaptureLoop`).
* *Approximate comparisons.* Rules are shortened, compared, dropped and merged
  by scans that are looser than the subsequence tests they stand for; what they
  do shows only several passes later, in the table (`RuleExtraction`).
* *Termination.* The second loop of the generator has no bound of its own; the
  loop of the capture phase never ends and has to come to updates for ever.
* *Kills.* `timeout` ends either child at any step, also in the middle of
  writing a file that the next child reads (`Campaign`).
* *Timeouts and missing reports.* A run of the program under test that takes too
  long has no coverage, for good; a batch without a report has an empty vector
  (`CaptureLoop`, `Campaign`).
* *Re-entrance.* A collection runs in the middle of an allocation or of a
  reallocation that has already looked at the free list (`JmemHeap`).
* *A limit on recursion.* The collector's marking gives up at a depth and picks
  up what it left in later passes (`MarkSweep`).
* *Interleaving of a program with the jobs of its interpreter.* Resolving
  functions are called late, twice, or by somebody else; a generator is called
  while its body runs or awaits (`Promises`, `AsyncGenerator`).

`PROJECT.json` lists the hazards one by one, with their line and the property
that covers each, or the reason why none does yet.

## Modules

### RuleTable

The nested dictionaries of the table are functions: `subs` maps
`<<symbol, dn, path>>` to an id, `paths` an id to its path, `rules` a symbol to
the set of pairs of a derivation number and a set of ids. `MakeTable` is the
loop over the rules, `AddRule` one iteration of it: the members are numbered in
order (`AddSubSequence`), then the rule is listed under the last symbol of each
of them (`ListRule`). The list of a symbol is a set because the code keeps it
free of duplicates and only scans it whole.

`WellFormed` says what the generator relies on and `RulesOf` reads the rules
back. `RuleExtraction` makes its table by `MakeTable` from every set of rules its
updates come to, and checks both (`RulesReadBack`); `GeneratorProofs` proves both
of every list of rules (`TableFaithful`) and of every update (`RulesReadBackAlways`).

### InputGenerator, ExtractedTrees, GeneratorProofs, Derivation, MCInputGenerator and MCDerives

One action visits one node, as one iteration of the `for` loops of
`expand_node_randomly` and `expand_minimum_node` does. `node` is the loop index,
`next` is `nodes_in_next_depth`.

| Action | Code |
|---|---|
| `BeginRandomLevel`, `LeaveRandom` | `while self.expand_check(...)` |
| `BeginMinimumLevel` | `while self.any_possible_expansions(...)` |
| `VisitLeaf` | the branch for a node that is a terminal |
| `ExpandNodeRandomly`, `ExpandMinimumNode` | the branch for an open node: prune, choose, place the children, match |
| `EndLevel` | `tree.append(nodes_in_next_depth)` |
| `WriteInput` | writing the sample and its tree, and the head of the `for` loop |

Choices of `random` are nondeterministic among the indexes it can return; a
probability is abstracted to whether it is positive. Levels and positions count
from 1 instead of 0. The text of a terminal is left out (regex terminals are
expanded by a library, exrex). A node's `status` says what the code reads off
its second field: `None`, `()` or a range.

`Derivation` is the abstract specification: a sentential form, of which a step
rewrites one nonterminal by one of its expansions. `MCDerives` maps the tree
under construction to its yield, through the ranges of children, and checks that
the generator implements it: breadth-first order, offsets and pruning change
neither the language nor the order of the sentence.

Bounds: four nonterminals (one of them without alternatives, which is what
`dt_to_sequences` skips), eight expansions, and three rule tables (no rule;
rules across levels and across siblings; rules that share members and corner the
generator), depth limit 5. The grammar is recursive, so both loops run over
several levels; `CostBound` is 2 and two inputs are generated, so that state left
over from the first would show in the second. The cost table is that of `Depths`
(`CostMapAssumption`).

`SequencesFound`, in `ExtractedTrees`, relates the two readers of trees: what
`dt_to_sequences` (`SubSequences`) reads off a complete tree is found in it by
`satisfy_pre_seq`, which decides about pruning.

### SubSequences, RuleExtraction and MCRuleExtraction

`SubSequences` has the pure functions from trees to rules, as operators over
sets: the tuple `(path..., dn)` of the code is the record `SubSequence(path, dn)`,
lists whose order does not matter are sets, and where the code sorts by length
and the result depends on the order among equals, the operator takes the
sorted list, one of `ByLength` or `BySize`.

`RuleExtraction` is one update, in `generateRS.py` (and the `capture` version of
`naive_genRS.py`) or in the naive versions, which neither simplify nor remove nor
merge. `CaptureRuleFromCluster` captures the rules of one cluster; `MakePL` removes,
merges and removes again over all rules (`MakePLOfAll` takes them as they are), and
makes the table by `RuleTable!MakeTable`. `clusters` are the lists of each cluster to
update, `rules` is `recurrent_sequences`, `listed` is `tmp_rss`, `forGenerator` the
triple written for the generator, and `stage` how far the update is. `Derivable` is
what `dt_to_sequences` can return for some tree of the grammar `RuleDict`, and
`AnalysedAssumption` says that the clusters hold finitely many of those. Mean-shift clustering cuts the ranking of
sub-sequences anywhere between two different values. `MakePL` ends in `"failed"`
where `merge_rules` reads past the start of a tuple.

The instance has a grammar in which the same token is reached along several
paths and two nonterminals alternate, so that two paths may be confused by
`compare_subpaths`, a rule may be merged into its parent, and a path of the
longest kind contains one of the shortest. One cluster has up to three
inputs (two leave every cut either everything or the common part; three give
cuts in between), the other one, so that rules of two clusters meet in `MakePL`.
One nonterminal stands in two expansions of its parent, of which no input takes the
second: `merge_rules` puts both in place of it (`TableOccurs` has to say what a rule
for the second one means).

Two cases are excepted from the properties by name, because the code's own
comparisons give up what they are about: `Confused` (two sub-sequences of the
inputs compare although neither is part of the other) and `PartlyMerged`
(`merge_rules` takes in a rule that has only part of the intersection, and the
rule that replaces it is larger).

### Depths

`calculate_depths`, one operator per nesting of its loops: an expansion, a token,
a pass over all tokens, `n` passes (`Passes`; `Ends` says that the loop has ended by
then). `MCInputGenerator` takes the cost table of its grammar from it, and
`CostTableFits` (see below) says that any grammar may.

### TribbleGenerator, GeneratorProofs and MCTribbleGenerator

Extends `InputGenerator`, whose nodes, pruning and per-node actions
`tribbleGenerator.py` has a copy of. `BeginPath` takes a k-path off the list,
`ExpandSlot` and `ExpandOther` are the two branches of
`expand_minimum_node_guided`, `EndGuidedLevel` appends the level and hands on the slot,
`WriteTree` writes the tree and takes its k-paths off the list, and `CallAgain` is
the loop of `main`. `phase = "minimum"` is the inner loop, which is the second loop
of `InputGenerator`, and `"path"` the head of the outer one. The stack search is
what it computes: `Covered`. `k_value` is 5 in the code and the constant `KValue` here.

Bounds: three overlapping 3-paths of a grammar of three nonterminals and three
rule tables; `Num = 3` with calls that make one to three trees, so that `main`
calls again. A symbol that follows twice in an expansion gives two slots.

A call may overshoot: `main` stops at a multiple of whole calls, and the capture
loop's batches are then larger than `number_individuals`.

### UpdateSchedule, ScheduleHistory and UpdateScheduleProofs

`n_chance`, `max_n_chance` and `do_update` of `run`, with the coverage reached as
the only other state: `NewLine` and `Barren` are the two branches after
`no_newline`. `MaxChance` bounds the growth of `max_n_chance`, which the code
lets grow for ever: at the bound it stays, so that the module can run for ever and
liveness can be checked. `CaptureLoop` implements it, with `MaxChance` out of reach.

`ScheduleHistory` records of each batch whether it had new lines and whether it
called for an update, without a counter, so that `UpdatesOnTime` can say when updates
are due in terms of the batches alone. The record ends after `MaxBatches` batches, fewer
than a streak of `MaxChance` has, and the loop goes on. Nine batches are enough for
three updates (streaks of one, two and three) with three batches of new lines among
them, of three lines.

### CaptureLoop, MCCaptureLoop and CaptureLoopProofs

The capture phase in all four versions: `rsfuzz` is `generateRS.py`, `naive`,
`select` and `capture` are `naive_genRS.py` with that `--naive_version`.

| Action | Code |
|---|---|
| `FirstBatch` | iteration 0; where error files are named by the input's own index, its empty vector may be a list and end the program |
| `DecideUpdate` | `if do_update` |
| `AnalyseKnownTree`, `AnalyseKnownSequences`, `AnalyseNew` | one iteration of the loop of `create_csv`, by its three paths |
| `Update` | `update_recurrent_sequences` and what it calls that keeps state; in the versions that merge rules (`Merges`) it may end in an `IndexError` |
| `Generate` | wiping and refilling `testcase_dir` |
| `TestBatch` | `test_input_files`, then the schedule, the total and `info_num` |

An input stands for itself and its tree; two trees may have the same sequence
list, and inputs of one sequence list may differ in coverage (only the first is
run). `Slow` inputs may exceed the timeout, in the batch run and alone;
`Crashing` ones end in a signal or an exception. `NoVector` is the empty vector of
a batch without a report. A dictionary from hashes to consecutive keys is the sequence
of hashes. A rule is abstracted to the set of sequence lists it was computed
from, which is what tells a fresh rule from a stale one; how many groups of
sub-sequences a recapture uses depends on mean-shift clustering and is
nondeterministic between its two outcomes. `SaveErrors` is the loop over the inputs of
a batch: where several have the same name, the files of the last one stay.

Bounds: batches of three out of three inputs (one cut short by its timeout, two
that crash) and two iterations after the first, in all four versions. Two
iterations are enough for an update, a batch, and a second update in which
clusters are captured again; clusters of sizes 1 to 3 compete for selection; and
error cases are named as `get_dir_coverage_javaprog_1` does.

### Campaign and CampaignProofs

The launcher with its three modes, and both children as sequences of steps that
touch files. `CaptureEnds` and `TestEnds` are `timeout` killing the child, enabled
at every step, or the child ending by itself over an empty vector (`EndsBatch`) or
in `merge_rules`; opening a file for writing and finishing it are separate steps, so
a kill between them leaves it `Torn`. What happens inside an iteration of the
capture phase is abstracted to what `CaptureLoop` shows of it: an iteration may
update, the first one always does. A rule table is the number of the update that
made it. `MaxIter` caps the counters of iterations and updates at 3; past it an
iteration is like the one before.

### JmemHeap, MCJmemHeap and JmemHeapProofs

`jmem-heap.c` and `jmem-poolman.c`. `heap.mem` maps each aligned word of the area
to what is in it: the `Header` of a free region (size and next offset), the
`Content` an owner wrote (with its place in the block), or `Junk`. So the free list lives in the words it is
about, as in the code, and a wrong step of the allocator shows as an owner
reading a header. `heap.skip` is `jmem_heap_list_skip_p`.

| Action | Code |
|---|---|
| `Alloc`, `PoolsAlloc` | `jmem_heap_alloc_block(_null_on_error)` and `jmem_pools_alloc`, up to the first attempt |
| `Free`, `FreeBlock` | `jmem_heap_free_block`, `jmem_pools_free` |
| `ShrinkRealloc`, `GrowRealloc` | the two halves of `jmem_heap_realloc_block` |
| `ExtendAtEnd`, `ExtendAtFront`, `StartMove` | its three ways to grow a block |
| `TryAlloc`, `RaisePressure`, `ReturnNull` | `jmem_heap_gc_and_alloc_block`: an attempt, and its loop |
| `Collect`, `CollectEmpty`, `EndCollect` | `ecma_gc_run` freeing unreachable blocks, `jmem_pools_collect_empty` |
| `Drop` | external: the last reference to a block goes away |

`FreeUnusedMemory` is `ecma_free_unused_memory`: under low pressure it collects or
not, depending on how many objects are new, which is left open. Full pressure
ends the engine (`pc = "fatal"`), which is why deadlock is not checked.

Bounds: five words, three interchangeable owners, requests of one to three words
(odd sizes, so that alignment matters) and a limit of two words between
collections. Three blocks are enough for a region with a block on either side
and a gap elsewhere, so that every merge, the exact fit at the front and the skip
pointer in every position occur.

### MarkSweep, MCMarkSweep and MarkSweepProofs

One run of `ecma_gc_run`. `refs` is `type_flags_refs`, the reference count that
doubles as the colour; `white` and `black` are the two lists, `cursor` the place of
the iteration, `stack` the activations of `ecma_gc_mark` with the references each
has left to follow, in any order. What an object refers to is the relation
`heap.strong`, and its weak container `entries`; `References` and `Leads` are what
`ecma_gc_mark` does with them, through both ends of a weak entry. Objects are
numbered in list order, so that a part of the list is the increasing sequence of its
members (`InListOrder`). `Alive` is the least set that contains the roots and is closed
under references, where an entry counts once its container and its key are in.

Bounds: four objects, each with at most one strong reference, to a neighbour on
the list in either direction or to none; two weak containers of at most one entry;
roots in three positions; a recursion limit of 1, so that most objects are left to
the passes. An entry whose value keeps the other container or its key alive, with
the list in the wrong order, takes three passes.

### Promises and PromisesProofs

The record `Now` collects what the functions of `quickjs.c` change, and the
functions are operators on it: `Settle` is `fulfill_or_reject_promise`,
`CallResolve` and `CallReject` are `js_promise_resolve_function_call`,
`PerformThen` is `perform_promise_then`. Actions are the calls a program may make
(`Create`, `Resolve`, `Reject`, `Then`, `Await`, at any time, in a script or in a
handler) and the jobs (`PassOn`, `Forward`, `StartHandler` and `EndHandler`,
`AdoptPromise`, `CallThenable`), each of which is one `JS_ExecutePendingJob`, except
that a handler of the program takes two steps. Values are abstracted to what
resolving looks at: a promise, an object with a `then` of the program, one whose
`then` throws, or anything else. A fulfilled promise keeps no trace of its value,
because the value may change: when it is passed on, its `then` is read again
(`js_promise_resolve_function_call`), and by then it may be any of `Outcomes`.
Reading `then` is one step with the call: the code of a getter runs as if it ran
before it.

`registered`, `ran` and `adopts` are history variables. Bounds: three promises, two
reactions and two thenable jobs, which allow a promise that is resolved with
another one that is resolved with a third, while the program holds functions of
all of them, or in which the value of the third turns into an object with a `then` on
its way.

### AsyncGenerator and AsyncGeneratorProofs

`state`, `queue` are those of `JSAsyncGeneratorData`, `awaiting` counts the promise
reactions that will call `js_async_generator_resolve_function` (by its magic),
`released` how often the frame was freed. `pc` says whose code runs: the caller's,
the loop of `js_async_generator_resume_next`, or the body.

| Action | Code |
|---|---|
| `Call` | `js_async_generator_next`, from outside or from the body |
| `RunBody`, `CompleteAtStart`, `ServeCompleted`, `EndResume` | the cases of `js_async_generator_resume_next` |
| `BodyYields`, `BodyAwaits`, `BodyEnds` | what it does with the result of the body |
| `AwaitSettled`, `ReturnSettled` | `js_async_generator_resolve_function` |
| `Finalize` | `js_async_generator_free`: nothing refers to the generator, or only a cycle with a promise it waits for |

An await that cannot be set up (`js_promise_resolve` throws; neither caller looks
at the result) is the outcome `lost`. Bounds: six requests and three awaits; for
the stalled requests three and one are enough.

## Runs

| Run | What it shows |
|---|---|
| `generator` | `MatchedExact`: the ids in `tmp_sub_seqs` are exactly those the tree contains. `HeightBounded`: the second loop adds at most `CostBound + 1` levels. `SequencesFound`: what `dt_to_sequences` reads off a tree the generator finds in it. `CompletesOnlyWhenCornered`: a step that completes a rule of which one member was missing had no unpruned alternative. `AllInputsWritten`: the requested number of inputs comes. `DerivesGrammar`: the generator implements `Derivation` |
| `rules` | `CapturedOccur`: a captured rule is a combination that an input of its cluster has. `TableOccurs`: so is every rule of the table, or merging put it in place of such combinations, one for every expansion of a symbol; an input need not have had the expansion of the parent that it names. `RulesLeaveTrace`: for every captured rule the table has one that ends alike or in the expansion above. `RulesReadBack`: the dictionaries the generator gets are consistent and stand for exactly the rules of the update |
| `rules_lost` | *violation:* `CapturedAvoided` |
| `schedule` | `ChanceBelowMax`: the equality test is never stepped over. `UpdatesOnTime`: a batch calls for an update if and only if it completes a streak of barren batches that is one longer than the number of updates before, told from what the batches covered and not from the counters. `UpdatesRecur`: updates keep coming |
| `capture` | `RecordsAgree`: the dictionaries agree and every analysed input is counted once; the records of captures agree, so a recapture finds its file; the total, in memory and in its file, is the union of all batches. `RulesFresh`: between updates, the versions with selection have captured each captured cluster with all of its sequence lists; the versions without it capture each cluster once (`naive_genRS.py:603`), so their rules may be out of date, and of them it says that no cluster is left out. `SelectsLargest`: selection takes the largest clusters and at least one. `CrashesSaved`: each crashing input of a batch has an error case under its iteration, except the first of two where names are shifted. `FollowsSchedule`: the loop implements `UpdateSchedule` |
| `tribble` | `GuidedTrees`: a finished tree has its target path, and the matched sub-sequences are those of the tree, over many trees in one call. `GuidedHeightBounded`. `OffTargetWhenCornered`: off the target, a rule of which one member was missing is completed only where every cheapest expansion was pruned. `GeneratorEnds`: each k-path is in some tree of a call, and `main` ends |
| `campaign` | `RulesNearlyCurrent`: a guided test phase has the rules of the last update or the one before. `FilesAgree`: the saved coverage of the capture phase is part of the test phase's, and its log and `total_coverage_testing.pickle` agree, and at the end of an iteration the log of the capture phase and `total_coverage.pickle`, once there is one, do. `LateCrashLosesNothing`: a test phase that ends by itself after iteration 0 had neither found nor been given any coverage |
| `jmem` | `HeapPartitioned`: the free list ascends, its regions do not touch, every word is in one region or one block, and the skip pointer is on the list. `ContentsKept`: what an owner wrote is what it reads. `SizeAccounts`: `jmem_heap_allocated_size` and the limit follow the blocks. `FailsOnlyWhenFull`: no request fails while a run of words outside live blocks would hold it |
| `marksweep` | `KeepsExactlyAlive`: the collection keeps what is reachable, weak entries included, and nothing else. `WeakLinksAgree`: keys and containers agree at every step of the sweep. `CollectionEnds`: and with the reference counts as they were |
| `promises` | `OneResolver`: a pending promise is in the hand of one unused pair or one job, a settled one in none. `RejectionsTracked`: the host's tracker holds exactly the rejected promises without a reaction. `ReactionsInOrder`: reactions run once, in the order of registration. `AdoptsOutcome`: a promise resolved with another one is settled no sooner than that one, and rejected if that one is. When that one is fulfilled it may be rejected all the same, over a `then` the value got in the meantime. `JobsServed`: every reaction of a settled promise runs, and adopters settle too or are in the hand of the program, by such a `then` |
| `asyncgen` | `ContinuationMatchesState`: one outstanding continuation at most, of the kind the state says; the assert of `js_async_generator_resolve_function`. `FrameFreedOnce`. `RequestsAccounted`: every request is queued or answered, values come before the end, and requests are left over only by a completed generator or a failed await |
| `asyncgen_stall` | *violation:* `EveryRequestAnswered` |

What the violations are:

* `CapturedAvoided`. `including_sequence` moves its cursor to the end when a
  token is not found, instead of failing, so it holds of any two sequences
  that end alike if the first is not longer. `remove_included_seqs` goes through the
  rules by their number of members, equals in the order of capture, and keeps the
  rule that comes first because the later one seems to include it; inputs with the
  later one are no longer avoided. (`compare_subpaths`, whose scan can go backwards, loses rules in the
  same way, and merging under `PartlyMerged` weakens them.)
* `EveryRequestAnswered`. `js_async_generator_resume_next` leaves its loop after it
  served one request of a completed generator, and the job that settles the value
  of a `return()` does not go on with the queue either. Requests queued while the
  body awaited are then left over when the body ends: of three calls of `next()` on
  `async function* g() { await 1 }` the third is never answered, until somebody
  calls the generator again. `quickjs.texi` lists asynchronous generators as
  supported.

Deviations met without a run of their own:

* `prune_children` (`rsfuzzGenerator.py:139`) prunes the derivation number of
  every listing of a rule with one missing member, including the numbers of
  members that are already matched. With two members at the same nonterminal all
  of its expansions are pruned, pruning gives way, and the rule may be completed
  although another expansion would not have completed it.
* `create_csv` (`generateRS.py:232`) analyses the batch before but names its
  timed-out inputs by the number of the iteration to come, whose own error cases
  overwrite them.
* `get_dir_coverage_javaprog_1` saves input *i + 1* under *i*, so of two exceptions
  among the first two inputs of a batch one is lost (the exception in
  `CrashesSaved`).
* The table is copied to `recurrent_sequences.pickle` at the end of each iteration
  (`generateRS.py:806`). A capture phase killed in its first iteration, or during
  the copy, leaves nothing to load, and the test phase ends at once
  (`TestLoadRules`).
* `merge_rules` replaces rules for all expansions of a symbol by one for each
  expansion of the parent that has the symbol (`generateRS.py:658-660`), also for
  expansions no input took (`TableOccurs` says what such a rule stands for).
* In the versions without selection rules fall behind their clusters: a cluster that
  grows after its capture is not captured again (`naive_genRS.py:603`).
* `merge_rules` ends the capture phase with an `IndexError` when it merges rules that
  differ at the root (`stage = "failed"` of `RuleExtraction`).
* `total_coverage.pickle` does not exist before a batch of the loop covers a new
  line (`CoverageComplete`, a part of `RecordsAgree`).

Type invariants are parts of an invariant that relates the same variables
(`RecordsAgree`, `FilesAgree`, `GuidedTrees`) or of the inductive invariants that are
proved (`InputGenerator`, `AsyncGenerator`, `UpdateSchedule`, `MarkSweep`, `Promises`,
`JmemHeap`).

## Fairness

* `InputGenerator!FairSpec`: `WF_vars(Next)`. One thread, nothing blocks; likewise
  `TribbleGenerator!TribbleSpec` and `MarkSweep!Spec`.
* `ScheduleHistory!FairHistorySpec`: weak fairness of its steps; batches keep being run
  because the loop never waits for anything but the program under test, whose
  runs are limited in time.
* `Promises!Spec`: weak fairness of the jobs, which the host's loop
  (`js_std_loop`) executes until there is none, and of a handler coming to its end.
  Nothing is assumed of the program's calls.
* `AsyncGenerator!Spec`: weak fairness of the interpreter's own steps, of the body,
  and of the jobs of the promises it awaits: the property that fails asks only for
  answers of a generator whose body ends and whose awaits settle.
* `CaptureLoop`, `RuleExtraction`, `Campaign` and `JmemHeap` are checked for safety only. The
  retry loop of `JmemHeap` is bounded by the four levels of pressure.

Five runs disable the deadlock check, because what they model stops: a heap whose
engine was terminated, a collection that is done, a program that makes no more
calls (`promises`, and both configurations of the async generator).

## Proofs

TLAPS proves, for every value of the constants that satisfies the named
assumptions:

* **`UpdateScheduleProofs`**, for every set of lines and every `MaxChance`:
  `NoStepOver` (`Spec => []ChanceBelowMax`), where the invariant is `ChanceBelowMax`
  and the types of the counters together, and, for every history of any recorded length below the bound
  (`HistoryAssumption`), `UpdatesAlwaysOnTime` (`HistorySpec => []UpdatesOnTime`).
  `CountersTell` says what the counters are a record of: `n_chance` is the size of the
  streak the last batch ends, and `max_n_chance` one more than the number of updates.
* **`GeneratorProofs`**, for every grammar, cost table, rule table, depth
  limit and number of inputs:
  * `TypeCorrect` (`Spec => []TypeOK`) and `TreesBounded`
    (`Spec => []HeightBounded`). The height needs a measure for the second loop.
    The inductive invariant is `IInv == TypeOK /\ NextInv /\ HeightInv`:
    `HeightInv` says that in the second loop the level of an open node plus the
    cost of its cheapest expansion never passes `MaxDepths + CostBound`, for the
    level being visited and for the one being put together, and that a level is
    only begun below the bound; `NextInv` says that nothing of the level being put
    together is expanded, and that there is none between two levels. That pruning
    cannot lengthen a tree is `CandidatesAre`: whatever is pruned, the second loop
    chooses a cheapest expansion.
  * `MatchedExactly` (`Spec => []MatchedExact`). An expansion adds to the tree
    exactly what `NewlyMatched` looks up (`HasNodeExpanded`), because the part of
    the tree that `satisfy_pre_seq` reads does not change when a node is expanded
    (`SkeletonKept`); appending a level adds nothing (`HasNodeAppended`), by
    `NextInv`.
  * `Cornered` (`Spec => CompletesOnlyWhenCornered`). The expansion that supplies
    the one missing member of a rule was pruned (`MissingIsPruned`, from
    `WellFormed`: every member of a rule is listed under its last symbol with its
    derivation number), and a pruned expansion is chosen only where all are.
  * `ExtractedFound` (`Spec => []SequencesFound`). The two readers of a tree meet in
    the line of nodes above a token. That every node has one is `TracedInv`: the
    parent that a node names is an expanded node of the level above, an expanded node
    has a derivation number, and nothing is left open above the last level. `dt_to_sequences` takes this line without repeated blocks
    (`RefinedPathPart`: dropping blocks leaves a part of the line with the same last
    symbol); `satisfy_pre_seq` goes up the same line (`UpFromIs`) and takes each
    symbol of the path where it first meets it, which finds every part of the line
    that ends where it does (`EmbedsPart`: what the greedy search has left is never
    more than what any other choice of places has left).
  * The assumptions are `SymbolAssumption`, `GrammarAssumption` (every nonterminal
    has an expansion), `CostAssumption` (what `calculate_depths` establishes),
    `TableAssumption` (tables are `WellFormed`) and `BoundAssumption`. TLC evaluates
    all of them for the constants of the runs, and two are consequences of how the
    constants are made:
  * `CostTableFits` discharges `CostAssumption` for the tables of `calculate_depths`:
    for every grammar and every order of its keys, if the loop has ended after `n`
    passes, its cost table satisfies `CostAssumption`. What makes this more than the
    definition is `minimum_cut`: a token gets its depth as soon as one of its costs
    equals it, while other costs of the token are unknown, and other costs are made of
    that depth at once. The invariant of the loops (`DepthsInv`) is that no known cost
    of a token without depth is below `minimum_cut`, that an unknown cost is held up by
    a token with no depth or a depth above `minimum_cut`, so that it can only turn out
    larger, and that a depth is one more than the least cost of its token. A visit
    keeps it (`TokenVisitKeeps`); `minimum_cut` rises only after a pass that changed
    nothing, which is what equal results of `count_none` mean (`SameCountNone`), and
    then no token without depth has a cost equal to it (`Stuck`, `PassKeeps`). The one
    hypothesis about costs is `CostBound < 999`: 999 stands for an expansion into its own
    token, and a token whose cheapest way costs that much could be given such an
    expansion. The hypotheses hold of the grammar of the run (`CostMapAssumption`). That
    the loop ends is not proved: it does not for a grammar with an unproductive
    nonterminal.
  * `TableFaithful` discharges `TableAssumption` for the tables the capture phase
    makes: for every list of rules that are finite and not empty, over any symbols
    and derivation numbers, `MakeTable` is `WellFormed`, and `RulesOf` gives back
    exactly the rules of the list. The library folds a sequence by a recursive
    function on the sets of its positions; `FoldExists` shows that the function
    exists and `FoldKeeps` that what one step keeps the fold keeps, both by a minimal
    set of positions where it could fail. One iteration is `AddRuleIs`: numbering the
    members leaves ids dense and changes none that is given (`NumberedAll`), listing
    adds the one new entry under the last symbol of each member (`ListedAll`), and what
    was decoded before is decoded alike after (`DecodeStays`).
  * `RulesReadBackAlways` (`UpdateSpec => []RulesReadBack`) and `NoRuleVanishes`
    (`UpdateSpec => []RulesLeaveTrace`), for every grammar (`RuleDictAssumption`) and
    all finite clusters of what can be read off its trees (`AnalysedAssumption`). The
    invariant `UpdateInv` adds that every captured rule is a finite, nonempty set of
    derivable sub-sequences, which removal (`RemovedAre`) and merging
    (`MergeRulesAre`) keep, so that `TableOfRules` applies to what comes out. For the
    trace, each removed rule is traced to the rule it was removed for, which ends like
    it (`RemovedAre`: the list is scanned from its end, and what is gone was gone for a
    rule that is still there), and each merged one to the parent of its entry, whose
    expansion puts the entry's last symbol into the tree (`ParentsAre`). The exception,
    `PartlyMerged`, speaks of all captured rules while `merge_rules` sees only what
    removal left; `MergingOfMore` shows that whatever is merged of the fewer would be
    merged of all.
  * `CapturedRulesOccur` (`UpdateSpec => []CapturedOccur`) and `TableRulesOccur`
    (`UpdateSpec => []TableOccurs`), under the same assumptions. `OriginInv` says that
    each captured rule is taken from one shortened list of its cluster, though it is
    put together from a ranking over all of them. That is `FoundInList`: what
    `simplify_subpaths` leaves of the ranking is sorted by length (`OrdersAre`), has one
    sub-sequence for each and none that compares with an earlier one (`RemainingAre`);
    `compare_subpaths` finds every part (`PartCompares`: what its scan has reached is
    never past where the part lies, although it goes backwards), and without confusion
    only parts. So a captured sub-sequence that compares with one of a list is that
    one: each is a part of the other. A rule that merging makes
    stands for those it replaced: the entries that `merge_rules` puts together are all
    expansions of one symbol (`EveryExpansion`), each rule they come from occurs, and
    so does the part of it that is left with the new member taken out (`FewerOccur`,
    `MergedStands`). More cannot be said: the new member is an expansion of the parent
    that no input need have.
  * For the k-path generator, also for every set of k-paths and prefixes
    (`PathAssumption`): `TreesFollowTargets` (`TribbleSpec => []GuidedTrees`),
    `GuidedTreesBounded` (`TribbleSpec => []GuidedHeightBounded`) and
    `CorneredOffTarget` (`TribbleSpec => OffTargetWhenCornered`). `TribbleInv` adds to
    the tree's invariant that some list of positions spells the target down to the
    slot (`SlotInv`), that the slot handed down, an offset into a level still being
    built, is the child of the present one with the next symbol of the target
    (`NextSlotInv`), and that off the target every open node can be closed at its
    cheapest within the bound (`GuidedHeightInv`). `RootPathIs` says what following
    parent pointers to the root gives: `RootPath` is a recursive function, and the
    induction is on the lowest level where it could differ. The lemmas about a tree
    being built (`ExpandedBuilding`, `AppendedBuilding`, `ExpandedMatched`,
    `AppendedMatched`) serve both generators.
* **`AsyncGeneratorProofs`**, for any number of requests and awaits:
  `ContinuationsMatch` (`Spec => []ContinuationMatchesState`), `FrameFreed`
  (`Spec => []FrameFreedOnce`) and `Accounted` (`Spec => []RequestsAccounted`).
  None of them is inductive. `Resumable` adds what each place of the interpreter may
  assume of the outstanding reaction: suspended inside the body, or for the value
  of a `return()`, there is one (or it could not be set up); and the loop meets an
  executing body only after it has run. With the types this is `StateInv`.
  `EndsAreFinal` adds that an end or an error was answered only by a generator that
  stays completed, which makes the order of the answers inductive (`AnswerOrder`).
  No assumption on the constants is used.
* **`CampaignProofs`**, for any number of iterations and any content of the files
  (`ContentAssumption`): `RulesCurrent` (`Spec => []RulesNearlyCurrent`) and
  `FilesInAgreement` (`Spec => []FilesAgree`) and `LateCrashHarmless`
  (`Spec => []LateCrashLosesNothing`). The inductive invariant says, per
  program counter, which file is torn or behind and by how much, for the capture
  phase (`TableFileInv`), for what the test phase has loaded (`LoadedInv`), and for
  the log, which is written before the file it describes (`LoggedInv`), for the
  capture phase's own log and file (`CaptureFilesInv`), and for what a test phase
  without coverage has saved (`NothingSavedInv`).
* **`CaptureLoopProofs`**, for every set of inputs, sequence lists, coverage,
  timeouts and crashes, every batch size and every `MaxIter`
  (`CaptureAssumption`): all five properties of the run `capture`.
  * `RecordsInAgreement` (`Spec => []RecordsAgree`). `Dictionaries`,
    `ClusterCounts`, `Captures` and `CoverageRecords` are the parts of the
    invariant, one for each group of variables. That nothing is counted twice or
    dropped is `Counted`, an equality between a sum over all clusters and
    `max_n_chance * number_individuals`, which needs the facts about sums at the
    head of the module: an input adds one to one count of one cluster (`CountAdds`,
    `NewCounts`), and no other step changes what the streaks say should have been
    counted (`AnalysedStays`).
  * `RulesUpToDate` (`Spec => []RulesFresh`). It is not inductive, as it says
    nothing of the time between the head of the loop and the end of an update;
    `Fresh` adds that in between only clusters in `updated_covs` may be ahead of
    their rules, in the versions with selection; of the others it says that every
    cluster was captured, once.
  * `LargestSelected` (`Spec => SelectsLargest`). A ranking lists the uncaptured
    clusters without repetition, so it lists all of them (`RankingIs`), and it is cut
    between its first and its last (`CutIs`).
  * `CrashFilesSaved` (`Spec => CrashesSaved`): the last input of a name is the one
    whose files stay (`LastOfName`).
  * `ImplementsSchedule` (`Spec => FollowsSchedule`): the refinement, step by step;
    `Progress` bounds `max_n_chance` by `info_num`.
* **`MarkSweepProofs`**, for every heap, list order, order of marking and recursion
  limit (`MarkSweepAssumption`): `KeepsAlive` (`Spec => []KeepsExactlyAlive`),
  `WeakLinks` (`Spec => []WeakLinksAgree`) and `CountsBack`
  (`Spec => []CountsRestored`, the part of `CollectionEnds` about counts). The
  invariant is the tri-colour one: whatever is visited is alive (`Colours`); whatever
  a visited object refers to is visited, unless the object is pending or the
  reference is left to an activation (`TracedStrong`); an entry of a weak map is
  followed once its holder and its key are both visited, by whichever is marked
  later (`TracedWeak`); a pass that has marked nothing has gone by no visited
  object that is still on the white list (`Passed`). `Swept` and `HoldersKnown` are about the sweep.
* **`PromisesProofs`**, for any number of promises, reactions and jobs
  (`PromisesAssumption`): `OneHand` (`Spec => []OneResolver`), `TrackerExact`
  (`Spec => []RejectionsTracked`), `ReactionOrder` (`Spec => []ReactionsInOrder`) and
  `OutcomeAdopted` (`Spec => []AdoptsOutcome`). The invariants are carried over the
  operators of the model (`Settle`, `CallResolve`, `CallReject`, `PerformThen`) by one
  lemma each, and the actions compose them.
* **`JmemHeapProofs`**, for every size of the area, alignment, limit and set of
  requests (`HeapAssumption`): all four properties of the run `jmem`.
  * `HeapInvariant` (`Spec => []JmemInv`). None of the four properties is inductive:
    they say nothing of what the next walk through the words of the heap will meet.
    `JmemInv` is `Sound /\ Requested /\ Accounts`. `Sound` relates two views of the
    area: the list kept in its words (`FreeList`: every header is on the list, its
    successor is the next header, and a gap is left between the two) and the blocks
    (`Placed`), which take up exactly the bytes the list does not (`Layout`), with the pool and
    the garbage among them and the contents of all others in place. `Requested` says
    what each step of a request may assume after a collection ran in it: the block
    that grows is still there, and after the collection under high pressure there is
    neither garbage nor a free chunk. `Accounts` are the counters.
  * The argument goes in three layers. The first is about the list alone:
    `FindPrevIs` and `FirstFitIs` say what the two walks find, by the least distance
    at which they could go wrong, and `TakeFrontKeeps` and `InsertBlockKeeps` what a
    split and a merge do to the bytes of the list. The second is about the area and
    its blocks: one `Sound...` lemma for each thing the code does with a block
    (`SoundFree`, `SoundNew`, `SoundReuse`, `SoundShrunk`, `SoundExtended`,
    `SoundFront`, `SoundMoved`), where `SoundFront` includes the copy of a block
    onto memory it overlaps. The third has one lemma per action.
  * `Partitioned` (`Spec => []HeapPartitioned`), `ContentsStay`
    (`Spec => []ContentsKept`), `SizesAgree` (`Spec => []SizeAccounts`) and
    `FailsWhenFull` (`Spec => []FailsOnlyWhenFull`) follow from it. The last one: a run
    of free words lies in one region, as no two touch, and `FirstFit` would have
    found that region.

Induction is replaced by minimal counterexamples, since the induction theorems of the
library take an operator as a parameter: `LeastNat` (a nonempty set of numbers has a
least element) is proved from well-foundedness where it is needed, and the sum of a
function over a finite set, in `CaptureLoopProofs`, by minimal sets: it does not
depend on the order in which `SumFunctionOnSet` adds up (`SumRemove`).

The inductive invariants of `CaptureLoop`, `MarkSweep` and `JmemHeap` were also checked by TLC on
the instances of their runs.

## What is only model-checked, and what is not modelled

Liveness (`AllInputsWritten`, `UpdatesRecur`, `GeneratorEnds`,
`CollectionEnds`, `JobsServed`) is out of the prover's reach. `DerivesGrammar` stays
with TLC because the yields of `MCDerives` are recursive operators. `SubSequences`,
`MakeTable` and `Depths` are written with folds, which the proofs follow by a set of
positions (`FoldKeeps`, `FoldRuns`).

Not modelled:

* parsing of grammars, coverage reports and exception logs (pure I/O and text);
  the choice of labels by mean-shift clustering (a library);
* `get_dir_coverage_javaprog_2`'s limits per exception, where
  `generateRS.py:298` never counts what it compares; process control of the Java
  analysers;
* the file names of the test phase, whose numbers restart at 0 and overwrite those
  of the capture phase (`runFuzzer.py:201`);
* termination of `calculate_depths` for a grammar with an unproductive
  nonterminal, for which its loop never ends;
* `runRatio.py` (a single pass) and `errorCheck.py`, which reads a variable it never
  sets;
* of the interpreters, the parsers, bytecode compilers and interpreters, the
  libraries of numbers, text and regular expressions, the built-in objects, and
  QuickJS's reference counting and cycle collector: their correctness is that of a
  language definition rather than of a protocol, and RSFuzz sees of it only a
  coverage set and an outcome. These are most of the lines under `src`, so the share
  of the C code the modules stand for is small: they are the memory management and
  the scheduling, where orders of steps matter;
* of what is modelled there, WeakRef objects, byte code and native pointers
  (`MarkSweep`), the build with the system's allocator (`JmemHeap`), the combinators
  of `Promise` and `yield*` over foreign iterators.

## Plan

Every safety property of the runs is proved, except `DerivesGrammar`, which stays
with TLC, and the assumptions of the generator's proofs about its tables are discharged
(`TableFaithful`, `CostTableFits`). What is left is liveness, and how many passes
`calculate_depths` needs for a productive grammar.
