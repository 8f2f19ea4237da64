# A verification project for downscaling-optimization

The program helps players of Elden Ring scale a character down to a lower level.
It precomputes, for every weapon, the allocation of five damage stats that does
most damage at each budget of points; makes training data from an archive of
characters; and, with the model trained on them, recommends builds for a level.
This directory holds TLA+ modules that model it, the TLC runs that check them,
and proofs that TLAPS checks.

    tlc -config MCSearch.cfg MCBranchBound      # one of the runs listed below
    tlapm BranchBoundProofs.tla                 # one of the proof modules

## 1. The system

| part | code (src/main) | state | operations | modules |
|---|---|---|---|---|
| branch and bound search | bnb.h | global `best`, `best_vector`, `queue`, `mut`, `total_stats` | `branch_bound`, `thread` x 4, `Region` | BranchBound, BudgetSweep |
| weapon damage | Weapon.cpp | none after construction | `calcAR`, `calculateDefenseReduction`, `calculateDamage`, `calculateSpellDamage` | WeaponDamage |
| precomputation pipeline | main.cpp | loop over weapons | `fullPipeline`, `pinco`, `montage`, `computeAllWeapons` | ScalingStore |
| store of results | db.h | one file per weapon, across runs | `isCompleted`, `saveScaling`, `loadScale` | ScalingStore |
| starting classes | character.h, loadCharacter.cpp | map `starting_classes` | `project`, `rescaleClasses` | StartingClasses |
| effective health cache | loadCharacter.cpp | two shared maps of vectors | `bestEffectiveHP` | NegationCache |
| training pipeline | loadCharacter.cpp | output file, mutex, 8 threads | `writeTrainingData`, `threadFunction`, `appendBuild` | TrainingPipeline |
| grid, effective health, rows | loadCharacter.cpp | per call caches | `gridGenerator`, `effectiveHealth`, `createBuilds`, `exponentialDecay` | Predict |
| recommendation | loadCharacter.cpp | priority queue | `rankBuilds`, `Predict::operator()` | Predict |
| damage stat allocation | loadCharacter.cpp | none | `damageStatAllocation`, end of `Predict::operator()` | DamageStats |
| CSV reader | csv.hpp | queue of rows with its flag, parser, worker thread | `parse`, `read_csv`, `begin`, `read_row`, `_guess_format` | CsvParser, CsvReader, RowStream |
| table access | DataParser.cpp | read-only tables | `defGenerator` (two), `loadSpellMVData`; lookups | TableLoader; otherwise constants |
| character | character.cpp | read-only after construction | constructor | as constants |
| singular value decomposition | svd.h | none | `svd` | not modelled |
| scripts | Python/*.py | files | training, table generation, sorting the archive | not modelled |

How they interact:

    csv-conversions --> CSVReader --2 threads--> defGenerator, loadSpellMVData --> tables of everything below

    archive of characters --> writeTrainingData --8 threads--> training rows --> (train.py) --> model
                               |  rescaleClasses first            ^                             |
                               |  bestEffectiveHP (shared cache)  | exponentialDecay            v
    weapon tables --> fullPipeline --> branch_bound --4 threads   |                    Predict / rankBuilds
                         |  isCompleted / saveScaling             |                       |  createBuilds (same grid,
                         v                                        +---- effectiveHealth --+  same effectiveHealth)
                      Database files -------------------------------------------------> damageStatAllocation

The search, the training pipeline and the CSV reader have threads that share memory; the
pipeline shares files with its own earlier, perhaps killed, runs; the training
rows and the recommendations share the grid and the effective health search,
once per call. `main()` currently runs the training part; the other entry points
are commented in and out by hand, which is why no order between them is assumed.

What is hard to get right, and where: worker threads that leave when the queue is
empty for a moment (bnb.h:123); a bound compared with a `best` read without the
lock (159); cut points of doubles truncated to integers (182); a warm start that
replaces two globals together (230); a file left by a killed process (db.h:40);
a cache whose key leaves out the level (loadCharacter.cpp:312), filled by threads
that look up, compute and store without holding a lock across (327); a loop that
gives out points lost by truncation (762); a heap with ties (900); a search whose
results are cached by points (1018); labels that must count differences in one
direction (617); a queue whose emptiness, flag and end are read without its lock
(csv.hpp:7601); records that lie across the end of a chunk (7201). PROJECT.json lists them all under "hazards", each with the
properties that watch it or the reason there is none.

## 2. Modules

Each component has a module parameterised by constants with named assumptions, an
MC module with small values for them, and, where there are theorems, a proof
module that EXTENDS the component. Names are the source's. An operator commented
as "Mutant" is a plausible bug and not part of the model; putting it in place of
the operator after it makes TLC find the property PROJECT.json names violated.

**BudgetSweep** is what the search promises: for each budget in turn, one answer
that no allocation of the budget beats, and then it returns.
**BranchBound** is the code. `total_stats`, `best`, `best_vector` and `queue` are
the globals of bnb.h; `pc`, `region`, `point`, `seen` are a thread's position and
locals. The actions are the sections between accesses to shared state: `Pop` and
`Exit` (127-130, 122-126, under the lock), `Discard`, `Leaf`, `Prune` and `Keep`
(131-175, with the read of `best` outside the lock: `seen` is the value it had
while the lock was last held, and the read may return anything from there to the
current one), `Sample` and `Split` (175-208), and the main thread's `Seed`,
`Collect`, `Finish`. `Evaluate` is any monotone function; that real weapons are
monotone is the theorem of WeaponDamage. Cut points are exact fractions, which
floating point may turn into the integer below when they are integers.

**WeaponDamage** is Weapon.cpp in exact arithmetic: attack ratings count in parts
of `Unit`, and the five pieces of the defense formula have the common denominator
`Parts`. A step spends one point in one stat.

**ScalingStore** combines main.cpp and db.h. `disk` survives; `Kill` ends the
process at any step, and the next call of the program begins afresh. A row is
written whole because `std::endl` flushes it. Opening and writing always succeed: a
file that silently does not open, or a full disk, is outside the model (db.h:40-46
checks neither), and AllSaved says nothing of it.

**NegationCache** models `bestEffectiveHP`: threads `Enter`, look one split up
after the other (under the mutex each), and store at the end. A negation is
represented by the endurance it was optimised for, so a stale one can be told.
`writeTrainingData` warms the cache for one level before the threads start.

**TrainingPipeline** models the eight threads, their chunks, the rows each build
contributes, the mutex and the file. An exception outside the `try` ends the
whole process.

**DamageStats** models the sharing of points among five stats, in
`damageStatAllocation` and in its copy in `Predict::operator()`: trimming, the
truncated shares, the loop that rounds up. The direction the decomposition yields
is any nonzero vector.

**StartingClasses** are the operators of `rescaleClasses`: `Rescalings(c)` is the
set of outcomes the rounding of the doubles can produce. **Predict** extends it
and models three callers over one grid: `rankBuilds`, `Predict` and
`exponentialDecay`. `Rescale` may be repeated, as several entry points do it;
`LookUp`, `TrySplit`, `Remember` are `effectiveHealth` behind its cache, `Emit`
adds the builds of a grid point (for training rows only those with a score above
0.3), `Rate` lets the model rate builds by any function, `Offer` and `Recommend`
are the two loops over the heap. Ratios stand undivided.

**RowStream** is what a CSVReader promises the loop over it: the records behind the
header, in order, each once, those of another width than the header left out. It
promises what the code keeps, which is less than its comments say: the first row
comes whatever its width (`begin()` does not look), and where a file is as large as
a chunk, or nothing but a header without a line end, the last record may come once
more (`begin()` and a late worker parse what `end_feed()` has delivered already).
A large file may also end early: the loop may see `eof` before the last record,
which is pushed after it.
**CsvFile** says what a text means, independently of any parser: `Written` is what the
text writes, a character at a time, where a character outside quotes is one with an
even number of quotes before it, and `Records` are its fields without their quotes.
`WellFormed` says when a text quotes properly, `Regular` when its delimiter can be
guessed from it. **CsvParser** is the code's: `Round` is one round of the loop in
`parse()`, `EndFeed` is `end_feed()`. **CsvReader** is both threads. The worker's
actions are `read_csv()`: `Announce` (notify_all), `Map` or `Crash` (a map of no
bytes), `ParseOn` (one round, which may push one row under the lock), `ChunkEnds`
or `FileEnds` (eof, set before the last row is pushed), `Feed`, `TrimHeader`,
`Kill` (kill_all). The loop's are `begin()` (`Begin`, `BeginReads`, `BeginJoined`)
and `read_row()`, with one action for each unlocked read: `SeesNone`,
`SeesWaitable`/`SeesIdle`, `SeesEof`/`SeesMore`, then `Wait`, `Restart`; `Destroy`
is the destructor. Unlocked reads are interleaved one by one, which is stronger
than C++ promises for a race.
**TableLoader** composes a reader with the three loops of DataParser.cpp: `table`
grows in the step that hands a row out. Columns stand by position.

## 3. Runs

| run | instance | properties | what it shows |
|---|---|---|---|
| bb_search | 3 threads (symmetric), 3 free stats, cap 2, budgets 5, 7, 9 | TypeOK, Covered, Disjoint, Exact, BestRises | no allocation better than `best` is ever outside queue and threads' hands, none is searched twice, and what the joins leave is optimal |
| bb_sweep | 2 threads, 4 free stats, budgets 5 and 10, weak fairness | BestBacked, SweepSpec, Termination | `best` is the damage of `best_vector` across the warm start; the search implements BudgetSweep; branch_bound returns |
| weapon | 2 weapons over all five pieces, stats 0..4 of curves up to 3 | TypeOK, NeverLowers | a point never lowers weapon or spell damage |
| store | 2 weapons, tables of 3 rows, the three callers, kills anywhere | TypeOK, LengthTells, AllSaved, FinishedStays | line counts tell finished files from killed ones, a run that ends leaves every weapon saved, a finished file never goes away |
| cache | main and 2 threads, 2 keys, levels below, at and above the warm one | TypeOK, Provenance, Pinned, Reproducible | what the cached vectors hold and that results do not depend on the order of threads once they are warm |
| cache_levels | level above the warm one | OwnCombinations (violated) | finding 1 |
| training | 3 threads, up to 4 files of every kind, weak fairness | TypeOK, Blocks, Complete, Ends | rows of a build are whole and together, all builds are there unless one ends the program, and it ends |
| damage | directions over four magnitudes, 0-8, 30, 31, 55 points, both callers | TypeOK, SumExact, Quota, LargestFirst | both give out exactly the points; in `damageStatAllocation` no stat is a point off its share and larger fractions come first |
| damage_row | the same | MostPoints (violated) | finding 2 |
| predict | 7 requests, 3 callers, 3 characters, 2 classes, every two-valued rating | TypeOK, BestAtEach, SpendsLevel, NumBuildsBest, RowsMonotone, ClassesLevel, ClassesSettle | the grid misses no best build, recommendations spend the level and are the best rated, training labels never punish more, rescaling settles |
| tables | every properly quoted file of 1-5 characters, 11 longer ones of one and several chunks, 3 loaders, weak fairness | TypeOK, Awake, Alone, TableWhole, StreamSpec, Ends | the reader implements RowStream under every interleaving, loses no wakeup, and the tables hold their files |
| tables_spells | a file of two spells | EverySpell (violated) | finding 3 |

The properties in words:

- *Covered*: an allocation that spends the budget and beats `best` lies in a
  region in the queue or in a thread's hands. *Disjoint*: no two of these share an
  allocation of the budget still to be searched. *Exact*: when all threads have returned nothing of the budget beats `best`. *BestBacked*: `best` is the
  damage of `best_vector`, which the budget affords; it may underspend (the
  results in Database have such rows), so no property claims equality.
- *LengthTells*: a file with 24 lines holds the whole table. *FinishedStays*: no
  step removes or changes one. *AllSaved*: a run that ends has them all.
- *Provenance*, *Pinned*: a cached vector is the one some call computed, and in
  warm entries always the warm level's; *Reproducible*: at that level results
  depend on no interleaving.
- *Blocks*, *Complete*: see the table. A program
  that dies may leave a build's rows incomplete at the end of the file; *Blocks* then
  still has them in order and unmixed.
- *SumExact* is about both sharers of points. *Quota*, *LargestFirst*: largest
  remainder rounding, with shares of whole points that doubles put just below; they
  are about `damageStatAllocation` only. Of Predict's copy neither is claimed, and
  the quota is false (section 5).
- *BestAtEach*: for every grid point and poise breakpoint that some split reaches
  there is a build no such split beats. *SpendsLevel*: reading stats back from the
  ratios the model saw, no recommendation exceeds the level, and it falls short
  only where a stat is at its end. *NumBuildsBest*: the heap.
  *RowsMonotone*: what has at least as much of everything as a row is a row with
  no lower score. *ClassesLevel*, *ClassesSettle*: a rescaled class has
  STARTING_CLASS_STAT_POINTS points, keeps the order of its stats, and rescaling
  it again changes nothing, whatever the doubles' rounding.

- *StreamSpec*: the refinement of RowStream, `delivered` and the reader's end mapped
  to its variables. *Awake*: a sleeping loop has a worker still to wake it. *Alone*:
  a file of one chunk, as all shipped tables are, never has both threads running.
  *TableWhole*: each ID has the first row that names it, each number the row at that
  place. *Ends*: every loop ends, or the program does (a map of no bytes throws).

### Bounds, and why they are enough

- *Search*: three threads are the first number at which one exits, one holds a
  region and one reads a stale `best`; the fourth adds no kind of step. With cap 2
  a side can be cut off-centre and again; budgets 5, 7, 9 contain a first search
  without a guess and two with one; the damage has plateaus, a jump and a dead
  zone, where pruning by `<=` matters. At budget 10 of bb_sweep the root's upper
  corner spends the budget, so the region that is its own child occurs.
- *Store*: two weapons are enough for one finished, one half written; three rows
  are none, some, all.
- *Cache*: two working threads for a lost update; base endurances at which the
  stat clamps at either end;
  levels below, at and (two) above the warm one, so that
  a longer vector may be replaced by a shorter one.
- *Training*: chunk division with fewer files than threads, as many, and a
  remainder.
- *Damage*: points where shares are whole, just below whole, and where trimming
  drops stats; rows below, in and above the file.
- *Predict*: strides that divide the level and not; heap sizes of one, some and
  more than there are builds; tables with plateaus of armor and ties in health, so
  that a split is best at two breakpoints.

- *Tables*: five characters hold a quoted, an empty and a doubled quote's field, a
  record of two fields and two records; a chunk of 12, pages of 4 and a wake-up at 2
  rows put chunk ends inside quotes and fields, file ends on pages, and the loop to
  sleep both for rows and for the chunk's end. Shipped files fit one chunk.

No module has an artificial cap on a counter except `Most` in WeaponDamage, which
stops spending beyond the end of the curves, and `MaxStats`, which the code has.

### Fairness

Weak fairness of each thread and of the main thread (BranchBound,
TrainingPipeline, CsvReader): the operating system runs
runnable threads. That is enough: nothing waits for a lock another thread may hold
forever, as no critical section blocks, a loop
asleep on the queue's condition variable is not runnable (`Wait` is disabled), so that
Ends needs the wakeup itself, and the searches' progress does not rest on
who gets the lock next. The other modules state no liveness.
CHECK_DEADLOCK is off where the program returns.

## 4. Proofs

The proof modules hold for every number of threads, stats' cap, table, level and
weapon that the named assumptions admit.

- **BranchBoundProofs**: TypeCorrect, NothingLost (Covered), DisjointAlways,
  BestBackedAlways, Drained, Exactness, BestOnlyRises, and Implements, the safety part of the
  refinement of BudgetSweep. The inductive invariant adds to Covered what each
  thread position knows: the region it holds, that its cut point lies in it, that
  `seen` is at most `best`, that a guess fits the budget. The geometry (children
  cover the parent's allocations and do not overlap) is a chain of lemmas
  over one coordinate. Needs EvaluateAssumption (monotone) and
  WarmStartAssumption.
- **CsvReaderProofs**: TypeCorrect, AwakeAlways and AloneAlways, for any file,
  chunk, page and number of rows to wake at; AllHandedAlways, TableFilledAlways,
  TableWholeAlways and ImplementsStream, for any file of one chunk; ParsesRecords and
  FormatKnown, about texts. `Typed` adds to the types where the parser may stand in
  its chunk (`Parsing`): the field in hand lies between the record's start and the
  position, and only the end of the chunk finds it inside quotes without a field.
  `Signalled` ties the flag to where the worker is and says the header is trimmed
  before the loop can sleep (a queue that shrinks under a sleeper would break it);
  `Single` says that the only worker of a one-chunk file leaves eof behind. `Reading`
  follows the rows: while the constructor waits, the queue and the worker's parser
  together are (`Alike`) a state of `Parse` on the whole file, which stops after as
  many rounds as there are characters because every round that changes anything
  moves on (`RoundMoves`); afterwards the rows delivered are the selection from what
  has left the queue. `Tabled` says that the table holds what was delivered.

  *ParsesRecords*: of every text that quotes properly the parser finds the records of
  CsvFile. The invariant of `Round` (`Fits`) has two parts. `Common`: at the
  position where the parser stands, what is written is the completed records, the
  completed fields and the text from the field's start on; `rows` and `current_row`
  hold the first two without their quotes. `Phase`: the parser is between fields, in
  a bare field, in a quoted one, behind a quote that opens at the very end, or behind
  a closing quote, and in each the flags, the measured length and the parity of the
  quotes agree. One lemma per kind of character and phase shows that the round keeps
  it, though a round may take a whole run of characters. The last round may stop in
  front of a quote it cannot tell the meaning of; `EndFeed` finds the right text
  there too.

  *FormatKnown*: whether the delimiter is named or guessed, the format is the first
  delimiter and the first row. The guess sees the head of the file only, which may
  end inside a record or inside quotes. Records only grow with the text (`Growth`),
  so that all of the head but its last are as wide as the file's, and the last is no
  wider; with the wrong delimiter all rows have one field and there are no more of
  them (`MergedRows`), so that no other score is higher, and the first delimiter wins
  a tie.

  *TableWhole* follows from TableFilled, because the rows of the stream are those that
  are `Kept`. For *ImplementsStream* one invariant is missing: `Rereading` says what
  `begin()`'s second worker can find in a file without a row to hand out. `RestIs`:
  the first worker leaves `mmap_pos` at the end of the file, or at its beginning if
  the file has no line end at its end, and the flag for doubled quotes is down; so
  the second finds nothing or the one record again. Each step then is `Deliver`,
  `Again`, `Finish` or a stutter.
- **WeaponDamageProofs**: TypeCorrect, NeverLowersAlways, DefenseBoundsAlways,
  SpellAgreesAlways. No invariant beyond the types is needed; curves, attack
  rating, pieces, sum and division are monotone one after the other, and the
  pieces meet where they join. It discharges, for tables that fulfil
  WeaponAssumption, what BranchBound assumes of Evaluate. The arithmetic is exact;
  doubles may differ in the last bit before truncation.
- **ScalingStoreProofs**: TypeCorrect, LengthTellsAlways, AllSavedAlways, FinishedStaysAlways.
  The invariant relates the file being written to how far the table in hand has
  got, and says which weapons of a call are behind it.
- **NegationCacheProofs**: TypeCorrect, ProvenanceAlways, PinnedAlways, SparedAlways,
  ReproducibleAlways. The invariant traces every vector, stored or in a thread's
  hands, to the calls that computed it, and keeps warm vectors a prefix.
- **TrainingPipelineProofs**: TypeCorrect, BlocksAlways, CompleteAlways. The
  invariant says which rows a thread behind position `at` must have written, and
  that only the holder of the mutex has a partial block at the end of the file.
- **DamageStatsProofs**: TypeCorrect, SumExactAlways, QuotaAlways,
  LargestFirstAlways, the last two for `damageStatAllocation`. The five lags add up
  to what is left to give out, in units of the direction's total.

- **PredictProofs**: TypeCorrect, NumBuildsBestAlways, BestAtEachAlways,
  SpendsLevelAlways, RowsMonotoneAlways, ClassesLevelAlways, ClassesSettleAlways.
  Five invariants, each the least that its theorem needs. `Ranking`: the builds in
  the heap and those printed are the best of all that were offered, and what is
  printed comes from the bottom. `Classed`: the class at hand is one of the archive
  or one of its rescalings, which are `Leveled` and rescaled to themselves. `Walk`:
  `bestBreakPoints` holds the best of the splits tried so far, the cache the best of
  all splits of its number of points, and every point of the grid behind the present
  one has its builds; so a cached answer serves any later point, the early break
  loses nothing because breakpoints rise, and the trimming keeps no gap because a
  split that reaches a breakpoint reaches all lower ones. `fpToMind` inverts the
  table because focus points rise strictly. `Rowed`: the rows behind the first are
  the offers of the points of the grid so far that are labelled at all. `Typed`
  adds the ranges. Sums over a class (how much a rescaling gives and takes, that a
  point taken back is there to take) and the row filter are recursive functions:
  the library's induction theorems take an operator and cannot be instantiated here,
  so their lemmas go by induction over a set of numbers or of subsets (`Induction`,
  `SubsetInduction`): the set of those for which the claim holds.

Assumptions on constants are read from the shipped data: no curve of
CalcCorrectGraphEZPreCalc.csv falls, focus points rise strictly with mind, poise
breakpoints rise from 0, no class is projected below 1.

Assumed of the reader: a quote, a newline and the delimiters are different characters
(CharsAssumption; CSVFormat throws on an overlap, csv.hpp:7302); files are not empty and
quote properly (FilesAssumption; so do all tables under csv-conversions); sizes are
positive; ChunksAssumption for files of several chunks (shipped files are of one); and
DelimsAssumption, that there is a delimiter to guess or to name. A guess is modelled
for tables that are `Regular`, as those loaders leave to it which number their rows;
spellAttackData.csv is guessed too, but has semicolons in its texts, and the model takes
the comma for it.

Only model-checked: all liveness (Termination, Ends, the liveness part of
SweepSpec), and the refinement of RowStream for files of several chunks: there the rows
come from one parse per chunk while the loop takes them, and a proof would have to join
the parses where chunks meet. No file of the program is that large.

## 5. Findings

1. *OwnCombinations* (loadCharacter.cpp:312). The cached negations of another
   level are used although the comment promises each combination its own.
2. *MostPoints* (loadCharacter.cpp:667). Two divisions by 5 select the optimum for
   a fifth of the points, or row -1.
3. *EverySpell* (DataParser.cpp:478). The loop skips its first row as the header,
   which the reader has taken off: Glintstone Pebble has no motion values.

Seen while modelling, without a run of their own: the factor by which Predict
stretches a row is a quotient of two ints (loadCharacter.cpp:1184), so that no share
has a fraction and strength gets every point left over, against the comment at 1188
("take proportions and figure out how much real stat points each one is"): 55 points on the
row 0 2 8 0 0 become 5 10 40 0 0, and the efficiency printed compares with those stats
as the optimum; with an exact factor the copy would keep the quota; loadScale opens the file without
the ".txt" saveScaling gives it (db.h:14); Predict reports a model that rates an
all damage build among the best as not loaded (loadCharacter.cpp:1150);
csv.hpp:6263 says that all rows are compared to the column names, `begin()` (7645)
does not compare the first; a CSV file of several chunks without a last line end
has its last record twice.

PROJECT.json quotes the lines.

## 6. Not modelled, and why

The implementation lines are mostly headers of ONNX Runtime (20 000 lines of
declarations, of which the program calls four functions) and the parts of the
single header csv.hpp that nothing calls (writer, JSON, statistics, data type
guesses, string_view, mio), so that a complete model of the program still maps a
small share of them. Also left out: the readers of text and JSON files in
DataParser.cpp and the lookups by name, the feature arithmetic of the Character
constructor, the nonlinear optimiser, the decomposition and the neural network
(numerical; each is any function or any result of the right type), the armor
arithmetic of negationsPoise (tabulated), svd.h and computeWeaponUpgradeInterest
(unreachable), printing. In csv.hpp: the byte order mark and trimming of white
space, which no table needs. Data races on function statics and on maps that are
warmed before the threads start are outside the models.

## 7. Plan

Done, in this order: BranchBound with BudgetSweep, ScalingStore, NegationCache,
TrainingPipeline, DamageStats, Predict, WeaponDamage, StartingClasses, CsvReader
with RowStream, TableLoader; a proof module for each but StartingClasses and the
abstract ones (TableLoader's theorem is in CsvReaderProofs).

Left:
1. Weapon's constructor: upgrade levels converted twice (Weapon.cpp:28 and the
   lists of main.cpp), with an abstract store of weapons by name.
2. buildFileProcessor.py: sorting into buckets, rerun and killed.
3. StreamSpec for files of several chunks: ChunksAssumption lets every chunk start at
   a record, so that its parse is that of `ParsesRecords` on the rest of the file.
