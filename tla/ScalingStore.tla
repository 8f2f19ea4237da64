---------------------------- MODULE ScalingStore ----------------------------
(***************************************************************************)
(* The store of computed weapons (db.h) and the pipeline that fills it     *)
(* (fullPipeline in main.cpp, with its callers pinco, montage and          *)
(* computeAllWeapons).  A file holds one row per budget.  The pipeline may *)
(* be killed at any moment and started again: isCompleted() counts lines   *)
(* to tell a finished file from one a killed run left behind.              *)
(*                                                                         *)
(* A row is represented by its budget.  Rows reach the disk one at a time  *)
(* and whole, because saveScaling flushes with every line end.             *)
(***************************************************************************)
EXTENDS Integers, Sequences

CONSTANTS
  Weapons,    \* file keys: weapon id plus infusion
  Calls,      \* the calls of fullPipeline the program makes
  MaxStats,   \* the last budget of every table (120)
  Step,       \* distance between budgets (5)
  Lines,      \* isCompleted's magic number of lines (24)
  Absent      \* no such file

\* A call names its weapons in order, its first budget and its switches.
CallType == [weapons : Seq(Weapons), start_stats : Nat,
             ignore_completed : BOOLEAN, use_cache : BOOLEAN]

ASSUME CallsAssumption == Calls # {} /\ Calls \subseteq CallType

\* 24 lines: the budgets 5, 10, .., 120.
ASSUME LinesAssumption ==
  /\ Step \in Nat \ {0}
  /\ Lines \in Nat \ {0}
  /\ MaxStats = Step * Lines

ASSUME AbsentAssumption == Absent \notin Seq(Nat)

\* saveScaling names its file with an extension, loadScale without one.
Names == Weapons \X {"", ".txt"}

\* start_stats rounded down to a multiple of the step, as the pipeline does.
RoundedStart(call) == (call.start_stats \div Step) * Step

\* Mutant: the loop over budgets runs once more.
TableOvershoots(start) ==
  [n \in 1..((MaxStats - start) \div Step + 2) |-> start + (n - 1) * Step]

\* What branch_bound returns: one row for each budget from start to MaxStats.
Table(start) ==
  [n \in 1..((MaxStats - start) \div Step + 1) |-> start + (n - 1) * Step]

\* The table a finished file holds.
Full == Table(Step)

VARIABLES
  disk,   \* contents of each file name, Absent if there is no such file
  call,   \* the arguments of the current or last call
  pc,     \* where fullPipeline is; "down" without a process
  i,      \* index of the weapon in hand
  opt     \* its table
vars == <<disk, call, pc, i, opt>>

Weapon == call.weapons[i]
Saved(w) == <<w, ".txt">>

\* Files an earlier, possibly killed, run may have left.
Prefixes == {SubSeq(Full, 1, n) : n \in 0..Len(Full)}

Init == /\ disk \in [Names -> {Absent} \cup Prefixes]
        /\ \A w \in Weapons : disk[<<w, "">>] = Absent
        /\ call \in Calls
        /\ pc = "down"
        /\ i = 1
        /\ opt = << >>

\* The program is started and calls fullPipeline.
Launch == /\ pc \in {"down", "returned"}
          /\ call' \in Calls
          /\ pc' = "check"
          /\ i' = 1
          /\ opt' = << >>
          /\ UNCHANGED disk

\* End of one weapon's iteration.
NextWeapon == i' = i + 1 /\ opt' = << >> /\ pc' = "check"

\* Mutant: a file longer than a line or two passes for complete.
LooksCompleteShort(w) == /\ disk[Saved(w)] # Absent
                         /\ Len(disk[Saved(w)]) >= Lines - 1

\* isCompleted() answers true.
LooksComplete(w) == /\ disk[Saved(w)] # Absent
                    /\ Len(disk[Saved(w)]) = Lines

\* isCompleted() says yes: the weapon is skipped.
Skip == /\ pc = "check"
        /\ i <= Len(call.weapons)
        /\ call.ignore_completed
        /\ LooksComplete(Weapon)
        /\ NextWeapon
        /\ UNCHANGED <<disk, call>>

\* Mutant: the broken file is left where it is, and the weapon skipped.
RejectAndSkip == /\ pc = "check"
               /\ i <= Len(call.weapons)
               /\ call.ignore_completed
               /\ ~LooksComplete(Weapon)
               /\ NextWeapon
               /\ UNCHANGED <<disk, call>>

\* isCompleted() says no: a file that is there is removed.
Reject == /\ pc = "check"
          /\ i <= Len(call.weapons)
          /\ call.ignore_completed
          /\ ~LooksComplete(Weapon)
          /\ disk' = [disk EXCEPT ![Saved(Weapon)] = Absent]
          /\ pc' = "load"
          /\ UNCHANGED <<call, i, opt>>

\* Completed files are not asked about.
Take == /\ pc = "check"
        /\ i <= Len(call.weapons)
        /\ ~call.ignore_completed
        /\ pc' = "load"
        /\ UNCHANGED <<disk, call, i, opt>>

\* loadScale(), if the cache is wanted: no file means an empty table.
Load == /\ pc = "load"
        /\ opt' = IF call.use_cache /\ disk[<<Weapon, "">>] # Absent
                  THEN disk[<<Weapon, "">>]
                  ELSE << >>
        /\ pc' = "search"
        /\ UNCHANGED <<disk, call, i>>

\* branch_bound() runs for a weapon whose table is empty.
Search == /\ pc = "search"
          /\ opt' = IF opt = << >> THEN Table(RoundedStart(call)) ELSE opt
          /\ pc' = "save"
          /\ UNCHANGED <<disk, call, i>>

\* Mutant: every table is saved, wherever it starts.
SavesAlways(c) == TRUE

\* Only tables that start at the first budget are saved.
Saves(c) == RoundedStart(c) = Step

\* saveScaling() opens the file and truncates it.
Open == /\ pc = "save"
        /\ Saves(call)
        /\ disk' = [disk EXCEPT ![Saved(Weapon)] = << >>]
        /\ pc' = "write"
        /\ UNCHANGED <<call, i, opt>>

NoSave == /\ pc = "save"
          /\ ~Saves(call)
          /\ NextWeapon
          /\ UNCHANGED <<disk, call>>

\* One row is written and flushed.
WriteRow == /\ pc = "write"
            /\ LET f == disk[Saved(Weapon)]
               IN /\ Len(f) < Len(opt)
                  /\ disk' = [disk EXCEPT ![Saved(Weapon)] =
                                Append(f, opt[Len(f) + 1])]
            /\ UNCHANGED <<call, pc, i, opt>>

\* The last row is written and the file closed.
Close == /\ pc = "write"
         /\ Len(disk[Saved(Weapon)]) = Len(opt)
         /\ NextWeapon
         /\ UNCHANGED <<disk, call>>

Return == /\ pc = "check"
          /\ i > Len(call.weapons)
          /\ pc' = "returned"
          /\ UNCHANGED <<disk, call, i, opt>>

\* The process is killed; what was flushed stays.
Kill == /\ pc \notin {"down", "returned"}
        /\ pc' = "down"
        /\ i' = 1
        /\ opt' = << >>
        /\ UNCHANGED <<disk, call>>

Next == \/ Launch \/ Skip \/ Reject \/ Take \/ Load \/ Search
        \/ Open \/ NoSave \/ WriteRow \/ Close \/ Return \/ Kill

Spec == Init /\ [][Next]_vars

-----------------------------------------------------------------------------
(* Properties *)

TableType == Seq(0..MaxStats)

\* Type invariant.
TypeOK == /\ disk \in [Names -> {Absent} \cup TableType]
          /\ call \in Calls
          /\ pc \in {"down", "check", "load", "search", "save", "write", "returned"}
          /\ i \in 1..(Len(call.weapons) + 1)
          /\ opt \in TableType

\* A file with the magic number of lines holds the whole table, row for row,
\* whatever runs were killed while writing it: isCompleted may look at the
\* length alone.
LengthTells ==
  \A w \in Weapons :
    LooksComplete(w) => disk[Saved(w)] = Full

\* When a saving call returns, the store holds the whole table of each of its
\* weapons, also of those it skipped or found broken by a killed run.
AllSaved ==
  pc = "returned" /\ Saves(call) =>
    \A n \in 1..Len(call.weapons) : disk[Saved(call.weapons[n])] = Full

\* A finished file survives everything: later calls, which skip it or save
\* nothing, and kills at any moment.
FinishedStays ==
  [][\A w \in Weapons : disk[Saved(w)] = Full => disk'[Saved(w)] = Full]_vars
=============================================================================
