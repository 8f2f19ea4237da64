---------------------------- MODULE TableLoader ----------------------------
(***************************************************************************)
(* The loaders of DataParser.cpp: loops over a CsvReader that fill the     *)
(* tables every other part of the program looks things up in.              *)
(*   "by_id"     defGenerator() for tables with a column ID                *)
(*   "by_index"  defGenerator() for the graphs, numbered as they come      *)
(*   "spells"    loadSpellMVData()                                         *)
(* The first field of a row stands for its ID, the second for its Name.    *)
(***************************************************************************)
EXTENDS CsvReader

VARIABLES loader,  \* which of the loops is running
          table    \* its table

loading == <<loader, table>>
all == <<vars, loading>>

\* Every loader finds its columns in the files it is given.
Loaders(t) == {"by_id", "by_index"} \cup
  (IF \A n \in DOMAIN Records(t, Delims[1]) : Len(Records(t, Delims[1])[n]) >= 2
   THEN {"spells"} ELSE {})

LoadInit == /\ Init
            /\ loader \in Loaders(text)
            /\ table = << >>

\* insert() keeps the row that is there.
Insert(key, row) ==
  [k \in DOMAIN table \cup {key} |-> IF k \in DOMAIN table THEN table[k] ELSE row]

\* operator[] replaces it.
Assign(key, row) ==
  [k \in DOMAIN table \cup {key} |-> IF k = key THEN row ELSE table[k]]

\* Mutant: the numbers start at one.
IndexedFromOne(row) == Insert(Cardinality(DOMAIN table) + 1, row)

\* Graphs are inserted under the next number, other tables under the ID.
Indexed(row) == Insert(Cardinality(DOMAIN table), row)
Inserted(row) == Insert(row[1], row)

\* The first spell is taken for the header and skipped.
SpellSet(row) == IF delivered = << >> THEN table ELSE Assign(row[2], row)

\* The body of the loop, run on each row it is handed.
Loads ==
  /\ UNCHANGED loader
  /\ IF delivered' = delivered THEN UNCHANGED table
     ELSE table' = CASE loader = "by_id"    -> Inserted(Last(delivered'))
                     [] loader = "by_index" -> Indexed(Last(delivered'))
                     [] loader = "spells"   -> SpellSet(Last(delivered'))

Step(Thread) == Running /\ Thread /\ Loads

LoadNext == Step(Worker) \/ Step(Main) \/ (Terminating /\ UNCHANGED loading)

\* The system runs both threads when they can run.
LoadSpec == /\ LoadInit /\ [][LoadNext]_all
            /\ WF_all(Step(Worker)) /\ WF_all(Step(Main))
-----------------------------------------------------------------------------
(* Properties *)

\* What the program's own tables are: read in one go, with a row at least.
Usual == NoChunk /\ Stream!Rows # << >>

\* A loaded table holds its file: under each ID the first row that has it,
\* under each number the row at that place.
TableWhole ==
  main = "destroyed" /\ Usual =>
    LET rows == Stream!Rows
    IN /\ loader = "by_index" =>
            table = [i \in 0..(Len(rows) - 1) |-> rows[i + 1]]
       /\ loader = "by_id" =>
            /\ DOMAIN table = {rows[n][1] : n \in DOMAIN rows}
            /\ \A n \in DOMAIN rows :
                 (\A k \in 1..(n - 1) : rows[k][1] # rows[n][1])
                   => table[rows[n][1]] = rows[n]

\* "Load in all param data": every spell of the file is in the table.
EverySpell ==
  main = "destroyed" /\ Usual /\ loader = "spells" =>
    \A n \in DOMAIN Stream!Rows : Stream!Rows[n][2] \in DOMAIN table
=============================================================================
