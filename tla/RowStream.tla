----------------------------- MODULE RowStream -----------------------------
(***************************************************************************)
(* What a CSVReader (csv.hpp) promises the loop over its rows: the records *)
(* behind the header, in the order of the file, each once, those of the    *)
(* wrong width left out.  Module CsvReader is shown to implement it.       *)
(*                                                                         *)
(* The promise is what the code keeps, which is less than its comments     *)
(* say: the first row is handed out whatever its width; a file that is as  *)
(* large as a chunk may end early or have its last record handed out once  *)
(* more; and so has a file that holds nothing but a header without a line  *)
(* end.                                                                    *)
(***************************************************************************)
EXTENDS CsvFile

CONSTANTS Files,  \* contents of files
          Chunk   \* characters read at a time (ITERATION_CHUNK_SIZE)

VARIABLES text,       \* the file's contents
          delim,      \* the delimiter it is read with
          delivered,  \* the rows handed out
          over        \* the reader has said that there are no more

vars == <<text, delim, delivered, over>>

\* The file is read in one go.
Whole == Len(text) < Chunk

\* The records the reader owes: those behind the header and, but for the first,
\* as wide as the header.
Owed(records) ==
  Selected(records, {n \in DOMAIN records :
                       n = 2 \/ (n > 2 /\ Len(records[n]) = Len(records[1]))})

Rows == Owed(Records(text, delim))

Ragged == text # << >> /\ Last(text) # Newline

Init == /\ text \in Files
        /\ delim \in ToSet(Delims)
        /\ delivered = << >>
        /\ over = FALSE

Deliver == /\ ~over
           /\ LET rows == Rows
              IN /\ Len(delivered) < Len(rows)
                 /\ delivered' = Append(delivered, rows[Len(delivered) + 1])
           /\ UNCHANGED <<text, delim, over>>

\* The last record a second time, the header's own record included.
Again == /\ ~over
         /\ Ragged
         /\ ~Whole \/ Rows = << >>
         /\ Len(delivered) = Len(Rows)
         /\ delivered' = Append(delivered, Last(Records(text, delim)))
         /\ UNCHANGED <<text, delim, over>>

Finish == /\ ~over
          /\ over' = TRUE
          /\ Whole => Len(delivered) >= Len(Rows)
          /\ UNCHANGED <<text, delim, delivered>>

Next == Deliver \/ Again \/ Finish

Spec == Init /\ [][Next]_vars
=============================================================================
