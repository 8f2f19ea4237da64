----------------------------- MODULE CsvReader -----------------------------
(***************************************************************************)
(* CSVReader of csv.hpp, as DataParser uses it: a loop takes rows from a   *)
(* queue that worker threads fill, one chunk of the file each.  The queue  *)
(* (ThreadSafeDeque) has a lock, but emptiness, its flag waitable and the  *)
(* parser's flag eof are read without it.  One worker runs at a time: the  *)
(* loop joins it before it starts the next.                                *)
(*                                                                         *)
(* Every reader parses its first chunk and joins the worker before the     *)
(* loop begins.  A file of several chunks then has both threads running.   *)
(***************************************************************************)
EXTENDS CsvParser

CONSTANTS Files,       \* contents of files
          Chunk,       \* characters read at a time (ITERATION_CHUNK_SIZE)
          HeadSize,    \* characters the format is guessed from (500000)
          NotifySize,  \* rows that wake the loop (100)
          PageSize     \* the system maps files by pages of this size

ASSUME SizesAssumption == /\ Chunk \in Nat \ {0}
                          /\ HeadSize \in Nat \ {0}
                          /\ NotifySize \in Nat \ {0}
                          /\ PageSize \in Nat \ {0}

\* The delimiters to guess from, or the one that is named.
ASSUME DelimsAssumption == Delims \in Seq(Chars) \ {<< >>}

\* CSVFormat refuses a quote for a delimiter; a line end would not split fields.
ASSUME CharsAssumption == /\ Quote # Newline
                          /\ ToSet(Delims) \cap {Quote, Newline} = {}

\* The tables of csv-conversions quote properly.
ASSUME FilesAssumption == /\ Files \subseteq Seq(Chars) \ {<< >>}
                          /\ \A t \in Files : WellFormed(t, Delims[1])

\* Files of several chunks have no blank lines, and their records fit a chunk.
\* A chunk that ends inside a run of newlines would start an empty record, and
\* one that ends before the first record would be parsed over and over.
ASSUME ChunksAssumption ==
  \A t \in Files : Len(t) >= Chunk =>
    /\ \A p \in Outside(t, {Newline}) : p + 1 \notin Outside(t, {Newline})
    /\ \A p \in Starts(t) :
         \/ Len(t) < p + Chunk
         \/ \E q \in Starts(t) : p < q /\ q <= p + Chunk

-----------------------------------------------------------------------------
(* Guessing the format *)

\* The rows a parser finds in the head of the file.
HeadRows(t, d) ==
  LET head == SubSeq(t, 1, Min({Len(t), HeadSize}))
  IN EndFeed(head, d, Parse(head, d, FALSE)).rows

Tally(rows, size) == Cardinality({n \in DOMAIN rows : Len(rows[n]) = size})
Widths(rows) == {Len(rows[n]) : n \in DOMAIN rows}

\* The largest product of a width and the rows that have it.
Score(rows) == Max({w * Tally(rows, w) : w \in Widths(rows)} \cup {0})

\* The first row of a width with that score.  The tally is a hash map: of two
\* widths with the same score either may come first.
HeaderRows(rows) ==
  {Min({n \in DOMAIN rows : Len(rows[n]) = w}) - 1 :
     w \in {v \in Widths(rows) : v * Tally(rows, v) = Score(rows)}}

\* The first delimiter with the best score wins.
GuessFormat(t) ==
  LET score == [i \in DOMAIN Delims |-> Score(HeadRows(t, Delims[i]))]
      best == Min({i \in DOMAIN Delims : \A j \in DOMAIN Delims : score[j] <= score[i]})
  IN IF score[best] = 0 THEN {[delim |-> Delims[1], header |-> 0]}
     ELSE {[delim |-> Delims[best], header |-> h] :
             h \in HeaderRows(HeadRows(t, Delims[best]))}

\* defGenerator() names the comma, or leaves it to the reader to find out.
Formats(t) == {[delim |-> Delims[1], header |-> 0]} \cup
              (IF Regular(t, Delims[1]) THEN GuessFormat(t) ELSE {})
-----------------------------------------------------------------------------
VARIABLES
  text,            \* the file's contents
  format,          \* its delimiter and the row of its header
  records,         \* the queue of parsed rows
  waitable,        \* the queue's flag: a worker is filling it
  asleep,          \* the loop waits on the queue's condition variable
  eof,             \* the parser's flag: the last chunk has been parsed
  mmap_pos,        \* how much of the file has been mapped
  length,          \* the size of the chunk in hand, which ends at mmap_pos
  parser,          \* the parser's own state
  header_trimmed,  \* the header has been taken from the queue
  n_cols,          \* its width
  worker,          \* where the worker is; "none" when there is none to join
  main,            \* where the loop is
  delivered        \* the rows it has been handed

chunk == <<mmap_pos, length, parser>>
header == <<header_trimmed, n_cols>>
vars == <<text, format, records, waitable, asleep, eof, chunk, header,
          worker, main, delivered>>

\* The constructor: the format is settled and the first worker started.
Init == /\ text \in Files
        /\ format \in Formats(text)
        /\ records = << >>
        /\ waitable = FALSE
        /\ asleep = FALSE
        /\ eof = FALSE
        /\ mmap_pos = 0
        /\ length = 0
        /\ parser = FreshParser(FALSE)
        /\ header_trimmed = FALSE
        /\ n_cols = 0
        /\ worker = "start"
        /\ main = "construct"
        /\ delivered = << >>
-----------------------------------------------------------------------------
(* The worker: read_csv() *)

NoChunk == Len(text) < Chunk

\* "Tell read_row() to listen for CSV rows": the loop may wait from now on.
Announce == /\ worker = "start"
            /\ waitable' = TRUE
            /\ asleep' = FALSE
            /\ worker' = "map"
            /\ UNCHANGED <<text, format, records, eof, chunk, header, main, delivered>>

\* A map of no bytes at the start of a page fails: the exception leaves the
\* thread and ends the program.
Unmappable == mmap_pos = Len(text) /\ mmap_pos % PageSize = 0

Crash == /\ worker = "map"
         /\ Unmappable
         /\ worker' = "crashed"
         /\ main' = "aborted"
         /\ UNCHANGED <<text, format, records, waitable, asleep, eof, chunk,
                        header, delivered>>

\* Map the next chunk and set the parser up for it.
Map == /\ worker = "map"
       /\ ~Unmappable
       /\ length' = Min({Len(text) - mmap_pos, Chunk})
       /\ mmap_pos' = mmap_pos + length'
       /\ parser' = FreshParser(parser.double_quote)
       /\ worker' = "parse"
       /\ UNCHANGED <<text, format, records, waitable, asleep, eof, header,
                      main, delivered>>

Data == SubSeq(text, mmap_pos - length + 1, mmap_pos)

\* The queue is worth waking the loop for.
Enough == Len(records) >= NotifySize

\* The parser has gone on to s.  The rows it has completed are in the queue;
\* the loop is woken when there are enough of them.
Pushed(s) == /\ parser' = [s EXCEPT !.rows = << >>]
             /\ IF s.rows = << >> THEN UNCHANGED <<records, asleep>>
                ELSE /\ records' = records \o s.rows
                     /\ asleep' = (asleep /\ ~Enough')

Stopped == Round(Data, format.delim, parser) = parser

ParseOn == /\ worker = "parse"
           /\ ~Stopped
           /\ Pushed(Round(Data, format.delim, parser))
           /\ UNCHANGED <<text, format, waitable, eof, mmap_pos, length, header,
                          worker, main, delivered>>

\* Mutant: the incomplete record is skipped, and as much again.
RemainderSkipped == mmap_pos + (length - parser.row_start)

\* What follows the last complete record is for the next chunk.
Remainder == mmap_pos - (length - parser.row_start)

ChunkEnds == /\ worker = "parse"
             /\ Stopped
             /\ mmap_pos # Len(text)
             /\ ~NoChunk
             /\ mmap_pos' = Remainder
             /\ worker' = "trim"
             /\ UNCHANGED <<text, format, records, waitable, asleep, eof, length,
                            parser, header, main, delivered>>

\* Mutant: nobody is told that the file has ended.
FileEndsUnmarked == /\ worker = "parse"
                    /\ Stopped
                    /\ mmap_pos = Len(text) \/ NoChunk
                    /\ worker' = "feed"
                    /\ UNCHANGED <<text, format, records, waitable, asleep, eof, chunk,
                                   header, main, delivered>>

\* The file ends: eof is set first, and the last record pushed after it.
FileEnds == /\ worker = "parse"
            /\ Stopped
            /\ mmap_pos = Len(text) \/ NoChunk
            /\ eof' = TRUE
            /\ worker' = "feed"
            /\ UNCHANGED <<text, format, records, waitable, asleep, chunk, header,
                           main, delivered>>

Feed == /\ worker = "feed"
        /\ Pushed(EndFeed(Data, format.delim, parser))
        /\ mmap_pos' = Remainder
        /\ worker' = "trim"
        /\ UNCHANGED <<text, format, waitable, eof, length, header, main, delivered>>

\* The first worker takes the header, and what is before it, off the queue.
TrimHeader == /\ worker = "trim"
              /\ IF header_trimmed THEN UNCHANGED <<records, n_cols>>
                 ELSE /\ records' = SubSeq(records, format.header + 2, Len(records))
                      /\ n_cols' = IF Len(records) > format.header
                                   THEN Len(records[format.header + 1]) ELSE n_cols
              /\ header_trimmed' = TRUE
              /\ worker' = "kill"
              /\ UNCHANGED <<text, format, waitable, asleep, eof, chunk, main, delivered>>

\* Mutant: the flag is cleared, but nobody is told.
KillSilently == /\ worker = "kill"
                /\ waitable' = FALSE
                /\ worker' = "done"
                /\ UNCHANGED <<text, format, records, asleep, eof, chunk, header,
                               main, delivered>>

\* "Tell read_row() to stop waiting", and return.
Kill == /\ worker = "kill"
        /\ waitable' = FALSE
        /\ asleep' = FALSE
        /\ worker' = "done"
        /\ UNCHANGED <<text, format, records, eof, chunk, header, main, delivered>>

Worker == \/ Announce \/ Crash \/ Map \/ ParseOn \/ ChunkEnds \/ FileEnds
          \/ Feed \/ TrimHeader \/ Kill
-----------------------------------------------------------------------------
(* The loop over the rows: begin() and operator++ *)

Join == worker = "done" /\ worker' = "none"

\* The constructor joins its worker.
Constructed == /\ main = "construct"
               /\ Join
               /\ main' = "begin"
               /\ UNCHANGED <<text, format, records, waitable, asleep, eof, chunk,
                              header, delivered>>

Deliver == /\ delivered' = Append(delivered, Head(records))
           /\ records' = Tail(records)

\* begin() hands out the first row without looking at its width.
Begin == /\ main = "begin"
         /\ records # << >>
         /\ Deliver
         /\ main' = "row"
         /\ UNCHANGED <<text, format, waitable, asleep, eof, chunk, header, worker>>

\* Mutant: the loop goes on while the chunk is read.
BeginReadsOn == /\ main = "begin"
                /\ records = << >>
                /\ worker' = "start"
                /\ main' = "row"
                /\ UNCHANGED <<text, format, records, waitable, asleep, eof, chunk,
                               header, delivered>>

\* Without a row it reads a chunk, whether or not there is more to read.
BeginReads == /\ main = "begin"
              /\ records = << >>
              /\ worker' = "start"
              /\ main' = "begin_join"
              /\ UNCHANGED <<text, format, records, waitable, asleep, eof, chunk,
                             header, delivered>>

BeginJoined == /\ main = "begin_join"
               /\ Join
               /\ IF records = << >>
                  THEN main' = "end" /\ UNCHANGED <<records, delivered>>
                  ELSE main' = "row" /\ Deliver
               /\ UNCHANGED <<text, format, waitable, asleep, eof, chunk, header>>

\* Rows of another width than the header are dropped.
DropRow == /\ main = "row"
           /\ records # << >>
           /\ Len(Head(records)) # n_cols
           /\ records' = Tail(records)
           /\ UNCHANGED <<text, format, waitable, asleep, eof, chunk, header,
                          worker, main, delivered>>

ReadRow == /\ main = "row"
           /\ records # << >>
           /\ Len(Head(records)) = n_cols
           /\ Deliver
           /\ UNCHANGED <<text, format, waitable, asleep, eof, chunk, header,
                          worker, main>>

Go(from, to) == /\ main = from
                /\ main' = to
                /\ UNCHANGED <<text, format, records, waitable, asleep, eof, chunk,
                               header, worker, delivered>>

\* Three questions, asked one after the other while the worker goes on.
SeesNone == records = << >> /\ Go("row", "empty")
SeesWaitable == waitable /\ Go("empty", "wait")
SeesIdle == ~waitable /\ Go("empty", "idle")
SeesEof == eof /\ Go("idle", "end")
SeesMore == ~eof /\ Go("idle", "join")

\* wait() holds the lock while it tests its condition, and gives it up to sleep.
Wait == /\ ~asleep
        /\ main = "wait"
        /\ IF Enough \/ ~waitable
           THEN main' = "row" /\ UNCHANGED asleep
           ELSE asleep' = TRUE /\ UNCHANGED main
        /\ UNCHANGED <<text, format, records, waitable, eof, chunk, header, worker,
                       delivered>>

\* The last worker is joined and the next one started.
Restart == /\ main = "join"
           /\ worker \in {"none", "done"}
           /\ worker' = "start"
           /\ main' = "row"
           /\ UNCHANGED <<text, format, records, waitable, asleep, eof, chunk, header,
                          delivered>>

\* The destructor joins a worker that is left.
Destroy == /\ main = "end"
           /\ worker \in {"none", "done"}
           /\ worker' = "none"
           /\ main' = "destroyed"
           /\ UNCHANGED <<text, format, records, waitable, asleep, eof, chunk, header,
                          delivered>>

Main == \/ Constructed \/ Begin \/ BeginReads \/ BeginJoined \/ DropRow \/ ReadRow
        \/ SeesNone \/ SeesWaitable \/ SeesIdle \/ SeesEof \/ SeesMore
        \/ Wait \/ Restart \/ Destroy

Running == main # "aborted"

Terminating == main \in {"destroyed", "aborted"} /\ UNCHANGED vars

Next == (Running /\ (Worker \/ Main)) \/ Terminating

\* The system runs both threads when they can run.
Spec == Init /\ [][Next]_vars /\ WF_vars(Running /\ Worker) /\ WF_vars(Running /\ Main)
-----------------------------------------------------------------------------
(* Properties *)

Row == Seq(Seq(Chars))

\* Type invariant: rows are sequences of texts, and the two threads are where
\* the code has a line for them.
TypeOK == /\ text \in Files
          /\ format \in [delim : ToSet(Delims), header : Nat]
          /\ records \in Seq(Row)
          /\ {waitable, asleep, eof, header_trimmed} \subseteq BOOLEAN
          /\ mmap_pos \in 0..Len(text)
          /\ length \in 0..Chunk
          /\ parser.pos \in 0..length
          /\ parser.current_row \in Row
          /\ n_cols \in Nat
          /\ worker \in {"start", "map", "parse", "feed", "trim", "kill", "done",
                         "none", "crashed"}
          /\ main \in {"construct", "begin", "begin_join", "row", "empty", "idle",
                       "wait", "join", "end", "destroyed", "aborted"}
          /\ delivered \in Seq(Row)

\* No lost wakeup: while the loop sleeps, a worker is filling the queue and
\* has yet to push the row or clear the flag the loop waits for.
Awake == asleep /\ Running =>
           /\ main = "wait"
           /\ waitable
           /\ worker \in {"map", "parse", "feed", "trim", "kill"}
           /\ ~Enough

\* A file of one chunk is read without concurrency, although the loop asks its
\* questions without the lock: a worker runs only while the loop waits to join.
Alone == NoChunk /\ Running /\ worker # "none" => main \in {"construct", "begin_join"}

\* The loop hands out the rows of the file as the abstract stream does.
Stream == INSTANCE RowStream WITH
            text <- text,
            delim <- format.delim,
            delivered <- delivered,
            over <- main \in {"end", "destroyed", "aborted"}
StreamSpec == Stream!Spec

\* Every loop over a reader comes to an end, or the program does.
Ends == <>(main \in {"destroyed", "aborted"})
=============================================================================
