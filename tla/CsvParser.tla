----------------------------- MODULE CsvParser -----------------------------
(***************************************************************************)
(* The parser of csv.hpp: one character after another, with one flag for   *)
(* being inside quotes.  A chunk of the file is parsed on its own; what    *)
(* follows its last complete record is parsed again with the next chunk.   *)
(* Not modelled: the byte order mark and the trimming of white space,      *)
(* which no table needs and no reader asks for.                            *)
(***************************************************************************)
EXTENDS CsvFile

Uninitialized == -1

ParseFlag(ch, delim) == CASE ch = delim   -> "DELIMITER"
                          [] ch = Newline -> "NEWLINE"
                          [] ch = Quote   -> "QUOTE"
                          [] OTHER        -> "NOT_SPECIAL"

\* Inside quotes only the quote keeps a meaning.
CompoundParseFlag(ch, delim, quote_escape) ==
  LET flag == ParseFlag(ch, delim)
  IN IF ~quote_escape THEN flag
     ELSE IF flag = "QUOTE" THEN "QUOTE_ESCAPE_QUOTE" ELSE "NOT_SPECIAL"

\* The text of a field: every second quote of a field that has doubled ones
\* is left out.
GetField(raw, double_quote) ==
  IF double_quote
  THEN Selected(raw, {i \in DOMAIN raw :
                         raw[i] = Quote => QuotesBefore(raw, i) % 2 = 0})
  ELSE raw

\* A parser at the start of a chunk.  Only the flag for doubled quotes is
\* left over from the chunk before.
FreshParser(double_quote) ==
  [pos |-> 0, row_start |-> 0, field_start |-> Uninitialized,
   field_length |-> 0, quote_escape |-> FALSE, double_quote |-> double_quote,
   current_row |-> << >>, rows |-> << >>]

\* The field ends: it starts with the record if it never started.
PushField(data, s) ==
  LET from == s.row_start + (IF s.field_start = Uninitialized THEN 0 ELSE s.field_start)
      raw == SubSeq(data, from + 1, from + s.field_length)
  IN [s EXCEPT !.current_row = Append(@, GetField(raw, s.double_quote)),
               !.field_start = Uninitialized,
               !.field_length = 0,
               !.double_quote = FALSE]

PushRow(s) == [s EXCEPT !.rows = Append(@, s.current_row)]

\* Behind the characters from pos on that pass the test.
RunEnd(data, pos, Test(_)) ==
  Min({q \in pos..Len(data) : q = Len(data) \/ ~Test(data[q + 1])})

AtDelimiter(data, s) == [PushField(data, s) EXCEPT !.pos = @ + 1]

\* A run of newlines ends one record.
AtNewline(data, delim, s) ==
  LET next == RunEnd(data, s.pos, LAMBDA c : ParseFlag(c, delim) = "NEWLINE")
  IN [PushRow(PushField(data, s)) EXCEPT !.pos = next,
                                         !.row_start = next,
                                         !.current_row = << >>]

\* parse_field() takes the whole run, and measures the field from its start.
AtPlain(data, delim, s) ==
  LET start == IF s.field_start = Uninitialized THEN s.pos - s.row_start
               ELSE s.field_start
      next == RunEnd(data, s.pos, LAMBDA c :
                CompoundParseFlag(c, delim, s.quote_escape) = "NOT_SPECIAL")
  IN [s EXCEPT !.field_start = start,
               !.pos = next,
               !.field_length = next - (start + s.row_start)]

\* A quote that opens a field, or a stray one.
AtQuote(data, s) ==
  IF s.field_length = 0
  THEN [s EXCEPT !.quote_escape = TRUE,
                 !.pos = @ + 1,
                 !.field_start =
                   IF @ = Uninitialized /\ s.pos + 1 < Len(data)
                   THEN s.pos + 1 - s.row_start ELSE @]
  ELSE [s EXCEPT !.field_length = @ + 1, !.pos = @ + 1]

\* A quote inside quotes: the closing one, a doubled one or a stray one.  At
\* the end of the chunk the parser cannot tell, and stops.
AtQuoteInQuotes(data, delim, s) ==
  IF s.pos + 1 = Len(data) THEN s
  ELSE CASE ParseFlag(data[s.pos + 2], delim) \in {"DELIMITER", "NEWLINE"} ->
              [s EXCEPT !.quote_escape = FALSE, !.pos = @ + 1]
         [] ParseFlag(data[s.pos + 2], delim) = "QUOTE" ->
              [s EXCEPT !.pos = @ + 2, !.field_length = @ + 2,
                        !.double_quote = TRUE]
         [] OTHER -> [s EXCEPT !.field_length = @ + 1, !.pos = @ + 1]

\* One round of the parser's loop; nothing once it has stopped.
Round(data, delim, s) ==
  IF s.pos = Len(data) THEN s
  ELSE LET flag == CompoundParseFlag(data[s.pos + 1], delim, s.quote_escape)
       IN CASE flag = "DELIMITER"          -> AtDelimiter(data, s)
            [] flag = "NEWLINE"            -> AtNewline(data, delim, s)
            [] flag = "NOT_SPECIAL"        -> AtPlain(data, delim, s)
            [] flag = "QUOTE"              -> AtQuote(data, s)
            [] flag = "QUOTE_ESCAPE_QUOTE" -> AtQuoteInQuotes(data, delim, s)

\* The parser behind the last character.  row_start then tells how many
\* characters belong to complete records.
Parse(data, delim, double_quote) ==
  LET after[n \in 0..Len(data)] ==
        IF n = 0 THEN FreshParser(double_quote)
        ELSE Round(data, delim, after[n - 1])
  IN after[Len(data)]

\* Mutant: a last field without characters is forgotten.
EndFeedForgetful(data, delim, s) ==
  LET t == IF s.field_length > 0 THEN PushField(data, s) ELSE s
  IN IF t.current_row # << >> THEN PushRow(t) ELSE t

\* The end of the file ends the last field and the last record.
EndFeed(data, delim, s) ==
  LET empty_last_field ==
        /\ data # << >>
        /\ ParseFlag(Last(data), delim) \in {"DELIMITER", "QUOTE"}
      t == IF s.field_length > 0 \/ empty_last_field THEN PushField(data, s) ELSE s
  IN IF t.current_row # << >> THEN PushRow(t) ELSE t
=============================================================================
