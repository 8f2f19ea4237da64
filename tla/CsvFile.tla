------------------------------ MODULE CsvFile ------------------------------
(***************************************************************************)
(* What a table of csv-conversions says, independently of how it is read:  *)
(* records end at runs of newlines, fields at delimiters, and neither      *)
(* counts inside quotes.  Module CsvParser translates the reader's own     *)
(* parser; these definitions are what it is compared with.                 *)
(***************************************************************************)
EXTENDS Integers, Sequences, FiniteSets, SequencesExt, FiniteSetsExt

CONSTANTS Plain,      \* characters without a meaning
          Delims,     \* the delimiters a reader may guess, in its order
          Newline,    \* a carriage return or a line feed
          Quote

Chars == Plain \cup ToSet(Delims) \cup {Newline, Quote}

\* How many quotes there are before a position.
QuotesBefore(text, p) == Cardinality({q \in 1..(p - 1) : text[q] = Quote})

\* Positions of text outside quotes that hold one of the characters.
Outside(text, chars) ==
  {p \in DOMAIN text : text[p] \in chars /\ QuotesBefore(text, p) % 2 = 0}

\* The elements of a sequence at the given positions of it.
Selected(s, positions) ==
  LET upto[n \in 0..Len(s)] ==
        IF n = 0 THEN << >>
        ELSE IF n \in positions THEN Append(upto[n - 1], s[n]) ELSE upto[n - 1]
  IN upto[Len(s)]

\* A quoted field without its quotes, doubled quotes counting once.
Unquoted(field) ==
  IF field # << >> /\ field[1] = Quote
  THEN LET inner == SubSeq(field, 2, Len(field) - 1)
       IN Selected(inner, {i \in DOMAIN inner :
                             inner[i] = Quote => QuotesBefore(inner, i) % 2 = 0})
  ELSE field

\* A record that nothing has been written to: one empty field.
Blank == << << >> >>

\* What has been written so far, with the character at position p.  A line end
\* begins a record; a further one leaves it as it is.
Write(sofar, text, p, ends, cuts) ==
  LET record == Last(sofar)
  IN IF p \in ends
     THEN IF Len(sofar) > 1 /\ record = Blank THEN sofar ELSE Append(sofar, Blank)
     ELSE Append(Front(sofar),
            IF p \in cuts THEN Append(record, << >>)
            ELSE Append(Front(record), Append(Last(record), text[p])))

\* The records as they are written, and behind a line end the one that begins.
Written(text, delim) ==
  LET ends == Outside(text, {Newline})
      cuts == Outside(text, {delim})
      upto[p \in 0..Len(text)] ==
        IF p = 0 THEN <<Blank>> ELSE Write(upto[p - 1], text, p, ends, cuts)
  IN upto[Len(text)]

\* The records of the file: sequences of fields.
Records(text, delim) ==
  LET written == Written(text, delim)
      whole == IF Last(written) = Blank THEN Front(written) ELSE written
  IN [n \in DOMAIN whole |-> [k \in DOMAIN whole[n] |-> Unquoted(whole[n][k])]]

\* Where records start: at the beginning and behind each run of newlines.
Starts(text) ==
  LET ends == Outside(text, {Newline})
  IN {p \in DOMAIN text : p = 1 \/ (p - 1 \in ends /\ p \notin ends)}

\* Quotes open where a field does or another quote has just closed, and close
\* where a field does or another quote opens at once: so a doubled quote inside
\* quotes closes and opens them.
Quoting(text, delim) ==
  \A p \in DOMAIN text : text[p] = Quote =>
    IF QuotesBefore(text, p) % 2 = 0
    THEN p = 1 \/ text[p - 1] \in {delim, Newline, Quote}
    ELSE p = Len(text) \/ text[p + 1] \in {delim, Newline, Quote}

\* No quotes are left open.
WellFormed(text, delim) ==
  Quoting(text, delim) /\ QuotesBefore(text, Len(text) + 1) % 2 = 0

\* A table a delimiter can be guessed from: all records are as wide as the
\* first, none runs over a line end, and no other delimiter occurs.
Regular(text, delim) ==
  /\ \A n \in DOMAIN Records(text, delim) :
       Len(Records(text, delim)[n]) = Len(Records(text, delim)[1])
  /\ Outside(text, {Newline}) = {p \in DOMAIN text : text[p] = Newline}
  /\ ToSet(text) \cap ToSet(Delims) \subseteq {delim}
=============================================================================
