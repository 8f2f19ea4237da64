---------------------------- MODULE MCTableLoader --------------------------
(* Small files for model checking TableLoader and its CsvReader. *)
EXTENDS TableLoader

CONSTANTS a, b, comma, semicolon, nl, q

MCDelims == <<comma, semicolon>>

\* Files of one chunk: everything up to a length that quotes properly.
Small == {t \in UNION {[1..n -> Chars \ {b}] : n \in 1..5} : WellFormed(t, comma)}

\* A quoted field with a delimiter, a newline and a doubled quote; an empty
\* last field; the other delimiter; a field of two lines; two rows of one ID; a header that is shorter than the rows.
Tricky == {
  <<a, comma, q, comma, nl, q, q, b, q, nl>>,
  <<a, comma, b, nl, q, q, q, q, comma>>,
  <<a, semicolon, b, nl, b, semicolon, a>>,
  <<comma, q, nl, a, nl, q>>,
  <<a, comma, b, nl, a, comma, a, nl, a, comma, b>>,
  <<a, nl, a, comma, b, nl, b, comma, b>>}

\* Files of several chunks, with and without a last line end, with a narrow
\* row, with a quoted field over a chunk's end, as long as whole pages.
Large == {
  <<a, comma, a, nl, a, comma, b, nl, b, comma, a, nl, b, comma, b, nl>>,
  <<a, comma, a, nl, a, comma, b, nl, b, comma, a, nl, b, comma, b>>,
  <<a, comma, a, nl, a, comma, b, nl, b, nl, a, comma, a, nl, b, comma, a, nl, b, comma, b, nl>>,
  <<a, comma, a, nl, a, comma, q, b, q, q, nl, a, q, nl, b, comma, b>>,
  <<a, comma, a, nl, b, nl, a, comma, q, b, q, nl, b, comma, q, q, nl>>}

\* Two spells.
Spells == {<<a, comma, a, nl, a, comma, a, nl, b, comma, b>>}

MCFiles == Small \cup Tricky \cup Large
=============================================================================
