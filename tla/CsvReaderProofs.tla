-------------------------- MODULE CsvReaderProofs --------------------------
(***************************************************************************)
(* Proofs about the two threads of a CSVReader, for files of any content,  *)
(* size and number of chunks: the loop never sleeps through the end of a   *)
(* chunk, and a file of one chunk is read without concurrency.  Such a     *)
(* file's loop is handed the rows the parser makes of the file, behind the *)
(* header and as wide as it, and the loader's table holds them.            *)
(*                                                                         *)
(* Then about the parser: in a file that quotes properly it finds the      *)
(* records that module CsvFile defines, whatever the file says, and the    *)
(* format is known whether it is named or guessed.  So the table holds the *)
(* file, and a file of one chunk is handed out as the abstract stream of   *)
(* module RowStream does it.                                               *)
(***************************************************************************)
EXTENDS TableLoader, FiniteSetTheorems, SequenceTheorems, TLAPS

-----------------------------------------------------------------------------
(* Induction over a set of numbers *)

\* Numbers up to L with all that are smaller are the first so many.
LEMMA InitialSegment ==
  ASSUME NEW L \in Nat, NEW K, K \subseteq 1..L, \A j \in K : 1..j \subseteq K
  PROVE  \E n \in 0..L : K = 1..n
<1> DEFINE n == Cardinality(K)
<1>1. IsFiniteSet(1..L) /\ Cardinality(1..L) = L
  BY FS_Interval
<1>2. IsFiniteSet(K) /\ n \in Nat /\ n <= L
  <2>1. IsFiniteSet(K) /\ Cardinality(K) <= Cardinality(1..L)
    BY <1>1, FS_Subset, Zenon
  <2>2. Cardinality(K) \in Nat
    BY <2>1, FS_CardinalityType
  <2> QED BY <2>1, <2>2, <1>1
<1>3. \A j \in K : j <= n
  <2> SUFFICES ASSUME NEW j \in K PROVE j <= n
    OBVIOUS
  <2>1. j \in Nat /\ 1..j \subseteq K
    OBVIOUS
  <2>2. Cardinality(1..j) = j
    BY <2>1, FS_Interval
  <2> QED BY <2>1, <2>2, <1>2, FS_Subset
<1>4. IsFiniteSet(1..n) /\ Cardinality(1..n) = n
  BY <1>2, FS_Interval
<1>5. K \subseteq 1..n
  BY <1>3
<1>6. K = 1..n
  BY <1>4, <1>5, FS_Subset
<1>7. n \in 0..L
  BY <1>2
<1> QED BY <1>6, <1>7

\* What is so for 0 and, if for n, then for n + 1, is so for all.
LEMMA Induction ==
  ASSUME NEW K, 0 \in K, \A n \in Nat : n \in K => n + 1 \in K
  PROVE  Nat \subseteq K
<1> SUFFICES ASSUME NEW m \in Nat, m \notin K PROVE FALSE
  OBVIOUS
<1> DEFINE D == {j \in 1..m : \A k \in 1..j : k \in K}
<1>1. \A j \in D : 1..j \subseteq D
  OBVIOUS
<1>2. D \subseteq 1..m
  OBVIOUS
<1>3. PICK n \in 0..m : D = 1..n
  <2> HIDE DEF D
  <2> QED BY <1>1, <1>2, InitialSegment
<1>4. n \in K
  <2>1. CASE n = 0
    BY <2>1
  <2>2. CASE n # 0
    <3>1. n \in 1..n
      BY <2>2
    <3>2. n \in D
      <4> HIDE DEF D
      <4> QED BY <3>1, <1>3
    <3> QED BY <3>1, <3>2
  <2> QED BY <2>1, <2>2
<1>5. n < m
  BY <1>3, <1>4
<1>6. n + 1 \in K /\ n + 1 \in 1..m
  BY <1>4, <1>5
<1>7. n + 1 \in D
  <2>1. \A k \in 1..n : k \in K
    BY <1>3
  <2>2. \A k \in 1..(n + 1) : k \in 1..n \/ k = n + 1
    OBVIOUS
  <2> QED BY <2>1, <2>2, <1>6
<1> QED BY <1>3, <1>7

-----------------------------------------------------------------------------
(* Elements at given positions *)

\* g are the elements selected so far.
IsSelection(s, positions, g, m) ==
  g = [n \in 0..m |->
         IF n = 0 THEN << >>
         ELSE IF n \in positions THEN Append(g[n - 1], s[n]) ELSE g[n - 1]]

LEMMA SelectionExists ==
  ASSUME NEW s, NEW P, NEW m \in Nat
  PROVE  \E g : IsSelection(s, P, g, m)
<1> DEFINE K == {n \in Nat : \E g : IsSelection(s, P, g, n)}
<1>1. 0 \in K
  <2> DEFINE g == [n \in 0..0 |-> << >>]
  <2>1. \A n \in 0..0 : n = 0
    OBVIOUS
  <2>2. IsSelection(s, P, g, 0)
    BY <2>1 DEF IsSelection
  <2> HIDE DEF g
  <2> QED BY <2>2
<1>2. ASSUME NEW n \in Nat, n \in K PROVE n + 1 \in K
  <2>1. PICK g : IsSelection(s, P, g, n)
    BY <1>2
  <2> DEFINE h == [k \in 0..(n + 1) |->
                     IF k = 0 THEN << >>
                     ELSE IF k \in P THEN Append(g[k - 1], s[k]) ELSE g[k - 1]]
  <2>2. \A k \in 0..n : h[k] = g[k]
    <3>1. \A k \in 0..n : g[k] = IF k = 0 THEN << >>
                                 ELSE IF k \in P THEN Append(g[k - 1], s[k]) ELSE g[k - 1]
      BY <2>1, Zenon DEF IsSelection
    <3>2. \A k \in 0..n : k \in 0..(n + 1)
      OBVIOUS
    <3> QED BY <3>1, <3>2, Zenon
  <2>3. \A k \in 0..(n + 1) : k # 0 => h[k - 1] = g[k - 1]
    <3>1. \A k \in 0..(n + 1) : k # 0 => k - 1 \in 0..n
      OBVIOUS
    <3> HIDE DEF h
    <3> QED BY <2>2, <3>1
  <2>4. IsSelection(s, P, h, n + 1)
    BY <2>3, Zenon DEF IsSelection
  <2> HIDE DEF h
  <2> QED BY <2>4
<1>3. Nat \subseteq K
  <2> HIDE DEF K
  <2> QED BY <1>1, <1>2, Induction
<1> QED BY <1>3

\* What is selected from a sequence is one.
LEMMA SelectedType ==
  ASSUME NEW S, NEW s \in Seq(S), NEW P
  PROVE  Selected(s, P) \in Seq(S)
<1> DEFINE L == Len(s)
           g == CHOOSE f : IsSelection(s, P, f, L)
<1>1. L \in Nat /\ \A n \in 1..L : s[n] \in S
  OBVIOUS
<1>2. IsSelection(s, P, g, L)
  BY <1>1, SelectionExists
<1>3. Selected(s, P) = g[L]
  BY DEF Selected, IsSelection
<1> HIDE DEF g, L
<1> DEFINE K == {m \in Nat : m <= L => g[m] \in Seq(S)}
<1>4. 0 \in K
  <2>1. g[0] = << >>
    BY <1>1, <1>2 DEF IsSelection
  <2>2. << >> \in Seq(S)
    OBVIOUS
  <2> QED BY <2>1, <2>2
<1>5. ASSUME NEW m \in Nat, m \in K PROVE m + 1 \in K
  <2> SUFFICES ASSUME m + 1 <= L PROVE g[m + 1] \in Seq(S)
    OBVIOUS
  <2>1. g[m] \in Seq(S) /\ s[m + 1] \in S
    BY <1>1, <1>5
  <2>2. g[m + 1] = IF m + 1 \in P THEN Append(g[m], s[m + 1]) ELSE g[m]
    <3>1. m + 1 \in 0..L /\ m + 1 # 0 /\ (m + 1) - 1 = m
      BY <1>1
    <3> QED BY <3>1, <1>2 DEF IsSelection
  <2>3. CASE m + 1 \in P
    BY <2>1, <2>2, <2>3
  <2>4. CASE m + 1 \notin P
    BY <2>1, <2>2, <2>4
  <2> QED BY <2>3, <2>4
<1>6. Nat \subseteq K
  <2> HIDE DEF K
  <2> QED BY <1>4, <1>5, Induction
<1> QED BY <1>1, <1>3, <1>6

-----------------------------------------------------------------------------
(* The parser *)

ParserFields == {"pos", "row_start", "field_start", "field_length", "quote_escape",
                 "double_quote", "current_row", "rows"}

IsParser(s) ==
  /\ DOMAIN s = ParserFields
  /\ s.pos \in Nat /\ s.row_start \in Nat
  /\ s.field_start \in Nat \cup {Uninitialized} /\ s.field_length \in Nat
  /\ s.quote_escape \in BOOLEAN /\ s.double_quote \in BOOLEAN
  /\ s.current_row \in Row /\ s.rows \in Seq(Row)

\* The parser stays in its chunk: so does the field in hand, and only at the end
\* of the chunk is it inside quotes without a field.
Parsing(data, s) ==
  /\ IsParser(s)
  /\ s.row_start <= s.pos /\ s.pos <= Len(data)
  /\ s.field_start # Uninitialized => s.row_start + s.field_start + s.field_length <= s.pos
  /\ s.field_start = Uninitialized =>
       s.field_length = 0 /\ (s.quote_escape => s.pos = Len(data))

LEMMA FreshParses ==
  ASSUME NEW data \in Seq(Chars), NEW b \in BOOLEAN
  PROVE  Parsing(data, FreshParser(b))
BY DEF Parsing, IsParser, ParserFields, FreshParser, Row, Uninitialized

\* A part of a sequence within its bounds.
LEMMA PartOf ==
  ASSUME NEW S, NEW s \in Seq(S), NEW from \in Nat, NEW n \in Nat, from + n <= Len(s)
  PROVE  SubSeq(s, from + 1, from + n) \in Seq(S) /\ Len(SubSeq(s, from + 1, from + n)) = n
<1>1. \A i \in (from + 1)..(from + n) : s[i] \in S
  OBVIOUS
<1> QED BY <1>1, SubSeqProperties

LEMMA GetFieldType ==
  ASSUME NEW raw \in Seq(Chars), NEW b
  PROVE  GetField(raw, b) \in Seq(Chars)
BY SelectedType DEF GetField

\* push_field() puts a text behind the others, and forgets where it started.
LEMMA PushFieldParses ==
  ASSUME NEW data \in Seq(Chars), NEW s, Parsing(data, s), NEW t, t = PushField(data, s)
  PROVE  /\ IsParser(t)
         /\ t.pos = s.pos /\ t.row_start = s.row_start /\ t.rows = s.rows
         /\ t.field_start = Uninitialized /\ t.field_length = 0
         /\ t.quote_escape = s.quote_escape
<1> DEFINE from == s.row_start + (IF s.field_start = Uninitialized THEN 0 ELSE s.field_start)
           raw == SubSeq(data, from + 1, from + s.field_length)
<1>1. from \in Nat /\ s.field_length \in Nat /\ from + s.field_length <= Len(data)
  BY DEF Parsing, IsParser, Uninitialized
<1>2. raw \in Seq(Chars)
  <2> HIDE DEF from
  <2> QED BY <1>1, PartOf
<1>3. GetField(raw, s.double_quote) \in Seq(Chars)
  <2> HIDE DEF raw
  <2> QED BY <1>2, GetFieldType
<1> DEFINE field == GetField(raw, s.double_quote)
<1>4. t = [s EXCEPT !.current_row = Append(@, field), !.field_start = Uninitialized,
                    !.field_length = 0, !.double_quote = FALSE]
  BY DEF PushField
<1> HIDE DEF field, raw, from
<1>5. IsParser(s) /\ field \in Seq(Chars)
  BY <1>3 DEF Parsing, field
<1>6. Append(s.current_row, field) \in Row
  BY <1>5 DEF IsParser, Row
<1> QED BY <1>4, <1>5, <1>6 DEF IsParser, ParserFields

\* A set of integers with a lower bound has a least one.
LEMMA MinOf ==
  ASSUME NEW a \in Int, NEW Q, Q \subseteq Int, Q # {}, \A m \in Q : a <= m
  PROVE  Min(Q) \in Q /\ \A m \in Q : Min(Q) <= m
<1> SUFFICES ASSUME \A m \in Q : \E n \in Q : n < m PROVE FALSE
  <2>1. ASSUME NEW m \in Q, \A n \in Q : ~(n < m)
        PROVE  Min(Q) \in Q /\ \A k \in Q : Min(Q) <= k
    <3>1. \A n \in Q : m <= n
      BY <2>1
    <3> QED BY <3>1 DEF Min
  <2> QED BY <2>1
<1>1. PICK b \in Q : TRUE
  OBVIOUS
<1> DEFINE K == {n \in Nat : \A m \in Q : m - a > n}
<1>2. 0 \in K
  <2>1. \A m \in Q : m - a > 0
    OBVIOUS
  <2> QED BY <2>1
<1>3. \A n \in Nat : n \in K => n + 1 \in K
  OBVIOUS
<1>4. Nat \subseteq K
  <2> HIDE DEF K
  <2> QED BY <1>2, <1>3, Induction
<1>5. b - a \in Nat
  BY <1>1
<1>6. b - a \in K
  <2> HIDE DEF K
  <2> QED BY <1>4, <1>5
<1> QED BY <1>1, <1>6

LEMMA MinOfNaturals ==
  ASSUME NEW Q, Q \subseteq Nat, Q # {}
  PROVE  Min(Q) \in Q
<1> DEFINE a == 0
<1>1. a \in Int /\ Q \subseteq Int /\ \A m \in Q : a <= m
  OBVIOUS
<1> HIDE DEF a
<1> QED BY <1>1, MinOf

\* One of finitely many integers is the largest.
LEMMA Largest ==
  ASSUME NEW n \in Nat \ {0}, NEW f \in [1..n -> Int]
  PROVE  \E k \in 1..n : \A j \in 1..n : f[j] <= f[k]
<1> DEFINE K == {m \in Nat : m + 1 <= n =>
                   \E k \in 1..(m + 1) : \A j \in 1..(m + 1) : f[j] <= f[k]}
<1>1. 0 \in K
  <2>1. \A j \in 1..(0 + 1) : f[j] <= f[1]
    <3>1. \A j \in 1..(0 + 1) : j = 1
      OBVIOUS
    <3> QED BY <3>1
  <2>2. 1 \in 1..(0 + 1)
    OBVIOUS
  <2> QED BY <2>1, <2>2
<1>2. ASSUME NEW m \in Nat, m \in K PROVE m + 1 \in K
  <2> SUFFICES ASSUME (m + 1) + 1 <= n
               PROVE  \E k \in 1..((m + 1) + 1) : \A j \in 1..((m + 1) + 1) : f[j] <= f[k]
    OBVIOUS
  <2>1. PICK k \in 1..(m + 1) : \A j \in 1..(m + 1) : f[j] <= f[k]
    BY <1>2
  <2> DEFINE l == (m + 1) + 1
  <2>2. \A j \in 1..l : j \in 1..(m + 1) \/ j = l
    OBVIOUS
  <2>3. k \in 1..l /\ l \in 1..l /\ l \in 1..n /\ k \in 1..n
    OBVIOUS
  <2> HIDE DEF l
  <2>4. f[k] \in Int /\ f[l] \in Int
    BY <2>3
  <2>5. CASE f[l] <= f[k]
    BY <2>1, <2>2, <2>3, <2>5 DEF l
  <2>6. CASE f[k] < f[l]
    <3>1. \A j \in 1..(m + 1) : f[j] \in Int
      OBVIOUS
    <3>2. \A j \in 1..(m + 1) : f[j] <= f[l]
      BY <2>1, <2>4, <2>6, <3>1
    <3>3. \A j \in 1..l : f[j] <= f[l]
      BY <3>2, <2>2, <2>4
    <3> QED BY <3>3, <2>3 DEF l
  <2> QED BY <2>4, <2>5, <2>6
<1>3. Nat \subseteq K
  <2> HIDE DEF K
  <2> QED BY <1>1, <1>2, Induction
<1>4. n - 1 \in K /\ (n - 1) + 1 = n
  <2> HIDE DEF K
  <2> QED BY <1>3
<1> QED BY <1>4

LEMMA MinOfPair ==
  ASSUME NEW a \in Int, NEW b \in Int
  PROVE  Min({a, b}) = IF a <= b THEN a ELSE b
BY DEF Min

\* The characters behind a position that belong to its run.
LEMMA RunOf ==
  ASSUME NEW data \in Seq(Chars), NEW pos \in Nat, pos <= Len(data), NEW Q,
         Q \subseteq pos..Len(data), Len(data) \in Q
  PROVE  Min(Q) \in pos..Len(data)
<1>1. pos \in Int /\ Len(data) \in Int
  OBVIOUS
<1>2. Min(Q) \in Q
  <2>1. Q \subseteq Int /\ Q # {} /\ \A m \in Q : pos <= m
    BY <1>1
  <2> QED BY <1>1, <2>1, MinOf
<1> QED BY <1>2

LEMMA DelimiterParses ==
  ASSUME NEW data \in Seq(Chars), NEW s, Parsing(data, s), s.pos < Len(data), ~s.quote_escape
  PROVE  Parsing(data, AtDelimiter(data, s))
<1> DEFINE t == PushField(data, s)
<1>1. /\ IsParser(t) /\ t.pos = s.pos /\ t.row_start = s.row_start
      /\ t.field_start = Uninitialized /\ t.field_length = 0 /\ ~t.quote_escape
  BY PushFieldParses
<1>2. AtDelimiter(data, s) = [t EXCEPT !.pos = @ + 1]
  BY DEF AtDelimiter
<1> HIDE DEF t
<1>3. s.pos \in Nat /\ s.row_start \in Nat /\ s.row_start <= s.pos /\ Len(data) \in Nat
  BY DEF Parsing, IsParser
<1> QED BY <1>1, <1>2, <1>3 DEF Parsing, IsParser, ParserFields

LEMMA NewlineParses ==
  ASSUME NEW data \in Seq(Chars), NEW delim, NEW s, Parsing(data, s), s.pos < Len(data),
         ~s.quote_escape
  PROVE  Parsing(data, AtNewline(data, delim, s))
<1> DEFINE t == PushField(data, s)
           Q == {q \in s.pos..Len(data) :
                   q = Len(data) \/ ~(ParseFlag(data[q + 1], delim) = "NEWLINE")}
           next == Min(Q)
           u == PushRow(t)
<1>1. /\ IsParser(t) /\ t.pos = s.pos
      /\ t.field_start = Uninitialized /\ t.field_length = 0 /\ ~t.quote_escape
  BY PushFieldParses
<1>2. s.pos \in Nat /\ s.pos <= Len(data) /\ Len(data) \in Nat
  BY DEF Parsing, IsParser
<1>3. next \in s.pos..Len(data)
  <2>1. Q \subseteq s.pos..Len(data) /\ Len(data) \in Q
    BY <1>2
  <2> HIDE DEF Q
  <2> QED BY <1>2, <2>1, RunOf
<1>4. AtNewline(data, delim, s) =
        [u EXCEPT !.pos = next, !.row_start = next, !.current_row = << >>]
  BY DEF AtNewline, RunEnd
<1>5. u = [t EXCEPT !.rows = Append(@, t.current_row)]
  BY DEF PushRow
<1> HIDE DEF t, next, u
<1>6. Append(t.rows, t.current_row) \in Seq(Row) /\ << >> \in Row
  BY <1>1 DEF IsParser, Row
<1>7. /\ IsParser(u) /\ u.field_start = Uninitialized /\ u.field_length = 0 /\ ~u.quote_escape
  BY <1>1, <1>5, <1>6 DEF IsParser, ParserFields
<1> DEFINE v == [u EXCEPT !.pos = next, !.row_start = next, !.current_row = << >>]
<1>8. next \in Nat /\ next <= Len(data)
  BY <1>2, <1>3
<1>9. /\ DOMAIN v = ParserFields /\ v.pos = next /\ v.row_start = next
      /\ v.current_row = << >> /\ v.field_start = Uninitialized /\ v.field_length = 0
      /\ v.quote_escape = u.quote_escape /\ v.double_quote = u.double_quote
      /\ v.rows = u.rows
  BY <1>7 DEF IsParser, ParserFields
<1> HIDE DEF v
<1>10. IsParser(v) /\ ~v.quote_escape
  BY <1>6, <1>7, <1>8, <1>9 DEF IsParser, Uninitialized
<1>11. Parsing(data, v)
  BY <1>8, <1>9, <1>10 DEF Parsing
<1> QED BY <1>4, <1>11 DEF v

LEMMA PlainParses ==
  ASSUME NEW data \in Seq(Chars), NEW delim, NEW s, Parsing(data, s), s.pos < Len(data)
  PROVE  Parsing(data, AtPlain(data, delim, s))
<1> DEFINE Q == {q \in s.pos..Len(data) :
                   q = Len(data) \/
                   ~(CompoundParseFlag(data[q + 1], delim, s.quote_escape) = "NOT_SPECIAL")}
           next == Min(Q)
           start == IF s.field_start = Uninitialized THEN s.pos - s.row_start
                    ELSE s.field_start
<1>1. /\ s.pos \in Nat /\ s.pos <= Len(data) /\ Len(data) \in Nat
      /\ s.row_start \in Nat /\ s.row_start <= s.pos /\ s.field_length \in Nat
  BY DEF Parsing, IsParser
<1>2. next \in s.pos..Len(data)
  <2>1. Q \subseteq s.pos..Len(data) /\ Len(data) \in Q
    BY <1>1
  <2> HIDE DEF Q
  <2> QED BY <1>1, <2>1, RunOf
<1>3. start \in Nat /\ s.row_start + start <= s.pos
  BY <1>1 DEF Parsing, IsParser, Uninitialized
<1>4. AtPlain(data, delim, s) =
        [s EXCEPT !.field_start = start, !.pos = next, !.field_length = next - (start + s.row_start)]
  BY DEF AtPlain, RunEnd
<1> HIDE DEF next, start
<1>5. next - (start + s.row_start) \in Nat /\ next \in Nat /\ s.row_start <= next
      /\ s.row_start + start + (next - (start + s.row_start)) <= next /\ start # -1
  BY <1>1, <1>2, <1>3
<1>6. IsParser(s)
  BY DEF Parsing
<1> QED BY <1>1, <1>2, <1>3, <1>4, <1>5, <1>6 DEF Parsing, IsParser, ParserFields, Uninitialized

LEMMA QuoteParses ==
  ASSUME NEW data \in Seq(Chars), NEW s, Parsing(data, s), s.pos < Len(data), ~s.quote_escape
  PROVE  Parsing(data, AtQuote(data, s))
<1>1. /\ s.pos \in Nat /\ s.pos <= Len(data) /\ Len(data) \in Nat
      /\ s.row_start \in Nat /\ s.row_start <= s.pos /\ s.field_length \in Nat
      /\ IsParser(s)
  BY DEF Parsing, IsParser
<1>2. CASE s.field_length = 0
  <2> DEFINE start == IF s.field_start = Uninitialized /\ s.pos + 1 < Len(data)
                      THEN s.pos + 1 - s.row_start ELSE s.field_start
  <2>1. AtQuote(data, s) = [s EXCEPT !.quote_escape = TRUE, !.pos = @ + 1, !.field_start = start]
    BY <1>2 DEF AtQuote
  <2>2. /\ start \in Nat \cup {Uninitialized}
        /\ start # Uninitialized => s.row_start + start + 0 <= s.pos + 1
        /\ start = Uninitialized => s.pos + 1 = Len(data)
    <3>1. CASE s.field_start = Uninitialized /\ s.pos + 1 < Len(data)
      <4>1. start = s.pos + 1 - s.row_start
        BY <3>1
      <4>2. start \in Nat /\ s.row_start + start = s.pos + 1
        BY <1>1, <4>1
      <4> HIDE DEF start
      <4> QED BY <1>1, <4>2 DEF Uninitialized
    <3>2. CASE ~(s.field_start = Uninitialized /\ s.pos + 1 < Len(data))
      <4>1. start = s.field_start
        BY <3>2
      <4>2. s.field_start \in Nat \cup {Uninitialized}
        BY DEF Parsing, IsParser
      <4>3. s.field_start # Uninitialized => s.row_start + s.field_start + 0 <= s.pos
        BY <1>2 DEF Parsing
      <4> HIDE DEF start
      <4> QED BY <1>1, <3>2, <4>1, <4>2, <4>3 DEF Uninitialized
    <3> QED BY <3>1, <3>2
  <2> HIDE DEF start
  <2> QED BY <1>1, <1>2, <2>1, <2>2 DEF Parsing, IsParser, ParserFields
<1>3. CASE s.field_length # 0
  <2>1. AtQuote(data, s) = [s EXCEPT !.field_length = @ + 1, !.pos = @ + 1]
    BY <1>3 DEF AtQuote
  <2>2. s.field_start # Uninitialized
    BY <1>3 DEF Parsing
  <2>3. s.row_start + s.field_start + (s.field_length + 1) <= s.pos + 1
    BY <1>1, <2>2 DEF Parsing, IsParser
  <2> QED BY <1>1, <2>1, <2>2, <2>3 DEF Parsing, IsParser, ParserFields
<1> QED BY <1>2, <1>3

LEMMA QuoteInQuotesParses ==
  ASSUME NEW data \in Seq(Chars), NEW delim, NEW s, Parsing(data, s), s.pos < Len(data),
         s.quote_escape = TRUE
  PROVE  Parsing(data, AtQuoteInQuotes(data, delim, s))
<1>1. /\ s.pos \in Nat /\ s.pos <= Len(data) /\ Len(data) \in Nat
      /\ s.row_start \in Nat /\ s.row_start <= s.pos /\ s.field_length \in Nat
      /\ IsParser(s) /\ s.field_start # Uninitialized /\ s.field_start \in Nat
      /\ s.row_start + s.field_start + s.field_length <= s.pos
  BY DEF Parsing, IsParser
<1>2. CASE s.pos + 1 = Len(data)
  BY <1>2 DEF AtQuoteInQuotes
<1>3. CASE s.pos + 1 # Len(data)
  <2> DEFINE flag == ParseFlag(data[s.pos + 2], delim)
  <2>1. s.pos + 2 <= Len(data)
    BY <1>1, <1>3
  <2>2. CASE flag \in {"DELIMITER", "NEWLINE"}
    <3>1. AtQuoteInQuotes(data, delim, s) = [s EXCEPT !.quote_escape = FALSE, !.pos = @ + 1]
      BY <1>3, <2>2 DEF AtQuoteInQuotes
    <3> QED BY <1>1, <2>1, <3>1 DEF Parsing, IsParser, ParserFields
  <2>3. CASE flag = "QUOTE"
    <3>1. AtQuoteInQuotes(data, delim, s) =
            [s EXCEPT !.pos = @ + 2, !.field_length = @ + 2, !.double_quote = TRUE]
      BY <1>3, <2>3 DEF AtQuoteInQuotes
    <3>2. s.row_start + s.field_start + (s.field_length + 2) <= s.pos + 2
      BY <1>1
    <3>3. s.pos + 2 <= Len(data) /\ s.row_start <= s.pos + 2 /\ s.pos + 2 \in Nat
      BY <1>1, <2>1
    <3> QED BY <1>1, <3>1, <3>2, <3>3 DEF Parsing, IsParser, ParserFields
  <2>4. CASE flag \notin {"DELIMITER", "NEWLINE", "QUOTE"}
    <3>1. AtQuoteInQuotes(data, delim, s) = [s EXCEPT !.field_length = @ + 1, !.pos = @ + 1]
      BY <1>3, <2>4 DEF AtQuoteInQuotes
    <3>2. s.row_start + s.field_start + (s.field_length + 1) <= s.pos + 1
      <4>1. \A i, j, k, n \in Nat : i + j + k <= n => i + j + (k + 1) <= n + 1
        OBVIOUS
      <4> QED BY <1>1, <4>1
    <3>3. s.pos + 1 <= Len(data) /\ s.row_start <= s.pos + 1 /\ s.pos + 1 \in Nat
      BY <1>1, <2>1
    <3> QED BY <1>1, <3>1, <3>2, <3>3 DEF Parsing, IsParser, ParserFields
  <2> QED BY <2>2, <2>3, <2>4
<1> QED BY <1>2, <1>3

\* Whatever the character is.
LEMMA RoundParses ==
  ASSUME NEW data \in Seq(Chars), NEW delim, NEW s, Parsing(data, s)
  PROVE  Parsing(data, Round(data, delim, s))
<1>1. CASE s.pos = Len(data)
  BY <1>1 DEF Round
<1>2. CASE s.pos # Len(data)
  <2> DEFINE flag == CompoundParseFlag(data[s.pos + 1], delim, s.quote_escape)
  <2>1. s.pos < Len(data) /\ s.quote_escape \in BOOLEAN
    BY <1>2 DEF Parsing, IsParser
  <2>2. /\ flag \in {"DELIMITER", "NEWLINE", "QUOTE", "NOT_SPECIAL", "QUOTE_ESCAPE_QUOTE"}
        /\ flag \in {"DELIMITER", "NEWLINE", "QUOTE"} => ~s.quote_escape
        /\ flag = "QUOTE_ESCAPE_QUOTE" => s.quote_escape = TRUE
    BY <2>1 DEF CompoundParseFlag, ParseFlag
  <2> HIDE DEF flag
  <2>3. /\ flag = "DELIMITER" => Round(data, delim, s) = AtDelimiter(data, s)
        /\ flag = "NEWLINE" => Round(data, delim, s) = AtNewline(data, delim, s)
        /\ flag = "NOT_SPECIAL" => Round(data, delim, s) = AtPlain(data, delim, s)
        /\ flag = "QUOTE" => Round(data, delim, s) = AtQuote(data, s)
        /\ flag = "QUOTE_ESCAPE_QUOTE" => Round(data, delim, s) = AtQuoteInQuotes(data, delim, s)
    BY <1>2 DEF Round, flag
  <2> QED BY <2>1, <2>2, <2>3, DelimiterParses, NewlineParses, PlainParses, QuoteParses,
             QuoteInQuotesParses
<1> QED BY <1>1, <1>2

\* The rows behind the end of the file.
LEMMA EndFeedParses ==
  ASSUME NEW data \in Seq(Chars), NEW delim, NEW s, Parsing(data, s)
  PROVE  LET t == EndFeed(data, delim, s)
         IN IsParser(t) /\ t.pos = s.pos /\ t.row_start = s.row_start
<1> DEFINE pushes == \/ s.field_length > 0
                     \/ data # << >> /\ ParseFlag(Last(data), delim) \in {"DELIMITER", "QUOTE"}
           t == IF pushes THEN PushField(data, s) ELSE s
           u == IF t.current_row # << >> THEN PushRow(t) ELSE t
<1>1. EndFeed(data, delim, s) = u
  BY DEF EndFeed
<1>2. IsParser(t) /\ t.pos = s.pos /\ t.row_start = s.row_start
  BY PushFieldParses DEF Parsing
<1> HIDE DEF t, pushes
<1>3. Append(t.rows, t.current_row) \in Seq(Row)
  BY <1>2 DEF IsParser
<1>4. IsParser(u) /\ u.pos = t.pos /\ u.row_start = t.row_start
  BY <1>2, <1>3 DEF IsParser, ParserFields, PushRow
<1> HIDE DEF u
<1> QED BY <1>1, <1>2, <1>4

\* g are the states of the parser, one round after the other.
IsParse(data, delim, b, g, m) ==
  g = [n \in 0..m |-> IF n = 0 THEN FreshParser(b) ELSE Round(data, delim, g[n - 1])]

LEMMA ParseExists ==
  ASSUME NEW data, NEW delim, NEW b, NEW m \in Nat
  PROVE  \E g : IsParse(data, delim, b, g, m)
<1> DEFINE K == {n \in Nat : \E g : IsParse(data, delim, b, g, n)}
<1>1. 0 \in K
  <2> DEFINE g == [n \in 0..0 |-> FreshParser(b)]
  <2>1. \A n \in 0..0 : n = 0
    OBVIOUS
  <2>2. IsParse(data, delim, b, g, 0)
    BY <2>1 DEF IsParse
  <2> HIDE DEF g
  <2> QED BY <2>2
<1>2. ASSUME NEW n \in Nat, n \in K PROVE n + 1 \in K
  <2>1. PICK g : IsParse(data, delim, b, g, n)
    BY <1>2
  <2> DEFINE h == [k \in 0..(n + 1) |->
                     IF k = 0 THEN FreshParser(b) ELSE Round(data, delim, g[k - 1])]
  <2>2. \A k \in 0..n : h[k] = g[k]
    <3>1. \A k \in 0..n : g[k] = IF k = 0 THEN FreshParser(b) ELSE Round(data, delim, g[k - 1])
      BY <2>1, Zenon DEF IsParse
    <3>2. \A k \in 0..n : k \in 0..(n + 1)
      OBVIOUS
    <3> QED BY <3>1, <3>2, Zenon
  <2>3. \A k \in 0..(n + 1) : k # 0 => h[k - 1] = g[k - 1]
    <3>1. \A k \in 0..(n + 1) : k # 0 => k - 1 \in 0..n
      OBVIOUS
    <3> HIDE DEF h
    <3> QED BY <2>2, <3>1
  <2>4. IsParse(data, delim, b, h, n + 1)
    BY <2>3, Zenon DEF IsParse
  <2> HIDE DEF h
  <2> QED BY <2>4
<1>3. Nat \subseteq K
  <2> HIDE DEF K
  <2> QED BY <1>1, <1>2, Induction
<1> QED BY <1>3

\* A whole text is parsed.
LEMMA ParseParses ==
  ASSUME NEW data \in Seq(Chars), NEW delim, NEW b \in BOOLEAN
  PROVE  Parsing(data, Parse(data, delim, b))
<1> DEFINE L == Len(data)
           g == CHOOSE f : IsParse(data, delim, b, f, L)
<1>1. L \in Nat
  OBVIOUS
<1>2. IsParse(data, delim, b, g, L)
  BY <1>1, ParseExists
<1>3. Parse(data, delim, b) = g[L]
  BY DEF Parse, IsParse
<1> HIDE DEF g, L
<1> DEFINE K == {m \in Nat : m <= L => Parsing(data, g[m])}
<1>4. 0 \in K
  <2>1. g[0] = FreshParser(b)
    BY <1>1, <1>2 DEF IsParse
  <2>2. Parsing(data, g[0])
    BY <2>1, FreshParses
  <2> QED BY <2>2
<1>5. ASSUME NEW m \in Nat, m \in K PROVE m + 1 \in K
  <2> SUFFICES ASSUME m + 1 <= L PROVE Parsing(data, g[m + 1])
    OBVIOUS
  <2>1. Parsing(data, g[m])
    BY <1>1, <1>5
  <2>2. g[m + 1] = Round(data, delim, g[m])
    <3>1. m + 1 \in 0..L /\ m + 1 # 0 /\ (m + 1) - 1 = m
      BY <1>1
    <3> QED BY <3>1, <1>2 DEF IsParse
  <2> QED BY <2>1, <2>2, RoundParses
<1>6. Nat \subseteq K
  <2> HIDE DEF K
  <2> QED BY <1>4, <1>5, Induction
<1> QED BY <1>1, <1>3, <1>6

-----------------------------------------------------------------------------
(* Guessing the format *)

LEMMA HeadRowsType ==
  ASSUME NEW t \in Seq(Chars), NEW d
  PROVE  HeadRows(t, d) \in Seq(Row)
<1> DEFINE m == Min({Len(t), HeadSize})
           head == SubSeq(t, 1, m)
           s == Parse(head, d, FALSE)
<1>1. m \in 0..Len(t)
  <2>1. Len(t) \in Nat /\ HeadSize \in Nat
    BY SizesAssumption
  <2> QED BY <2>1, MinOfPair
<1> HIDE DEF m
<1>2. head \in Seq(Chars)
  <2>1. \A i \in 1..m : t[i] \in Chars
    BY <1>1
  <2> QED BY <1>1, <2>1, SubSeqProperties
<1> HIDE DEF head
<1>3. Parsing(head, s)
  BY <1>2, ParseParses
<1> HIDE DEF s
<1>4. IsParser(EndFeed(head, d, s))
  BY <1>2, <1>3, EndFeedParses
<1>5. HeadRows(t, d) = EndFeed(head, d, s).rows
  BY DEF HeadRows, s, head, m
<1> QED BY <1>4, <1>5 DEF IsParser

LEMMA TallyType ==
  ASSUME NEW rows \in Seq(Row), NEW w
  PROVE  Tally(rows, w) \in Nat
<1> DEFINE Q == {n \in DOMAIN rows : Len(rows[n]) = w}
<1>1. IsFiniteSet(DOMAIN rows)
  BY FS_Interval
<1>2. IsFiniteSet(Q)
  BY <1>1, FS_Subset
<1> HIDE DEF Q
<1>3. Cardinality(Q) \in Nat
  BY <1>2, FS_CardinalityType
<1> QED BY <1>3 DEF Tally, Q

LEMMA ScoreType ==
  ASSUME NEW rows \in Seq(Row)
  PROVE  Score(rows) \in Int
<1> DEFINE L == Len(rows)
           f == [n \in 1..L |-> Len(rows[n]) * Tally(rows, Len(rows[n]))]
           Q == {w * Tally(rows, w) : w \in Widths(rows)} \cup {0}
<1>1. L \in Nat /\ DOMAIN rows = 1..L /\ \A n \in 1..L : Len(rows[n]) \in Nat
  BY DEF Row
<1> HIDE DEF L
<1>2. \A n \in 1..L : Len(rows[n]) * Tally(rows, Len(rows[n])) \in Int
  <2> SUFFICES ASSUME NEW n \in 1..L PROVE Len(rows[n]) * Tally(rows, Len(rows[n])) \in Int
    OBVIOUS
  <2> DEFINE a == Len(rows[n])
             b == Tally(rows, a)
  <2>1. a \in Nat /\ b \in Nat
    BY <1>1, TallyType
  <2> HIDE DEF a, b
  <2>2. a * b \in Int
    BY <2>1
  <2> QED BY <2>2 DEF a, b
<1>3. f \in [1..L -> Int]
  BY <1>2
<1>4. Q = {f[n] : n \in 1..L} \cup {0}
  <2>1. \A x : x \in Q <=> x = 0 \/ \E n \in 1..L : x = f[n]
    BY <1>1 DEF Widths
  <2> HIDE DEF Q, f
  <2> QED BY <2>1
<1> HIDE DEF f, Q
<1>5. \E m \in Q : m \in Int /\ \A x \in Q : m >= x
  <2>1. CASE L = 0
    <3>1. Q = {0}
      BY <1>4, <2>1
    <3> QED BY <3>1
  <2>2. CASE L # 0
    <3>1. PICK k \in 1..L : \A j \in 1..L : f[j] <= f[k]
      BY <1>1, <1>3, <2>2, Largest
    <3>2. \A j \in 1..L : f[j] \in Int
      BY <1>3
    <3>3. CASE f[k] >= 0
      BY <3>1, <3>2, <3>3, <1>4
    <3>4. CASE f[k] < 0
      <4>1. \A j \in 1..L : 0 >= f[j]
        BY <3>1, <3>2, <3>4
      <4> QED BY <4>1, <1>4
    <3> QED BY <3>2, <3>3, <3>4
  <2> QED BY <2>1, <2>2
<1>6. Max(Q) \in Q /\ Q \subseteq Int
  <2>1. Max(Q) \in Q
    BY <1>5 DEF Max
  <2>2. \A n \in 1..L : f[n] \in Int
    BY <1>3
  <2>3. Q \subseteq Int
    BY <2>2, <1>4
  <2> QED BY <2>1, <2>3
<1>7. Score(rows) = Max(Q)
  BY DEF Score, Q
<1> QED BY <1>6, <1>7

LEMMA HeaderRowsType ==
  ASSUME NEW rows \in Seq(Row)
  PROVE  HeaderRows(rows) \subseteq Nat
<1> SUFFICES ASSUME NEW w \in Widths(rows)
             PROVE  Min({n \in DOMAIN rows : Len(rows[n]) = w}) - 1 \in Nat
  BY DEF HeaderRows
<1> DEFINE Q == {n \in DOMAIN rows : Len(rows[n]) = w}
<1>1. Q \subseteq Nat /\ Q # {} /\ \A m \in Q : m >= 1
  BY DEF Widths
<1> HIDE DEF Q
<1>2. Min(Q) \in Q
  BY <1>1, MinOfNaturals
<1> DEFINE m == Min(Q)
<1> HIDE DEF m
<1>3. m \in Nat /\ m >= 1
  BY <1>1, <1>2 DEF m
<1>4. m - 1 \in Nat
  BY <1>3
<1> QED BY <1>4 DEF m, Q

LEMMA FormatsType ==
  ASSUME NEW t \in Seq(Chars)
  PROVE  Formats(t) \subseteq [delim : ToSet(Delims), header : Nat]
<1> DEFINE L == Len(Delims)
           score == [i \in DOMAIN Delims |-> Score(HeadRows(t, Delims[i]))]
           Q == {i \in DOMAIN Delims : \A j \in DOMAIN Delims : score[j] <= score[i]}
           best == Min(Q)
<1>1. L \in Nat \ {0} /\ DOMAIN Delims = 1..L /\ \A i \in 1..L : Delims[i] \in ToSet(Delims)
  BY DelimsAssumption DEF ToSet
<1> HIDE DEF L
<1>2. score \in [1..L -> Int]
  BY <1>1, HeadRowsType, ScoreType
<1>3. Q # {} /\ Q \subseteq 1..L
  <2> HIDE DEF score
  <2> QED BY <1>1, <1>2, Largest
<1> HIDE DEF Q
<1>4. best \in 1..L
  <2>1. Q \subseteq Nat
    BY <1>1, <1>3
  <2>2. best \in Q
    BY <1>3, <2>1, MinOfNaturals
  <2> QED BY <1>3, <2>2
<1> HIDE DEF best
<1>5. HeaderRows(HeadRows(t, Delims[best])) \subseteq Nat
  BY HeadRowsType, HeaderRowsType
<1>6. GuessFormat(t) = IF score[best] = 0 THEN {[delim |-> Delims[1], header |-> 0]}
        ELSE {[delim |-> Delims[best], header |-> h] : h \in HeaderRows(HeadRows(t, Delims[best]))}
  BY DEF GuessFormat, best, Q
<1>7. 1 \in 1..L
  BY <1>1
<1>8. Delims[1] \in ToSet(Delims) /\ Delims[best] \in ToSet(Delims)
  BY <1>1, <1>4, <1>7
<1> HIDE DEF score
<1>9. GuessFormat(t) \subseteq [delim : ToSet(Delims), header : Nat]
  BY <1>5, <1>6, <1>8
<1> QED BY <1>8, <1>9 DEF Formats

-----------------------------------------------------------------------------
(* Types *)

\* The chunk in hand lies in the file, and the parser in the chunk.
Typed ==
  /\ TypeOK
  /\ IsParser(parser)
  /\ worker \in {"parse", "feed"} => length <= mmap_pos /\ Parsing(Data, parser)

LEMMA DataIs ==
  ASSUME TypeOK, length <= mmap_pos
  PROVE  Data \in Seq(Chars) /\ Len(Data) = length
<1>1. text \in Seq(Chars) /\ mmap_pos \in Nat /\ mmap_pos <= Len(text) /\ length \in Nat
  BY FilesAssumption, SizesAssumption DEF TypeOK
<1> DEFINE from == mmap_pos - length
<1>2. from \in Nat /\ from + length = mmap_pos
  BY <1>1
<1> HIDE DEF from
<1>3. SubSeq(text, from + 1, from + length) \in Seq(Chars)
      /\ Len(SubSeq(text, from + 1, from + length)) = length
  BY <1>1, <1>2, PartOf
<1> QED BY <1>2, <1>3 DEF Data, from

LEMMA TypedInit == Init => Typed
<1> SUFFICES ASSUME Init PROVE Typed
  OBVIOUS
<1>1. text \in Seq(Chars)
  BY FilesAssumption DEF Init
<1>2. format \in [delim : ToSet(Delims), header : Nat]
  BY <1>1, FormatsType DEF Init
<1>3. IsParser(parser) /\ parser.pos = 0 /\ parser.current_row \in Row
  BY DEF Init, IsParser, ParserFields, FreshParser, Row, Uninitialized
<1>4. records \in Seq(Row) /\ delivered \in Seq(Row)
  BY DEF Init
<1>5. length \in 0..Chunk /\ mmap_pos \in 0..Len(text)
  BY <1>1, SizesAssumption DEF Init
<1>6. text \in Files /\ parser.pos \in 0..length
  <2>1. length = 0 /\ text \in Files
    BY DEF Init
  <2> QED BY <1>3, <2>1
<1>7. {waitable, asleep, eof, header_trimmed} \subseteq BOOLEAN /\ n_cols \in Nat
      /\ worker = "start" /\ main = "construct"
  BY DEF Init
<1>8. TypeOK
  BY <1>2, <1>3, <1>4, <1>5, <1>6, <1>7 DEF TypeOK
<1> QED BY <1>3, <1>7, <1>8 DEF Typed

\* Rows go to the queue, whatever else the parser has become.
LEMMA PushedTypes ==
  ASSUME NEW s, IsParser(s), records \in Seq(Row), asleep \in BOOLEAN, Pushed(s)
  PROVE  /\ records' \in Seq(Row) /\ asleep' \in BOOLEAN /\ IsParser(parser')
         /\ parser'.pos = s.pos /\ parser'.row_start = s.row_start
         /\ \A data : Parsing(data, s) => Parsing(data, parser')
<1>1. s.rows \in Seq(Row) /\ parser' = [s EXCEPT !.rows = << >>]
  BY DEF IsParser, Pushed
<1>2. records' \in Seq(Row)
  <2>1. CASE s.rows = << >>
    BY <2>1 DEF Pushed
  <2>2. CASE s.rows # << >>
    <3>1. records' = records \o s.rows
      BY <2>2 DEF Pushed
    <3>2. \A q \in Seq(Row) : records \o q \in Seq(Row)
      OBVIOUS
    <3> QED BY <1>1, <3>1, <3>2
  <2> QED BY <2>1, <2>2
<1>3. asleep' \in BOOLEAN
  BY DEF Pushed
<1>4. IsParser(parser') /\ parser'.pos = s.pos /\ parser'.row_start = s.row_start
      /\ parser'.field_start = s.field_start /\ parser'.field_length = s.field_length
      /\ parser'.quote_escape = s.quote_escape
  BY <1>1 DEF IsParser, ParserFields
<1>5. \A data : Parsing(data, s) => Parsing(data, parser')
  BY <1>4 DEF Parsing
<1> QED BY <1>2, <1>3, <1>4, <1>5

LEMMA TypedWorker ==
  ASSUME Typed, Running, Worker
  PROVE  Typed'
<1> USE DEF chunk, header
<1>1. TypeOK /\ IsParser(parser)
  BY DEF Typed
<1>2. /\ text \in Seq(Chars) /\ Len(text) \in Nat /\ Chunk \in Nat
      /\ mmap_pos \in 0..Len(text) /\ length \in 0..Chunk
  BY <1>1, FilesAssumption, SizesAssumption DEF TypeOK
<1>3. CASE Announce
  BY <1>1, <1>3 DEF Announce, Typed, TypeOK
<1>4. CASE Crash
  BY <1>1, <1>4 DEF Crash, Typed, TypeOK
<1>5. CASE Map
  <2>1. length' = Min({Len(text) - mmap_pos, Chunk})
    BY <1>5 DEF Map
  <2>2. length' \in 0..Chunk /\ length' <= Len(text) - mmap_pos
    BY <1>2, <2>1, MinOfPair
  <2>3. mmap_pos' = mmap_pos + length' /\ text' = text
    BY <1>5 DEF Map
  <2>4. mmap_pos' \in 0..Len(text) /\ length' <= mmap_pos'
    <3>1. \A L, m, n \in Nat : n <= L - m => m + n \in 0..L /\ n <= m + n
      OBVIOUS
    <3>2. mmap_pos \in Nat /\ length' \in Nat
      BY <1>2, <2>2
    <3> QED BY <1>2, <2>2, <2>3, <3>1, <3>2
  <2>5. parser' = FreshParser(parser.double_quote) /\ parser.double_quote \in BOOLEAN
    BY <1>1, <1>5 DEF Map, IsParser
  <2>6. IsParser(parser') /\ parser'.pos = 0 /\ parser'.current_row \in Row
    BY <2>5 DEF IsParser, ParserFields, FreshParser, Row, Uninitialized
  <2>7. parser'.pos \in 0..length'
    BY <2>2, <2>6
  <2>8. TypeOK'
    BY <1>1, <1>5, <2>2, <2>3, <2>4, <2>6, <2>7 DEF Map, TypeOK
  <2>9. Data' \in Seq(Chars)
    <3> DEFINE from == mmap_pos' - length'
               n == length'
    <3>1. /\ from \in Nat /\ n \in Nat /\ from + n = mmap_pos' /\ from + n <= Len(text)
      <4>1. \A p, m, L \in Nat : m <= p /\ p <= L => p - m \in Nat /\ (p - m) + m = p
        OBVIOUS
      <4>2. mmap_pos' \in Nat /\ length' \in Nat /\ mmap_pos' <= Len(text)
        BY <1>2, <2>2, <2>4
      <4> QED BY <1>2, <2>4, <4>1, <4>2
    <3> HIDE DEF from, n
    <3>2. SubSeq(text, from + 1, from + n) \in Seq(Chars)
      BY <1>2, <3>1, PartOf
    <3>3. Data' = SubSeq(text, from + 1, from + n)
      BY <2>3, <3>1 DEF Data, from, n
    <3> QED BY <3>2, <3>3
  <2>10. Parsing(Data', parser')
    BY <2>5, <2>9, FreshParses
  <2> QED BY <2>4, <2>6, <2>8, <2>10 DEF Typed
<1>6. CASE ParseOn
  <2> DEFINE s == Round(Data, format.delim, parser)
  <2>1. length <= mmap_pos /\ Parsing(Data, parser) /\ Pushed(s)
    BY <1>6 DEF ParseOn, Typed
  <2>2. Data \in Seq(Chars) /\ Len(Data) = length
    BY <1>1, <2>1, DataIs
  <2>3. Parsing(Data, s)
    BY <2>1, <2>2, RoundParses
  <2> HIDE DEF s
  <2>4. IsParser(s) /\ s.pos <= length
    BY <2>2, <2>3 DEF Parsing
  <2>5. /\ records' \in Seq(Row) /\ asleep' \in BOOLEAN /\ IsParser(parser')
        /\ parser'.pos = s.pos /\ Parsing(Data, parser')
    BY <1>1, <2>1, <2>3, <2>4, PushedTypes DEF TypeOK
  <2>6. Data' = Data /\ length' = length /\ mmap_pos' = mmap_pos
    BY <1>6 DEF ParseOn, Data
  <2>7. parser'.pos \in 0..length /\ parser'.current_row \in Row
    BY <1>2, <2>4, <2>5 DEF IsParser
  <2>8. TypeOK'
    BY <1>1, <1>6, <2>5, <2>6, <2>7 DEF ParseOn, TypeOK
  <2> QED BY <2>1, <2>5, <2>6, <2>8 DEF Typed
<1>7. ASSUME worker \in {"parse", "feed"}
      PROVE  /\ length <= mmap_pos /\ Data \in Seq(Chars) /\ Parsing(Data, parser)
             /\ Remainder \in 0..Len(text)
  <2>1. length <= mmap_pos /\ Parsing(Data, parser)
    BY <1>7 DEF Typed
  <2>2. Data \in Seq(Chars) /\ Len(Data) = length
    BY <1>1, <2>1, DataIs
  <2>3. parser.row_start \in Nat /\ parser.row_start <= length
    BY <2>1, <2>2, <1>2 DEF Parsing, IsParser
  <2>4. mmap_pos - (length - parser.row_start) \in 0..Len(text)
    BY <1>2, <2>1, <2>3
  <2> QED BY <2>1, <2>2, <2>4 DEF Remainder
<1>8. CASE ChunkEnds
  <2>1. mmap_pos' \in 0..Len(text)
    BY <1>7, <1>8 DEF ChunkEnds
  <2> QED BY <1>1, <1>8, <2>1 DEF ChunkEnds, Typed, TypeOK
<1>9. CASE FileEnds
  <2>1. Data' = Data /\ UNCHANGED <<mmap_pos, length, parser>> /\ worker = "parse"
    BY <1>9 DEF FileEnds, Data
  <2>2. TypeOK'
    BY <1>1, <1>9 DEF FileEnds, TypeOK
  <2> QED BY <1>1, <1>7, <2>1, <2>2 DEF Typed
<1>10. CASE Feed
  <2> DEFINE s == EndFeed(Data, format.delim, parser)
  <2>1. mmap_pos' \in 0..Len(text) /\ Pushed(s)
    BY <1>7, <1>10 DEF Feed
  <2>2. IsParser(s) /\ s.pos = parser.pos
    BY <1>7, <1>10, EndFeedParses DEF Feed
  <2> HIDE DEF s
  <2>3. /\ records' \in Seq(Row) /\ asleep' \in BOOLEAN /\ IsParser(parser')
        /\ parser'.pos = parser.pos /\ parser'.current_row \in Row
    BY <1>1, <2>1, <2>2, PushedTypes DEF TypeOK, IsParser
  <2> QED BY <1>1, <1>10, <2>1, <2>3 DEF Feed, Typed, TypeOK
<1>11. CASE TrimHeader
  <2>1. records' \in Seq(Row) /\ n_cols' \in Nat
    <3>1. CASE header_trimmed
      BY <1>1, <1>11, <3>1 DEF TrimHeader, TypeOK
    <3>2. CASE ~header_trimmed
      <4>1. records \in Seq(Row) /\ Len(records) \in Nat /\ format.header \in Nat
        BY <1>1 DEF TypeOK
      <4>2. \A i \in (format.header + 2)..Len(records) : records[i] \in Row
        BY <4>1
      <4>3. SubSeq(records, format.header + 2, Len(records)) \in Seq(Row)
        BY <4>1, <4>2, SubSeqProperties
      <4>4. Len(records) > format.header => Len(records[format.header + 1]) \in Nat
        BY <4>1 DEF Row
      <4> QED BY <1>1, <1>11, <3>2, <4>3, <4>4 DEF TrimHeader, TypeOK
    <3> QED BY <3>1, <3>2
  <2> QED BY <1>1, <1>11, <2>1 DEF TrimHeader, Typed, TypeOK
<1>12. CASE Kill
  BY <1>1, <1>12 DEF Kill, Typed, TypeOK
<1> QED BY <1>3, <1>4, <1>5, <1>6, <1>8, <1>9, <1>10, <1>11, <1>12 DEF Worker

LEMMA TypedMain ==
  ASSUME Typed, Running, Main
  PROVE  Typed'
<1> USE DEF chunk, header
<1>1. TypeOK /\ IsParser(parser)
  BY DEF Typed
<1>2. UNCHANGED <<text, format, waitable, eof, mmap_pos, length, parser, header>>
  BY DEF Main, Constructed, Begin, BeginReads, BeginJoined, DropRow, ReadRow, SeesNone,
     SeesWaitable, SeesIdle, SeesEof, SeesMore, Go, Wait, Restart, Destroy
<1>3. worker' = worker \/ worker' \in {"none", "start"}
  BY DEF Main, Constructed, Begin, BeginReads, BeginJoined, DropRow, ReadRow, SeesNone,
     SeesWaitable, SeesIdle, SeesEof, SeesMore, Go, Wait, Restart, Destroy, Join
<1>4. main' = main \/ main' \in {"construct", "begin", "begin_join", "row", "empty", "idle",
                                "wait", "join", "end", "destroyed", "aborted"}
  BY DEF Main, Constructed, Begin, BeginReads, BeginJoined, DropRow, ReadRow, SeesNone,
     SeesWaitable, SeesIdle, SeesEof, SeesMore, Go, Wait, Restart, Destroy
<1>5. asleep' \in BOOLEAN
  BY <1>1 DEF TypeOK, Main, Constructed, Begin, BeginReads, BeginJoined, DropRow, ReadRow,
     SeesNone, SeesWaitable, SeesIdle, SeesEof, SeesMore, Go, Wait, Restart, Destroy
<1>6. records' \in Seq(Row) /\ delivered' \in Seq(Row)
  <2>1. records \in Seq(Row) /\ delivered \in Seq(Row)
    BY <1>1 DEF TypeOK
  <2>2. CASE UNCHANGED <<records, delivered>>
    BY <2>1, <2>2
  <2>3. CASE records # << >> /\ Deliver
    <3>1. Head(records) \in Row /\ Tail(records) \in Seq(Row)
      BY <2>1, <2>3
    <3> QED BY <2>1, <2>3, <3>1 DEF Deliver
  <2>4. CASE records # << >> /\ records' = Tail(records) /\ UNCHANGED delivered
    BY <2>1, <2>4
  <2> QED BY <2>2, <2>3, <2>4 DEF Main, Constructed, Begin, BeginReads, BeginJoined, DropRow,
          ReadRow, SeesNone, SeesWaitable, SeesIdle, SeesEof, SeesMore, Go, Wait, Restart, Destroy
<1>7. TypeOK'
  BY <1>1, <1>2, <1>3, <1>4, <1>5, <1>6 DEF TypeOK
<1>8. Data' = Data
  BY <1>2 DEF Data
<1> QED BY <1>1, <1>2, <1>3, <1>7, <1>8 DEF Typed

LEMMA TypedNext == Typed /\ [Next]_vars => Typed'
<1> SUFFICES ASSUME Typed, [Next]_vars PROVE Typed'
  OBVIOUS
<1>1. CASE UNCHANGED vars
  BY <1>1 DEF vars, chunk, header, Typed, TypeOK, Data
<1>2. CASE Running /\ Worker
  BY <1>2, TypedWorker
<1>3. CASE Running /\ Main
  BY <1>3, TypedMain
<1> QED BY <1>1, <1>2, <1>3 DEF Next, Terminating

\* Types of the reader's variables, and both threads where the code has a line
\* for them: the parser stays inside its chunk and the chunk inside the file.
THEOREM TypeCorrect == Spec => []TypeOK
<1>1. Typed => TypeOK
  BY DEF Typed
<1> QED BY <1>1, TypedInit, TypedNext, PTL DEF Spec

-----------------------------------------------------------------------------
(* No lost wakeup *)

\* Where a worker fills the queue: between its two calls that set the flag.
Filling == {"map", "parse", "feed", "trim", "kill"}

\* The loop waits only while the flag is up, which says where the worker is.
\* The header is gone before the loop begins, so that the queue shrinks under
\* a sleeping loop no more.
Signalled == /\ worker = "crashed" <=> main = "aborted"
             /\ Running => (waitable <=> worker \in Filling)
             /\ asleep /\ Running => main = "wait" /\ waitable /\ ~Enough
             /\ main = "begin" => worker = "none"
             /\ main = "construct" /\ worker \in {"kill", "done"} => header_trimmed
             /\ main \notin {"construct", "aborted"} => header_trimmed

LEMMA SignalledInit == Init => Signalled
  BY DEF Init, Signalled, Filling, Running

\* The worker's part: only pushing, Announce and Kill touch what the loop
\* waits for.
LEMMA SignalledWorker ==
  ASSUME Signalled, Running, Worker
  PROVE  Signalled'
<1> USE DEF Filling, Running
<1>1. ASSUME NEW s, Pushed(s), UNCHANGED <<waitable, main>>
      PROVE  asleep' => asleep /\ ~Enough'
  <2>1. CASE s.rows = << >>
    BY <1>1, <2>1 DEF Pushed, Signalled, Enough
  <2>2. CASE s.rows # << >>
    BY <1>1, <2>2 DEF Pushed
  <2> QED BY <2>1, <2>2
<1>2. CASE Announce
  BY <1>2 DEF Announce, Signalled, header
<1>3. CASE Crash
  BY <1>3 DEF Crash, Signalled, header
<1>4. CASE Map
  BY <1>4 DEF Map, Signalled, header, Enough
<1>5. CASE ParseOn
  <2>1. asleep' => asleep /\ ~Enough'
    BY <1>1, <1>5 DEF ParseOn
  <2> QED BY <1>5, <2>1 DEF ParseOn, Signalled, header
<1>6. CASE ChunkEnds
  BY <1>6 DEF ChunkEnds, Signalled, header, Enough
<1>7. CASE FileEnds
  BY <1>7 DEF FileEnds, Signalled, header, Enough
<1>8. CASE Feed
  <2>1. asleep' => asleep /\ ~Enough'
    BY <1>1, <1>8 DEF Feed
  <2> QED BY <1>8, <2>1 DEF Feed, Signalled, header
<1>9. CASE TrimHeader
  <2>1. asleep => header_trimmed
    BY DEF Signalled
  <2>2. asleep' => asleep /\ UNCHANGED records
    BY <1>9, <2>1 DEF TrimHeader
  <2> QED BY <1>9, <2>2 DEF TrimHeader, Signalled, Enough
<1>10. CASE Kill
  BY <1>10 DEF Kill, Signalled, header
<1> QED BY <1>2, <1>3, <1>4, <1>5, <1>6, <1>7, <1>8, <1>9, <1>10 DEF Worker

\* The loop's part: it falls asleep only in Wait, which holds the lock while it
\* tests, and starts a worker only when the last one has cleared the flag.
LEMMA SignalledMain ==
  ASSUME Signalled, Running, Main
  PROVE  Signalled'
<1> USE DEF Filling, Running
<1>1. CASE Constructed
  BY <1>1 DEF Constructed, Join, Signalled, header, Enough
<1>2. CASE Begin
  BY <1>2 DEF Begin, Deliver, Signalled, header
<1>3. CASE BeginReads
  BY <1>3 DEF BeginReads, Signalled, header
<1>4. CASE BeginJoined
  BY <1>4 DEF BeginJoined, Join, Deliver, Signalled, header
<1>5. CASE DropRow
  BY <1>5 DEF DropRow, Signalled, header
<1>6. CASE ReadRow
  BY <1>6 DEF ReadRow, Deliver, Signalled, header
<1>7. CASE SeesNone \/ SeesWaitable \/ SeesIdle \/ SeesEof \/ SeesMore
  BY <1>7 DEF SeesNone, SeesWaitable, SeesIdle, SeesEof, SeesMore, Go, Signalled,
     header
<1>8. CASE Wait
  BY <1>8 DEF Wait, Signalled, header, Enough
<1>9. CASE Restart
  BY <1>9 DEF Restart, Signalled, header
<1>10. CASE Destroy
  BY <1>10 DEF Destroy, Signalled, header
<1> QED BY <1>1, <1>2, <1>3, <1>4, <1>5, <1>6, <1>7, <1>8, <1>9, <1>10 DEF Main

LEMMA SignalledNext == Signalled /\ [Next]_vars => Signalled'
<1> SUFFICES ASSUME Signalled, [Next]_vars PROVE Signalled'
  OBVIOUS
<1>1. CASE UNCHANGED vars
  BY <1>1 DEF vars, header, Signalled, Filling, Running, Enough
<1>2. CASE Running /\ Worker
  BY <1>2, SignalledWorker
<1>3. CASE Running /\ Main
  BY <1>3, SignalledMain
<1> QED BY <1>1, <1>2, <1>3 DEF Next, Terminating

\* No lost wakeup: read_row() never sleeps in wait() unless a worker is still to
\* push the row or to clear the flag it waits for.
THEOREM AwakeAlways == Spec => []Awake
<1>1. Signalled => Awake
  BY DEF Signalled, Awake, Filling
<1> QED BY <1>1, SignalledInit, SignalledNext, PTL DEF Spec

-----------------------------------------------------------------------------
\* A file of one chunk: its worker ends with eof set, and without eof no other
\* is started but by begin(), which joins it.
Single == NoChunk =>
            /\ worker \in {"feed", "trim", "kill", "done"} => eof
            /\ main \notin {"construct", "aborted"} => eof
            /\ main \notin {"construct", "begin_join", "aborted"} => worker = "none"
            /\ main # "join"

LEMMA SingleInit == Init => Single
  BY DEF Init, Single

LEMMA SingleWorker ==
  ASSUME Single, Running, Worker
  PROVE  Single'
<1>1. CASE Announce \/ Crash \/ Map \/ ParseOn
  BY <1>1 DEF Announce, Crash, Map, ParseOn, Single, NoChunk, Running
<1>2. CASE ChunkEnds
  BY <1>2 DEF ChunkEnds, Single, NoChunk
<1>3. CASE FileEnds
  BY <1>3 DEF FileEnds, Single, NoChunk, Running
<1>4. CASE Feed \/ TrimHeader \/ Kill
  BY <1>4 DEF Feed, TrimHeader, Kill, Single, NoChunk, Running
<1> QED BY <1>1, <1>2, <1>3, <1>4 DEF Worker

LEMMA SingleMain ==
  ASSUME Single, Running, Main
  PROVE  Single'
<1> USE DEF Running
<1>1. CASE Constructed \/ BeginJoined
  BY <1>1 DEF Constructed, BeginJoined, Join, Single, NoChunk
<1>2. CASE Begin \/ BeginReads \/ DropRow \/ ReadRow
  BY <1>2 DEF Begin, BeginReads, DropRow, ReadRow, Single, NoChunk
<1>3. CASE SeesNone \/ SeesWaitable \/ SeesIdle \/ SeesEof \/ SeesMore
  BY <1>3 DEF SeesNone, SeesWaitable, SeesIdle, SeesEof, SeesMore, Go, Single, NoChunk
<1>4. CASE Wait \/ Restart \/ Destroy
  BY <1>4 DEF Wait, Restart, Destroy, Single, NoChunk
<1> QED BY <1>1, <1>2, <1>3, <1>4 DEF Main

LEMMA SingleNext == Single /\ [Next]_vars => Single'
<1> SUFFICES ASSUME Single, [Next]_vars PROVE Single'
  OBVIOUS
<1>1. CASE UNCHANGED vars
  BY <1>1 DEF vars, Single, NoChunk
<1>2. CASE Running /\ Worker
  BY <1>2, SingleWorker
<1>3. CASE Running /\ Main
  BY <1>3, SingleMain
<1> QED BY <1>1, <1>2, <1>3 DEF Next, Terminating

\* A file smaller than a chunk, as all of the program's are, is read by one
\* thread at a time: emptiness, waitable and eof, read without the lock, do not
\* change under the loop.
THEOREM AloneAlways == Spec => []Alone
<1>1. Single => Alone
  BY DEF Single, Alone, Running
<1> QED BY <1>1, SingleInit, SingleNext, PTL DEF Spec

-----------------------------------------------------------------------------
(* The parser goes on *)

\* A round moves the parser ahead, but at the end of the text and in front of a
\* last quote inside quotes.
LEMMA RoundMoves ==
  ASSUME NEW data \in Seq(Chars), NEW delim, NEW s, Parsing(data, s)
  PROVE  \/ /\ Round(data, delim, s) = s
            /\ s.pos # Len(data) =>
                 s.quote_escape /\ s.pos + 1 = Len(data) /\ data[s.pos + 1] = Quote
         \/ Round(data, delim, s).pos > s.pos /\ s.pos < Len(data)
<1>1. CASE s.pos = Len(data)
  BY <1>1 DEF Round
<1>2. CASE s.pos # Len(data)
  <2> DEFINE flag == CompoundParseFlag(data[s.pos + 1], delim, s.quote_escape)
  <2>1. s.pos < Len(data) /\ s.quote_escape \in BOOLEAN /\ IsParser(s)
        /\ s.pos \in Nat /\ Len(data) \in Nat
    BY <1>2 DEF Parsing, IsParser
  <2>2. /\ flag \in {"DELIMITER", "NEWLINE", "QUOTE", "NOT_SPECIAL", "QUOTE_ESCAPE_QUOTE"}
        /\ flag \in {"DELIMITER", "NEWLINE", "QUOTE"} =>
             ~s.quote_escape /\ flag = ParseFlag(data[s.pos + 1], delim)
        /\ flag = "QUOTE_ESCAPE_QUOTE" => s.quote_escape /\ data[s.pos + 1] = Quote
    BY <2>1 DEF CompoundParseFlag, ParseFlag
  <2>3. CASE flag = "DELIMITER"
    <3>1. Round(data, delim, s) = AtDelimiter(data, s)
      BY <1>2, <2>3 DEF Round
    <3> DEFINE t == PushField(data, s)
    <3>2. IsParser(t) /\ t.pos = s.pos
      BY PushFieldParses
    <3>3. AtDelimiter(data, s) = [t EXCEPT !.pos = @ + 1]
      BY DEF AtDelimiter
    <3> HIDE DEF t
    <3> QED BY <2>1, <3>1, <3>2, <3>3 DEF IsParser, ParserFields
  <2>4. CASE flag = "NEWLINE"
    <3>1. Round(data, delim, s) = AtNewline(data, delim, s)
      BY <1>2, <2>4 DEF Round
    <3> DEFINE t == PushRow(PushField(data, s))
               Q == {q \in s.pos..Len(data) :
                       q = Len(data) \/ ~(ParseFlag(data[q + 1], delim) = "NEWLINE")}
    <3>2. DOMAIN t = ParserFields
      <4> DEFINE u == PushField(data, s)
      <4>1. IsParser(u)
        BY PushFieldParses
      <4> HIDE DEF u
      <4>2. DOMAIN PushRow(u) = ParserFields
        BY <4>1 DEF PushRow, IsParser
      <4> QED BY <4>2 DEF u
    <3>3. AtNewline(data, delim, s) =
            [t EXCEPT !.pos = Min(Q), !.row_start = Min(Q), !.current_row = << >>]
      BY DEF AtNewline, RunEnd
    <3>4. Q \subseteq Nat /\ Len(data) \in Q /\ \A q \in Q : q > s.pos
      BY <2>1, <2>2, <2>4
    <3> HIDE DEF t, Q
    <3>5. Min(Q) \in Q
      BY <3>4, MinOfNaturals
    <3> QED BY <2>1, <3>1, <3>2, <3>3, <3>4, <3>5 DEF ParserFields
  <2>5. CASE flag = "NOT_SPECIAL"
    <3>1. Round(data, delim, s) = AtPlain(data, delim, s)
      BY <1>2, <2>5 DEF Round
    <3> DEFINE Q == {q \in s.pos..Len(data) :
                       q = Len(data) \/
                       ~(CompoundParseFlag(data[q + 1], delim, s.quote_escape) = "NOT_SPECIAL")}
               start == IF s.field_start = Uninitialized THEN s.pos - s.row_start
                        ELSE s.field_start
    <3>2. AtPlain(data, delim, s) =
            [s EXCEPT !.field_start = start, !.pos = Min(Q),
                      !.field_length = Min(Q) - (start + s.row_start)]
      BY DEF AtPlain, RunEnd
    <3>3. Q \subseteq Nat /\ Len(data) \in Q /\ \A q \in Q : q > s.pos
      BY <2>1, <2>5
    <3> HIDE DEF Q, start
    <3>4. Min(Q) \in Q
      BY <3>3, MinOfNaturals
    <3> QED BY <2>1, <3>1, <3>2, <3>3, <3>4 DEF IsParser, ParserFields
  <2>6. CASE flag = "QUOTE"
    <3>1. Round(data, delim, s) = AtQuote(data, s)
      BY <1>2, <2>6 DEF Round
    <3>2. AtQuote(data, s).pos = s.pos + 1
      BY <2>1 DEF AtQuote, IsParser, ParserFields
    <3> QED BY <2>1, <3>1, <3>2
  <2>7. CASE flag = "QUOTE_ESCAPE_QUOTE"
    <3>1. Round(data, delim, s) = AtQuoteInQuotes(data, delim, s)
      BY <1>2, <2>7 DEF Round
    <3>2. \/ AtQuoteInQuotes(data, delim, s) = s /\ s.pos + 1 = Len(data)
          \/ AtQuoteInQuotes(data, delim, s).pos \in {s.pos + 1, s.pos + 2}
      BY <2>1 DEF AtQuoteInQuotes, IsParser, ParserFields
    <3> QED BY <2>1, <2>2, <2>7, <3>1, <3>2
  <2> HIDE DEF flag
  <2> QED BY <2>2, <2>3, <2>4, <2>5, <2>6, <2>7
<1> QED BY <1>1, <1>2

\* t is the parser s that has kept the rows r as well.
Alike(r, s, t) ==
  /\ t.rows = r \o s.rows
  /\ t.pos = s.pos /\ t.row_start = s.row_start
  /\ t.field_start = s.field_start /\ t.field_length = s.field_length
  /\ t.quote_escape = s.quote_escape /\ t.double_quote = s.double_quote
  /\ t.current_row = s.current_row

LEMMA PushFieldAlike ==
  ASSUME NEW data, NEW r, NEW s, NEW t, IsParser(s), IsParser(t), Alike(r, s, t)
  PROVE  Alike(r, PushField(data, s), PushField(data, t))
<1> DEFINE from == s.row_start + (IF s.field_start = Uninitialized THEN 0 ELSE s.field_start)
           raw == SubSeq(data, from + 1, from + s.field_length)
           row == Append(s.current_row, GetField(raw, s.double_quote))
<1>1. PushField(data, s) =
        [s EXCEPT !.current_row = row, !.field_start = Uninitialized, !.field_length = 0,
                  !.double_quote = FALSE]
  BY DEF PushField
<1>2. PushField(data, t) =
        [t EXCEPT !.current_row = row, !.field_start = Uninitialized, !.field_length = 0,
                  !.double_quote = FALSE]
  BY DEF PushField, Alike
<1> HIDE DEF row
<1> QED BY <1>1, <1>2 DEF Alike, IsParser, ParserFields

LEMMA PushRowAlike ==
  ASSUME NEW r \in Seq(Row), NEW s, NEW t, IsParser(s), IsParser(t), Alike(r, s, t)
  PROVE  Alike(r, PushRow(s), PushRow(t))
<1>1. s.rows \in Seq(Row) /\ s.current_row \in Row
  BY DEF IsParser
<1>2. \A q \in Seq(Row), x \in Row : Append(r \o q, x) = r \o Append(q, x)
  OBVIOUS
<1>3. Append(r \o s.rows, s.current_row) = r \o Append(s.rows, s.current_row)
  BY <1>1, <1>2
<1> QED BY <1>3 DEF Alike, IsParser, ParserFields, PushRow

\* The rows it has kept make no difference to what the parser does.
LEMMA RoundAlike ==
  ASSUME NEW data \in Seq(Chars), NEW delim, NEW r \in Seq(Row), NEW s, NEW t,
         Parsing(data, s), Parsing(data, t), Alike(r, s, t)
  PROVE  Alike(r, Round(data, delim, s), Round(data, delim, t))
<1>1. IsParser(s) /\ IsParser(t) /\ t.pos = s.pos /\ t.quote_escape = s.quote_escape
  BY DEF Parsing, Alike
<1>2. CASE s.pos = Len(data)
  BY <1>1, <1>2 DEF Round
<1>3. CASE s.pos # Len(data)
  <2> DEFINE flag == CompoundParseFlag(data[s.pos + 1], delim, s.quote_escape)
             ps == PushField(data, s)
             pt == PushField(data, t)
  <2>1. Alike(r, ps, pt) /\ IsParser(ps) /\ IsParser(pt)
    BY <1>1, PushFieldAlike, PushFieldParses
  <2>2. flag \in {"DELIMITER", "NEWLINE", "QUOTE", "NOT_SPECIAL", "QUOTE_ESCAPE_QUOTE"}
    BY <1>1 DEF CompoundParseFlag, ParseFlag
  <2>3. CASE flag = "DELIMITER"
    <3>1. /\ Round(data, delim, s) = [ps EXCEPT !.pos = @ + 1]
          /\ Round(data, delim, t) = [pt EXCEPT !.pos = @ + 1]
      BY <1>1, <1>3, <2>3 DEF Round, AtDelimiter
    <3> HIDE DEF ps, pt
    <3> QED BY <2>1, <3>1 DEF Alike, IsParser, ParserFields
  <2>4. CASE flag = "NEWLINE"
    <3> DEFINE next == RunEnd(data, s.pos, LAMBDA c : ParseFlag(c, delim) = "NEWLINE")
               us == PushRow(ps)
               ut == PushRow(pt)
    <3>1. /\ Round(data, delim, s) =
               [us EXCEPT !.pos = next, !.row_start = next, !.current_row = << >>]
          /\ Round(data, delim, t) =
               [ut EXCEPT !.pos = next, !.row_start = next, !.current_row = << >>]
      BY <1>1, <1>3, <2>4 DEF Round, AtNewline
    <3> HIDE DEF ps, pt, next
    <3>2. Alike(r, us, ut) /\ DOMAIN us = ParserFields /\ DOMAIN ut = ParserFields
      <4>1. DOMAIN us = ParserFields /\ DOMAIN ut = ParserFields
        BY <2>1 DEF IsParser, PushRow
      <4> QED BY <2>1, <4>1, PushRowAlike
    <3> HIDE DEF us, ut
    <3> QED BY <3>1, <3>2 DEF Alike, ParserFields
  <2>5. CASE flag = "NOT_SPECIAL"
    <3> DEFINE start == IF s.field_start = Uninitialized THEN s.pos - s.row_start
                        ELSE s.field_start
               next == RunEnd(data, s.pos, LAMBDA c :
                         CompoundParseFlag(c, delim, s.quote_escape) = "NOT_SPECIAL")
               size == next - (start + s.row_start)
    <3>1. /\ Round(data, delim, s) =
               [s EXCEPT !.field_start = start, !.pos = next, !.field_length = size]
          /\ Round(data, delim, t) =
               [t EXCEPT !.field_start = start, !.pos = next, !.field_length = size]
      BY <1>1, <1>3, <2>5 DEF Round, AtPlain, Alike
    <3> HIDE DEF start, next, size
    <3> QED BY <1>1, <3>1 DEF Alike, IsParser, ParserFields
  <2>6. CASE flag = "QUOTE"
    <3>1. Round(data, delim, s) = AtQuote(data, s) /\ Round(data, delim, t) = AtQuote(data, t)
      BY <1>1, <1>3, <2>6 DEF Round
    <3>2. CASE s.field_length = 0
      <4> DEFINE start == IF s.field_start = Uninitialized /\ s.pos + 1 < Len(data)
                          THEN s.pos + 1 - s.row_start ELSE s.field_start
      <4>1. /\ AtQuote(data, s) =
                 [s EXCEPT !.quote_escape = TRUE, !.pos = @ + 1, !.field_start = start]
            /\ AtQuote(data, t) =
                 [t EXCEPT !.quote_escape = TRUE, !.pos = @ + 1, !.field_start = start]
        BY <3>2 DEF AtQuote, Alike
      <4> HIDE DEF start
      <4> QED BY <1>1, <3>1, <4>1 DEF Alike, IsParser, ParserFields
    <3>3. CASE s.field_length # 0
      <4>1. /\ AtQuote(data, s) = [s EXCEPT !.field_length = @ + 1, !.pos = @ + 1]
            /\ AtQuote(data, t) = [t EXCEPT !.field_length = @ + 1, !.pos = @ + 1]
        BY <3>3 DEF AtQuote, Alike
      <4> QED BY <1>1, <3>1, <4>1 DEF Alike, IsParser, ParserFields
    <3> QED BY <3>2, <3>3
  <2>7. CASE flag = "QUOTE_ESCAPE_QUOTE"
    <3> DEFINE ahead == ParseFlag(data[s.pos + 2], delim)
    <3>1. /\ Round(data, delim, s) = AtQuoteInQuotes(data, delim, s)
          /\ Round(data, delim, t) = AtQuoteInQuotes(data, delim, t)
      BY <1>1, <1>3, <2>7 DEF Round
    <3>2. CASE s.pos + 1 = Len(data)
      BY <1>1, <3>1, <3>2 DEF AtQuoteInQuotes
    <3>3. CASE s.pos + 1 # Len(data) /\ ahead \in {"DELIMITER", "NEWLINE"}
      <4>1. /\ AtQuoteInQuotes(data, delim, s) = [s EXCEPT !.quote_escape = FALSE, !.pos = @ + 1]
            /\ AtQuoteInQuotes(data, delim, t) = [t EXCEPT !.quote_escape = FALSE, !.pos = @ + 1]
        BY <1>1, <3>3 DEF AtQuoteInQuotes
      <4> QED BY <1>1, <3>1, <4>1 DEF Alike, IsParser, ParserFields
    <3>4. CASE s.pos + 1 # Len(data) /\ ahead = "QUOTE"
      <4>1. /\ AtQuoteInQuotes(data, delim, s) =
                 [s EXCEPT !.pos = @ + 2, !.field_length = @ + 2, !.double_quote = TRUE]
            /\ AtQuoteInQuotes(data, delim, t) =
                 [t EXCEPT !.pos = @ + 2, !.field_length = @ + 2, !.double_quote = TRUE]
        BY <1>1, <3>4 DEF AtQuoteInQuotes
      <4> QED BY <1>1, <3>1, <4>1 DEF Alike, IsParser, ParserFields
    <3>5. CASE s.pos + 1 # Len(data) /\ ahead \notin {"DELIMITER", "NEWLINE", "QUOTE"}
      <4>1. /\ AtQuoteInQuotes(data, delim, s) = [s EXCEPT !.field_length = @ + 1, !.pos = @ + 1]
            /\ AtQuoteInQuotes(data, delim, t) = [t EXCEPT !.field_length = @ + 1, !.pos = @ + 1]
        BY <1>1, <3>5 DEF AtQuoteInQuotes
      <4> QED BY <1>1, <3>1, <4>1 DEF Alike, IsParser, ParserFields
    <3> HIDE DEF ahead
    <3> QED BY <3>2, <3>3, <3>4, <3>5
  <2> HIDE DEF flag
  <2> QED BY <2>2, <2>3, <2>4, <2>5, <2>6, <2>7
<1> QED BY <1>2, <1>3

LEMMA EndFeedAlike ==
  ASSUME NEW data \in Seq(Chars), NEW delim, NEW r \in Seq(Row), NEW s, NEW t,
         Parsing(data, s), Parsing(data, t), Alike(r, s, t)
  PROVE  Alike(r, EndFeed(data, delim, s), EndFeed(data, delim, t))
<1> DEFINE pushes == \/ s.field_length > 0
                     \/ data # << >> /\ ParseFlag(Last(data), delim) \in {"DELIMITER", "QUOTE"}
           ps == IF pushes THEN PushField(data, s) ELSE s
           pt == IF pushes THEN PushField(data, t) ELSE t
           us == IF ps.current_row # << >> THEN PushRow(ps) ELSE ps
           ut == IF pt.current_row # << >> THEN PushRow(pt) ELSE pt
<1>1. EndFeed(data, delim, s) = us
  BY DEF EndFeed
<1>2. EndFeed(data, delim, t) = ut
  BY DEF EndFeed, Alike
<1>3. Alike(r, ps, pt) /\ IsParser(ps) /\ IsParser(pt)
  BY PushFieldAlike, PushFieldParses DEF Parsing
<1> HIDE DEF ps, pt, pushes
<1>4. ps.current_row = pt.current_row
  BY <1>3 DEF Alike
<1>5. Alike(r, us, ut)
  BY <1>3, <1>4, PushRowAlike
<1> HIDE DEF us, ut
<1> QED BY <1>1, <1>2, <1>5

-----------------------------------------------------------------------------
(* A file of one chunk *)

\* The states of the parser in a file, and the rows it ends with.
States(t, d) == CHOOSE g : IsParse(t, d, FALSE, g, Len(t))

LEMMA StatesAre ==
  ASSUME NEW t \in Seq(Chars), NEW d
  PROVE  /\ States(t, d)[0] = FreshParser(FALSE)
         /\ \A n \in 0..(Len(t) - 1) : States(t, d)[n + 1] = Round(t, d, States(t, d)[n])
         /\ Parse(t, d, FALSE) = States(t, d)[Len(t)]
         /\ \A n \in 0..Len(t) : Parsing(t, States(t, d)[n])
<1> DEFINE g == States(t, d)
           L == Len(t)
<1>1. L \in Nat
  OBVIOUS
<1>2. IsParse(t, d, FALSE, g, L)
  BY <1>1, ParseExists DEF States
<1>3. Parse(t, d, FALSE) = g[L]
  BY DEF Parse, IsParse, States
<1> HIDE DEF g, L
<1>4. g[0] = FreshParser(FALSE)
  BY <1>1, <1>2 DEF IsParse
<1>5. \A n \in 0..(L - 1) : g[n + 1] = Round(t, d, g[n])
  <2> SUFFICES ASSUME NEW n \in 0..(L - 1) PROVE g[n + 1] = Round(t, d, g[n])
    OBVIOUS
  <2>1. n + 1 \in 0..L /\ n + 1 # 0 /\ (n + 1) - 1 = n
    BY <1>1
  <2> QED BY <2>1, <1>2 DEF IsParse
<1> DEFINE K == {n \in Nat : n <= L => Parsing(t, g[n])}
<1>6. 0 \in K
  <2>1. Parsing(t, g[0])
    BY <1>4, FreshParses
  <2> QED BY <2>1
<1>7. ASSUME NEW n \in Nat, n \in K PROVE n + 1 \in K
  <2> SUFFICES ASSUME n + 1 <= L PROVE Parsing(t, g[n + 1])
    OBVIOUS
  <2>1. Parsing(t, g[n]) /\ n \in 0..(L - 1)
    BY <1>1, <1>7
  <2> QED BY <2>1, <1>5, RoundParses
<1>8. Nat \subseteq K
  <2> HIDE DEF K
  <2> QED BY <1>6, <1>7, Induction
<1>9. \A n \in 0..L : Parsing(t, g[n])
  BY <1>1, <1>8
<1> QED BY <1>3, <1>4, <1>5, <1>9 DEF g, L

\* Once it stands still, the parser has read the file.
LEMMA ParseStops ==
  ASSUME NEW t \in Seq(Chars), NEW d, NEW n \in 0..Len(t),
         Round(t, d, States(t, d)[n]) = States(t, d)[n]
  PROVE  Parse(t, d, FALSE) = States(t, d)[n]
<1> DEFINE g == States(t, d)
           L == Len(t)
<1>1. L \in Nat /\ n \in 0..L
  OBVIOUS
<1>2. \A k \in 0..(L - 1) : g[k + 1] = Round(t, d, g[k])
  BY StatesAre
<1>3. Parse(t, d, FALSE) = g[L] /\ Round(t, d, g[n]) = g[n]
  BY StatesAre
<1> HIDE DEF g, L
<1> DEFINE K == {m \in Nat : n + m <= L => g[n + m] = g[n]}
<1>4. 0 \in K
  BY <1>1
<1>5. ASSUME NEW m \in Nat, m \in K PROVE m + 1 \in K
  <2> SUFFICES ASSUME n + (m + 1) <= L PROVE g[n + (m + 1)] = g[n]
    OBVIOUS
  <2>1. n + m \in 0..(L - 1) /\ n + m <= L /\ n + (m + 1) = (n + m) + 1
    BY <1>1
  <2>2. g[n + m] = g[n]
    BY <2>1, <1>5
  <2> QED BY <2>1, <2>2, <1>2, <1>3
<1>6. Nat \subseteq K
  <2> HIDE DEF K
  <2> QED BY <1>4, <1>5, Induction
<1>7. L - n \in K /\ n + (L - n) = L
  <2> HIDE DEF K
  <2> QED BY <1>1, <1>6
<1>8. n + (L - n) <= L
  BY <1>1
<1>9. g[n + (L - n)] = g[n]
  BY <1>7, <1>8
<1> HIDE DEF K
<1>10. n + (L - n) = L
  BY <1>1
<1>11. Parse(t, d, FALSE) = g[n]
  BY <1>3, <1>9, <1>10
<1> QED BY <1>11 DEF g

ParsedOf(t, d) == EndFeed(t, d, Parse(t, d, FALSE)).rows

LEMMA ParsedType ==
  ASSUME NEW t \in Seq(Chars), NEW d
  PROVE  ParsedOf(t, d) \in Seq(Row)
<1> DEFINE s == Parse(t, d, FALSE)
<1>1. Parsing(t, s)
  BY ParseParses
<1> HIDE DEF s
<1>2. IsParser(EndFeed(t, d, s))
  BY <1>1, EndFeedParses
<1> QED BY <1>2 DEF ParsedOf, IsParser, s

\* The selection so far.
Selection(s, P) == CHOOSE g : IsSelection(s, P, g, Len(s))

LEMMA SelectionIs ==
  ASSUME NEW S, NEW s \in Seq(S), NEW P
  PROVE  /\ Selection(s, P)[0] = << >>
         /\ \A n \in 0..(Len(s) - 1) : Selection(s, P)[n + 1] =
              IF n + 1 \in P THEN Append(Selection(s, P)[n], s[n + 1]) ELSE Selection(s, P)[n]
         /\ Selected(s, P) = Selection(s, P)[Len(s)]
<1> DEFINE g == Selection(s, P)
           L == Len(s)
<1>1. L \in Nat
  OBVIOUS
<1>2. IsSelection(s, P, g, L)
  BY <1>1, SelectionExists DEF Selection
<1>3. Selected(s, P) = g[L]
  BY DEF Selected, IsSelection, Selection
<1> HIDE DEF g, L
<1>4. g[0] = << >>
  BY <1>1, <1>2 DEF IsSelection
<1>5. \A n \in 0..(L - 1) : g[n + 1] = IF n + 1 \in P THEN Append(g[n], s[n + 1]) ELSE g[n]
  <2> SUFFICES ASSUME NEW n \in 0..(L - 1)
               PROVE  g[n + 1] = IF n + 1 \in P THEN Append(g[n], s[n + 1]) ELSE g[n]
    OBVIOUS
  <2>1. n + 1 \in 0..L /\ n + 1 # 0 /\ (n + 1) - 1 = n
    BY <1>1
  <2> QED BY <2>1, <1>2 DEF IsSelection
<1> QED BY <1>3, <1>4, <1>5 DEF g, L

\* Nothing is selected before the first position.
LEMMA NoneSelected ==
  ASSUME NEW S, NEW s \in Seq(S), NEW P, NEW m \in 0..Len(s), \A n \in 1..m : n \notin P
  PROVE  Selection(s, P)[m] = << >>
<1> DEFINE g == Selection(s, P)
<1>1. /\ g[0] = << >>
      /\ \A n \in 0..(Len(s) - 1) :
           g[n + 1] = IF n + 1 \in P THEN Append(g[n], s[n + 1]) ELSE g[n]
      /\ Len(s) \in Nat
  BY SelectionIs
<1> HIDE DEF g
<1> DEFINE K == {n \in Nat : n <= m => g[n] = << >>}
<1>2. 0 \in K
  BY <1>1
<1>3. ASSUME NEW n \in Nat, n \in K PROVE n + 1 \in K
  <2> SUFFICES ASSUME n + 1 <= m PROVE g[n + 1] = << >>
    OBVIOUS
  <2>1. n \in 0..(Len(s) - 1) /\ n + 1 \in 1..m /\ n <= m
    BY <1>1
  <2> QED BY <2>1, <1>1, <1>3
<1>4. Nat \subseteq K
  <2> HIDE DEF K
  <2> QED BY <1>2, <1>3, Induction
<1> QED BY <1>4 DEF g

Parsed == ParsedOf(text, format.delim)

\* The rows the loop is to be handed: the one behind the header, and those
\* behind that one that are as wide as the header.
Kept == {n \in DOMAIN Parsed :
           \/ n = format.header + 2
           \/ n > format.header + 2 /\ Len(Parsed[n]) = Len(Parsed[format.header + 1])}

\* The worker has the whole file and some of its rows.
FileInHand ==
  /\ mmap_pos = Len(text) /\ length = Len(text)
  /\ \E n \in 0..Len(text) :
       LET s == States(text, format.delim)[n]
       IN n <= s.pos /\ Alike(records, parser, s)

\* The first worker fills the queue with all rows of the file and takes the
\* header off.
Filled ==
  /\ delivered = << >>
  /\ worker \in {"start", "map", "parse", "feed", "trim", "kill", "done"}
  /\ worker \in {"start", "map"} =>
       mmap_pos = 0 /\ records = << >> /\ parser = FreshParser(FALSE)
  /\ worker \in {"start", "map", "parse", "feed", "trim"} => ~header_trimmed
  /\ worker \in {"parse", "feed"} => FileInHand
  /\ worker = "feed" => Stopped
  /\ worker = "trim" => records = Parsed
  /\ worker \in {"kill", "done"} =>
       /\ records = SubSeq(Parsed, format.header + 2, Len(Parsed))
       /\ Len(Parsed) > format.header => n_cols = Len(Parsed[format.header + 1])

\* The loop has dealt with the first k rows of the file; those behind them are in
\* the queue.
Handed ==
  /\ worker = "none"
  /\ main \in {"begin", "row", "empty", "idle", "end", "destroyed"}
  /\ n_cols = Len(Parsed[format.header + 1])
  /\ \E k \in (format.header + 1)..Len(Parsed) :
       /\ records = SubSeq(Parsed, k + 1, Len(Parsed))
       /\ delivered = Selection(Parsed, Kept)[k]
       /\ main = "begin" <=> k = format.header + 1
       /\ main \in {"empty", "idle", "end", "destroyed"} => k = Len(Parsed)

\* What is there once the loop has been handed its rows, if there are any.
Reading ==
  NoChunk /\ Running =>
    /\ main = "construct" => Filled
    /\ main # "construct" /\ Len(Parsed) > format.header + 1 => Handed

LEMMA ReadingInit == Init => Reading
BY DEF Init, Reading, Filled

\* In a file of one chunk the chunk is the file.
LEMMA ChunkIsFile ==
  ASSUME TypeOK, mmap_pos = Len(text), length = Len(text)
  PROVE  Data = text /\ text \in Seq(Chars) /\ Len(text) \in Nat
<1>1. text \in Seq(Chars)
  BY FilesAssumption DEF TypeOK
<1>2. Len(text) \in Nat /\ Len(text) - Len(text) + 1 = 1
  BY <1>1
<1>3. SubSeq(text, 1, Len(text)) = text
  BY <1>1, SubSeqFull
<1> QED BY <1>1, <1>2, <1>3 DEF Data

\* A worker that maps a file of one chunk from its start has it in hand.
LEMMA MapInHand ==
  ASSUME TypeOK, NoChunk, Map, mmap_pos = 0, records = << >>, parser.double_quote = FALSE
  PROVE  FileInHand'
<1>1. text \in Seq(Chars) /\ Len(text) \in Nat
  BY FilesAssumption DEF TypeOK
<1>2. UNCHANGED <<text, format, records>>
  BY DEF Map
<1>3. length' = Len(text) /\ mmap_pos' = Len(text)
  <2>1. length' = Min({Len(text) - mmap_pos, Chunk}) /\ Chunk \in Nat /\ Len(text) < Chunk
    BY SizesAssumption DEF Map, NoChunk
  <2>2. Len(text) - mmap_pos = Len(text)
    BY <1>1
  <2>3. length' = Len(text)
    BY <1>1, <2>1, <2>2, MinOfPair
  <2> QED BY <1>1, <2>3 DEF Map
<1>4. parser' = FreshParser(FALSE)
  BY DEF Map, FreshParser
<1> DEFINE s == States(text, format.delim)[0]
<1>5. s = FreshParser(FALSE)
  BY <1>1, StatesAre
<1>6. s = parser' /\ 0 <= s.pos /\ s.rows = << >>
  BY <1>4, <1>5 DEF FreshParser
<1>7. records \o s.rows = s.rows
  BY <1>6
<1> HIDE DEF s
<1>8. Alike(records, parser', s)
  BY <1>6, <1>7 DEF Alike
<1> QED BY <1>1, <1>2, <1>3, <1>6, <1>8 DEF FileInHand, s

\* A round of the worker is a round of the parser that reads the whole file.
LEMMA RoundInHand ==
  ASSUME Typed, FileInHand, ParseOn
  PROVE  FileInHand'
<1> DEFINE g == States(text, format.delim)
           d == format.delim
           u == Round(text, d, parser)
<1>1. worker = "parse" /\ mmap_pos = Len(text) /\ length = Len(text) /\ TypeOK
  BY DEF ParseOn, FileInHand, Typed
<1>2. Data = text /\ text \in Seq(Chars) /\ Len(text) \in Nat
  BY <1>1, ChunkIsFile
<1>3. PICK n \in 0..Len(text) : n <= g[n].pos /\ Alike(records, parser, g[n])
  BY DEF FileInHand
<1>4. Parsing(text, parser) /\ Parsing(text, g[n])
  BY <1>1, <1>2, StatesAre DEF Typed
<1>5. u # parser /\ Pushed(u)
  BY <1>2 DEF ParseOn, Stopped
<1>6. u.pos > parser.pos /\ parser.pos < Len(text)
  BY <1>2, <1>4, <1>5, RoundMoves
<1>7. g[n].pos = parser.pos /\ parser.pos \in Nat
  BY <1>3, <1>4 DEF Alike, Parsing, IsParser
<1>8. n \in 0..(Len(text) - 1)
  BY <1>2, <1>3, <1>6, <1>7
<1>9. records \in Seq(Row)
  BY <1>1 DEF TypeOK
<1>10. g[n + 1] = Round(text, d, g[n])
  BY <1>2, <1>8, StatesAre
<1> HIDE DEF g, d
<1>11. Alike(records, u, g[n + 1])
  BY <1>2, <1>3, <1>4, <1>9, <1>10, RoundAlike
<1>12. Parsing(text, u)
  BY <1>2, <1>4, RoundParses
<1> HIDE DEF u
<1>13. IsParser(u) /\ u.rows \in Seq(Row) /\ u.pos \in Nat
  BY <1>12 DEF Parsing, IsParser
<1>14. parser' = [u EXCEPT !.rows = << >>] /\ records' = records \o u.rows
  <2>1. CASE u.rows = << >>
    BY <1>5, <1>9, <2>1 DEF Pushed
  <2>2. CASE u.rows # << >>
    BY <1>5, <2>2 DEF Pushed
  <2> QED BY <2>1, <2>2
<1>15. Alike(records', parser', g[n + 1])
  <2>1. records' \o << >> = records' /\ records' \in Seq(Row)
    BY <1>9, <1>13, <1>14
  <2> QED BY <1>11, <1>13, <1>14, <2>1 DEF Alike, IsParser, ParserFields
<1>16. n + 1 <= g[n + 1].pos
  <2>1. g[n + 1].pos = u.pos
    BY <1>11 DEF Alike
  <2> QED BY <2>1, <1>3, <1>6, <1>7, <1>13
<1>17. n + 1 \in 0..Len(text)
  BY <1>2, <1>8
<1>18. UNCHANGED <<text, format, mmap_pos, length>>
  BY DEF ParseOn
<1> QED BY <1>1, <1>15, <1>16, <1>17, <1>18 DEF FileInHand, g, d

\* The end of the file leaves all its rows in the queue.
LEMMA FeedInHand ==
  ASSUME Typed, FileInHand, Stopped, Feed,
         NEW e, e = EndFeed(text, format.delim, Parse(text, format.delim, FALSE))
  PROVE  /\ records' = Parsed
         /\ mmap_pos' = Parse(text, format.delim, FALSE).row_start
         /\ parser'.double_quote = e.double_quote
<1> DEFINE g == States(text, format.delim)
           d == format.delim
           u == EndFeed(text, d, parser)
<1>1. worker = "feed" /\ mmap_pos = Len(text) /\ length = Len(text) /\ TypeOK
  BY DEF Feed, FileInHand, Typed
<1>2. Data = text /\ text \in Seq(Chars) /\ Len(text) \in Nat
  BY <1>1, ChunkIsFile
<1>3. PICK n \in 0..Len(text) : Alike(records, parser, g[n])
  BY DEF FileInHand
<1>4. Parsing(text, parser) /\ Parsing(text, g[n]) /\ records \in Seq(Row)
  BY <1>1, <1>2, StatesAre DEF Typed, TypeOK
<1>5. Round(text, d, g[n]) = g[n]
  <2>1. Alike(records, Round(text, d, parser), Round(text, d, g[n]))
    BY <1>2, <1>3, <1>4, RoundAlike
  <2>2. Round(text, d, parser) = parser
    BY <1>2 DEF Stopped
  <2>3. Round(text, d, g[n]).pos = g[n].pos /\ g[n].pos \in Nat
    BY <1>3, <1>4, <2>1, <2>2 DEF Alike, Parsing, IsParser
  <2> HIDE DEF g, d
  <2> QED BY <1>2, <1>4, <2>3, RoundMoves
<1>6. Parse(text, d, FALSE) = g[n]
  BY <1>2, <1>5, ParseStops
<1>7. Alike(records, u, e)
  <2> DEFINE gn == g[n]
  <2>1. Parsing(text, gn) /\ Alike(records, parser, gn)
    BY <1>3, <1>4
  <2>2. e = EndFeed(text, d, gn)
    BY <1>6
  <2> HIDE DEF gn, d
  <2> QED BY <1>2, <1>4, <2>1, <2>2, EndFeedAlike, Zenon
<1>8. Parsed = records \o u.rows /\ e.double_quote = u.double_quote
  BY <1>7 DEF Parsed, ParsedOf, Alike
<1>9. Pushed(u) /\ mmap_pos' = mmap_pos - (length - parser.row_start)
  BY <1>2 DEF Feed, Remainder
<1>10. IsParser(u)
  BY <1>2, <1>4, EndFeedParses
<1>11. parser.row_start = g[n].row_start /\ parser.row_start \in Nat
  BY <1>3, <1>4 DEF Alike, Parsing, IsParser
<1> HIDE DEF g, d, u
<1>12. records' = records \o u.rows
  <2>1. CASE u.rows = << >>
    BY <1>4, <1>9, <2>1 DEF Pushed
  <2>2. CASE u.rows # << >>
    BY <1>9, <2>2 DEF Pushed
  <2> QED BY <2>1, <2>2
<1>13. parser'.double_quote = u.double_quote
  BY <1>9, <1>10 DEF Pushed, IsParser, ParserFields
<1>14. mmap_pos' = Parse(text, d, FALSE).row_start
  <2>1. \A a, b \in Nat : a - (a - b) = b
    OBVIOUS
  <2>2. mmap_pos' = parser.row_start
    BY <1>1, <1>2, <1>9, <1>11, <2>1
  <2> QED BY <1>6, <1>11, <2>2 DEF d
<1> QED BY <1>8, <1>12, <1>13, <1>14 DEF d

LEMMA ReadingWorker ==
  ASSUME Typed, Signalled, Single, Reading, Running, Worker
  PROVE  Reading'
<1> USE DEF Running, chunk, header
<1> SUFFICES ASSUME NoChunk', main' # "aborted"
             PROVE  /\ main' = "construct" => Filled'
                    /\ main' # "construct" /\ Len(Parsed)' > format'.header + 1 => Handed'
  BY DEF Reading
<1>1. UNCHANGED <<text, format, delivered>> /\ NoChunk
  BY DEF Worker, Announce, Crash, Map, ParseOn, ChunkEnds, FileEnds, Feed, TrimHeader, Kill,
     NoChunk
<1>2. main' = main
  BY DEF Worker, Announce, Crash, Map, ParseOn, ChunkEnds, FileEnds, Feed, TrimHeader, Kill
<1>3. worker # "none" /\ worker # "done"
  BY DEF Worker, Announce, Crash, Map, ParseOn, ChunkEnds, FileEnds, Feed, TrimHeader, Kill
<1>4. Parsed' = Parsed
  BY <1>1 DEF Parsed
<1>5. CASE main # "construct"
  <2>1. Len(Parsed) > format.header + 1 => FALSE
    BY <1>1, <1>2, <1>3, <1>5 DEF Reading, Handed
  <2> QED BY <2>1, <1>1, <1>2, <1>4, <1>5
<1>6. CASE main = "construct"
  <2>1. Filled /\ TypeOK
    BY <1>1, <1>6 DEF Reading, Typed
  <2>2. text \in Seq(Chars) /\ Len(text) \in Nat /\ Len(text) > 0
    BY <2>1, FilesAssumption DEF TypeOK
  <2>3. SUFFICES Filled'
    BY <1>2, <1>6
  <2>4. CASE Announce
    BY <2>1, <2>4, <1>1 DEF Announce, Filled
  <2>5. CASE Crash
    BY <2>5 DEF Crash
  <2>6. CASE Map
    <3>1. mmap_pos = 0 /\ records = << >> /\ parser = FreshParser(FALSE) /\ ~header_trimmed
      BY <2>1, <2>6 DEF Map, Filled
    <3>2. FileInHand'
      BY <1>1, <2>1, <2>6, <3>1, MapInHand DEF FreshParser
    <3> QED BY <2>1, <2>6, <1>1, <3>1, <3>2 DEF Map, Filled
  <2>7. CASE ParseOn
    <3>1. FileInHand /\ Typed
      BY <2>1, <2>7 DEF ParseOn, Filled
    <3>2. FileInHand'
      BY <2>7, <3>1, RoundInHand
    <3> QED BY <2>1, <2>7, <1>1, <3>2 DEF ParseOn, Filled
  <2>8. CASE ChunkEnds
    BY <1>1, <2>8 DEF ChunkEnds
  <2>9. CASE FileEnds
    <3>1. Stopped'
      BY <2>9 DEF FileEnds, Stopped, Data
    <3>2. FileInHand => FileInHand'
      BY <2>9 DEF FileEnds, FileInHand
    <3> QED BY <2>1, <2>9, <1>1, <3>1, <3>2 DEF FileEnds, Filled
  <2>10. CASE Feed
    <3>1. FileInHand /\ Stopped /\ Typed /\ ~header_trimmed
      BY <2>1, <2>10 DEF Feed, Filled
    <3>2. records' = Parsed'
      BY <1>4, <2>10, <3>1, FeedInHand
    <3>3. worker' = "trim" /\ UNCHANGED header_trimmed
      BY <2>10 DEF Feed
    <3> QED BY <1>1, <2>1, <3>1, <3>2, <3>3 DEF Filled
  <2>11. CASE TrimHeader
    <3>1. records = Parsed /\ ~header_trimmed /\ worker' = "kill"
      BY <2>1, <2>11 DEF TrimHeader, Filled
    <3>2. records' = SubSeq(Parsed, format.header + 2, Len(Parsed))
      BY <2>11, <3>1 DEF TrimHeader
    <3>3. Len(Parsed) > format.header => n_cols' = Len(Parsed[format.header + 1])
      BY <2>11, <3>1 DEF TrimHeader
    <3> QED BY <1>1, <1>4, <2>1, <3>1, <3>2, <3>3 DEF Filled
  <2>12. CASE Kill
    BY <1>1, <1>4, <2>1, <2>12 DEF Kill, Filled
  <2> QED BY <2>4, <2>5, <2>6, <2>7, <2>8, <2>9, <2>10, <2>11, <2>12 DEF Worker
<1> QED BY <1>5, <1>6

\* The loop takes a row: it keeps it if it is one of those it is to be handed.
LEMMA NextRow ==
  ASSUME TypeOK, NEW k \in Nat, k < Len(Parsed), records = SubSeq(Parsed, k + 1, Len(Parsed))
  PROVE  /\ records # << >>
         /\ Head(records) = Parsed[k + 1]
         /\ Tail(records) = SubSeq(Parsed, (k + 1) + 1, Len(Parsed))
         /\ Selection(Parsed, Kept)[k + 1] =
              IF k + 1 \in Kept THEN Append(Selection(Parsed, Kept)[k], Parsed[k + 1])
              ELSE Selection(Parsed, Kept)[k]
<1>1. Parsed \in Seq(Row) /\ Len(Parsed) \in Nat
  <2>1. text \in Seq(Chars)
    BY FilesAssumption DEF TypeOK
  <2>2. Parsed \in Seq(Row)
    BY <2>1, ParsedType DEF Parsed
  <2> QED BY <2>2
<1>2. k + 1 \in 1..Len(Parsed) /\ Len(Parsed) \in (k + 1)..Len(Parsed) /\ k \in 0..(Len(Parsed) - 1)
  BY <1>1
<1>3. Head(records) = Parsed[k + 1] /\ Tail(records) = SubSeq(Parsed, (k + 1) + 1, Len(Parsed))
  BY <1>1, <1>2, HeadTailOfSubSeq
<1>4. records # << >>
  <2>1. Len(SubSeq(Parsed, k + 1, Len(Parsed))) = Len(Parsed) - (k + 1) + 1
    <3>1. \A j \in (k + 1)..Len(Parsed) : Parsed[j] \in Row
      BY <1>1, <1>2
    <3> QED BY <1>1, <1>2, <3>1, SubSeqProperties
  <2>2. Len(Parsed) - (k + 1) + 1 > 0
    BY <1>1, <1>2
  <2>3. Len(records) > 0
    BY <2>1, <2>2
  <2>4. records \in Seq(Row)
    BY DEF TypeOK
  <2>5. \A q \in Seq(Row) : Len(q) > 0 => q # << >>
    OBVIOUS
  <2> QED BY <2>3, <2>4, <2>5, Zenon
<1> QED BY <1>1, <1>2, <1>3, <1>4, SelectionIs

LEMMA NoNextRow ==
  ASSUME TypeOK, NEW k \in Nat, k <= Len(Parsed), records = SubSeq(Parsed, k + 1, Len(Parsed)),
         records = << >>
  PROVE  k = Len(Parsed)
<1>1. Len(Parsed) \in Nat
  <2>1. text \in Seq(Chars)
    BY FilesAssumption DEF TypeOK
  <2>2. Parsed \in Seq(Row)
    BY <2>1, ParsedType DEF Parsed
  <2> QED BY <2>2
<1>2. ~(k < Len(Parsed))
  BY NextRow
<1> QED BY <1>1, <1>2

LEMMA ReadingMain ==
  ASSUME Typed, Signalled, Single, Reading, Running, Main
  PROVE  Reading'
<1> USE DEF Running, chunk, header
<1> DEFINE L == Len(Parsed)
           h == format.header
           sel == Selection(Parsed, Kept)
<1>1. UNCHANGED <<text, format, n_cols, waitable, eof, header_trimmed>>
  BY DEF Main, Constructed, Begin, BeginReads, BeginJoined, DropRow, ReadRow, SeesNone,
     SeesWaitable, SeesIdle, SeesEof, SeesMore, Go, Wait, Restart, Destroy
<1>2. Parsed' = Parsed /\ Kept' = Kept /\ NoChunk' = NoChunk
  BY <1>1 DEF Parsed, Kept, NoChunk
<1>3. TypeOK /\ Parsed \in Seq(Row) /\ L \in Nat /\ h \in Nat
  <2>1. TypeOK
    BY DEF Typed
  <2>2. text \in Seq(Chars)
    BY <2>1, FilesAssumption DEF TypeOK
  <2>3. Parsed \in Seq(Row)
    BY <2>2, ParsedType DEF Parsed
  <2> QED BY <2>1, <2>3 DEF TypeOK
<1>4. main' # "construct"
  BY DEF Main, Constructed, Begin, BeginReads, BeginJoined, DropRow, ReadRow, SeesNone,
     SeesWaitable, SeesIdle, SeesEof, SeesMore, Go, Wait, Restart, Destroy
<1> SUFFICES ASSUME NoChunk, L > h + 1 PROVE Handed'
  BY <1>1, <1>2, <1>4 DEF Reading
<1> DEFINE At(k) == /\ records = SubSeq(Parsed, k + 1, L)
                    /\ delivered = sel[k]
<1>5. CASE Constructed
  <2>1. Filled /\ worker = "done"
    BY <1>5 DEF Constructed, Join, Reading
  <2>2. records = SubSeq(Parsed, (h + 1) + 1, L) /\ n_cols = Len(Parsed[h + 1]) /\ delivered = << >>
    <3>1. (h + 1) + 1 = h + 2 /\ L > h
      BY <1>3
    <3> QED BY <2>1, <3>1 DEF Filled
  <2>3. sel[h + 1] = << >>
    <3>1. h + 1 \in 0..L /\ \A n \in 1..(h + 1) : n \notin Kept
      BY <1>3 DEF Kept
    <3> QED BY <1>3, <3>1, NoneSelected
  <2>4. h + 1 \in (h + 1)..L
    BY <1>3
  <2>5. worker' = "none" /\ main' = "begin" /\ UNCHANGED <<records, delivered>>
    BY <1>5 DEF Constructed, Join
  <2> HIDE DEF h, L, sel
  <2> QED BY <1>1, <1>2, <2>2, <2>3, <2>4, <2>5 DEF Handed, h, L, sel
<1>6. CASE ~Constructed
  <2>1. main # "construct"
    BY <1>6 DEF Main, Constructed, Begin, BeginReads, BeginJoined, DropRow, ReadRow, SeesNone,
       SeesWaitable, SeesIdle, SeesEof, SeesMore, Go, Wait, Restart, Destroy
  <2>2. Handed
    BY <2>1 DEF Reading
  <2>3. PICK k \in (h + 1)..L :
          /\ At(k)
          /\ main = "begin" <=> k = h + 1
          /\ main \in {"empty", "idle", "end", "destroyed"} => k = L
    BY <2>2 DEF Handed
  <2>4. k \in Nat /\ k <= L /\ k >= h + 1
    BY <1>3, <2>3
  <2>5. /\ main \in {"begin", "row", "empty", "idle", "end", "destroyed"}
        /\ worker = "none" /\ n_cols = Len(Parsed[h + 1]) /\ ~waitable /\ eof
    BY <2>1, <2>2 DEF Handed, Signalled, Filling, Single
  <2>6. ASSUME k < L
        PROVE  /\ records # << >> /\ Head(records) = Parsed[k + 1]
               /\ Tail(records) = SubSeq(Parsed, (k + 1) + 1, L)
               /\ sel[k + 1] = IF k + 1 \in Kept THEN Append(sel[k], Parsed[k + 1]) ELSE sel[k]
               /\ k + 1 \in (h + 1)..L /\ k + 1 # h + 1
    <3>1. k + 1 \in (h + 1)..L /\ k + 1 # h + 1
      BY <1>3, <2>4, <2>6
    <3> QED BY <1>3, <2>3, <2>4, <2>6, <3>1, NextRow
  <2>7. records = << >> => k = L
    BY <1>3, <2>3, <2>4, NoNextRow
  <2>8. records # << >> => k < L
    <3>1. k = L => records = << >>
      BY <1>3, <2>3, SubSeqEmpty
    <3> QED BY <1>3, <2>4, <3>1
  <2> HIDE DEF At
  <2>9. CASE Begin
    <3>1. k = h + 1 /\ k < L /\ k + 1 \in Kept
      <4>1. k = h + 1 /\ k < L
        BY <1>3, <2>3, <2>9 DEF Begin
      <4>2. k + 1 = h + 2 /\ k + 1 \in 1..L
        BY <1>3, <4>1
      <4> QED BY <1>3, <4>1, <4>2 DEF Kept
    <3>2. delivered' = Append(sel[k], Parsed[k + 1]) /\ records' = SubSeq(Parsed, (k + 1) + 1, L)
      BY <2>3, <2>6, <2>9, <3>1 DEF Begin, Deliver, At
    <3>3. delivered' = sel[k + 1]
      BY <2>6, <3>1, <3>2
    <3>4. main' = "row" /\ UNCHANGED worker
      BY <2>9 DEF Begin
    <3>5. k + 1 \in (h + 1)..L /\ k + 1 # h + 1
      BY <2>6, <3>1
    <3> HIDE DEF h, L, sel
    <3> QED BY <1>1, <1>2, <2>5, <3>2, <3>3, <3>4, <3>5 DEF Handed, h, L, sel
  <2>10. CASE BeginReads
    BY <2>3, <2>7, <2>10, <1>3 DEF BeginReads
  <2>11. CASE BeginJoined
    BY <2>5, <2>11 DEF BeginJoined
  <2>12. CASE DropRow \/ ReadRow
    <3>1. main = "row" /\ records # << >> /\ k < L /\ k > h + 1
      BY <1>3, <2>3, <2>4, <2>8, <2>12 DEF DropRow, ReadRow
    <3>2. k + 1 \in Kept <=> Len(Head(records)) = n_cols
      <4>1. k + 1 \in 1..L /\ k + 1 > h + 2
        BY <1>3, <2>4, <3>1
      <4>2. DOMAIN Parsed = 1..L
        BY <1>3
      <4>3. k + 1 \in Kept <=> Len(Parsed[k + 1]) = Len(Parsed[h + 1])
        BY <1>3, <4>1, <4>2 DEF Kept
      <4> QED BY <2>5, <2>6, <3>1, <4>3
    <3>3. delivered' = sel[k + 1] /\ records' = SubSeq(Parsed, (k + 1) + 1, L)
      <4>1. CASE DropRow
        <5>1. k + 1 \notin Kept
          BY <3>2, <4>1 DEF DropRow
        <5> QED BY <2>3, <2>6, <3>1, <4>1, <5>1 DEF DropRow, At
      <4>2. CASE ReadRow
        <5>1. k + 1 \in Kept
          BY <3>2, <4>2 DEF ReadRow
        <5> QED BY <2>3, <2>6, <3>1, <4>2, <5>1 DEF ReadRow, Deliver, At
      <4> QED BY <2>12, <4>1, <4>2
    <3>4. main' = "row" /\ UNCHANGED worker
      BY <2>12, <3>1 DEF DropRow, ReadRow
    <3>5. k + 1 \in (h + 1)..L /\ k + 1 # h + 1
      BY <2>6, <3>1
    <3> HIDE DEF h, L, sel
    <3> QED BY <1>1, <1>2, <2>5, <3>3, <3>4, <3>5 DEF Handed, h, L, sel
  <2>13. CASE SeesNone \/ SeesIdle \/ SeesEof \/ Destroy
    <3>1. k = L
      BY <2>3, <2>7, <2>13 DEF SeesNone, SeesIdle, SeesEof, Destroy, Go
    <3>2. main' \in {"empty", "idle", "end", "destroyed"} /\ worker' = "none"
          /\ UNCHANGED <<records, delivered>>
      BY <2>5, <2>13 DEF SeesNone, SeesIdle, SeesEof, Destroy, Go
    <3>3. k # h + 1
      BY <1>3, <3>1
    <3> HIDE DEF h, L, sel
    <3> QED BY <1>1, <1>2, <2>3, <2>5, <3>1, <3>2, <3>3 DEF Handed, At, h, L, sel
  <2>14. CASE SeesWaitable \/ SeesMore \/ Wait \/ Restart
    BY <2>5, <2>14 DEF SeesWaitable, SeesMore, Wait, Restart, Go
  <2> QED BY <1>6, <2>9, <2>10, <2>11, <2>12, <2>13, <2>14 DEF Main
<1> QED BY <1>5, <1>6

LEMMA ReadingNext ==
  Typed /\ Signalled /\ Single /\ Reading /\ [Next]_vars => Reading'
<1> SUFFICES ASSUME Typed, Signalled, Single, Reading, [Next]_vars PROVE Reading'
  OBVIOUS
<1>1. CASE UNCHANGED vars
  <2>1. UNCHANGED <<text, format, records, mmap_pos, length, parser, header_trimmed, n_cols,
                    worker, main, delivered>>
    BY <1>1 DEF vars, chunk, header
  <2>2. Parsed' = Parsed /\ Kept' = Kept /\ NoChunk' = NoChunk /\ Stopped' = Stopped
    BY <2>1 DEF Parsed, Kept, NoChunk, Stopped, Data
  <2>3. Filled' = Filled
    BY <2>1, <2>2 DEF Filled, FileInHand
  <2>4. Handed' = Handed
    BY <2>1, <2>2 DEF Handed
  <2> QED BY <2>1, <2>2, <2>3, <2>4 DEF Reading, Running
<1>2. CASE Running /\ Worker
  BY <1>2, ReadingWorker
<1>3. CASE Running /\ Main
  BY <1>3, ReadingMain
<1>4. CASE Terminating
  BY <1>1, <1>4 DEF Terminating
<1> QED BY <1>1, <1>2, <1>3, <1>4 DEF Next

\* When the loop over a file of one chunk is over, it has been handed the rows
\* the parser finds in the file, behind the header and as wide as it.
AllHanded ==
  main \in {"end", "destroyed"} /\ NoChunk /\ Len(Parsed) > format.header + 1 =>
    delivered = Selected(Parsed, Kept)

LEMMA HandedAll == Typed /\ Reading => AllHanded
<1> SUFFICES ASSUME Typed, Reading, main \in {"end", "destroyed"}, NoChunk,
                    Len(Parsed) > format.header + 1
             PROVE  delivered = Selected(Parsed, Kept)
  BY DEF AllHanded
<1>1. Handed
  BY DEF Reading, Running
<1>2. delivered = Selection(Parsed, Kept)[Len(Parsed)]
  BY <1>1 DEF Handed
<1>3. Parsed \in Seq(Row)
  <2>1. text \in Seq(Chars)
    BY FilesAssumption DEF Typed, TypeOK
  <2> QED BY <2>1, ParsedType DEF Parsed
<1> QED BY <1>2, <1>3, SelectionIs

THEOREM AllHandedAlways == Spec => []AllHanded
<1>1. Typed /\ Reading => AllHanded
  BY HandedAll
<1>2. Init => Typed /\ Signalled /\ Single /\ Reading
  BY TypedInit, SignalledInit, SingleInit, ReadingInit
<1>3. Typed /\ Signalled /\ Single /\ Reading /\ [Next]_vars =>
        Typed' /\ Signalled' /\ Single' /\ Reading'
  BY TypedNext, SignalledNext, SingleNext, ReadingNext
<1> QED BY <1>1, <1>2, <1>3, PTL DEF Spec

-----------------------------------------------------------------------------
(* The loaded table *)

\* The table holds the rows: under their numbers, or under their IDs, where of
\* the rows of one ID the first is kept.
Holds(rows) ==
  /\ loader = "by_index" =>
       table = [i \in 0..(Len(rows) - 1) |-> rows[i + 1]]
  /\ loader = "by_id" =>
       /\ DOMAIN table = {rows[n][1] : n \in DOMAIN rows}
       /\ \A n \in DOMAIN rows :
            (\A k \in 1..(n - 1) : rows[k][1] # rows[n][1])
              => table[rows[n][1]] = rows[n]

\* The table holds what the loop has been handed so far.
Tabled == Holds(delivered)

LEMMA TabledInit == LoadInit => Tabled
<1> SUFFICES ASSUME LoadInit PROVE Tabled
  OBVIOUS
<1>1. delivered = << >> /\ table = << >>
  BY DEF LoadInit, Init
<1>2. Len(delivered) = 0 /\ DOMAIN delivered = {} /\ DOMAIN table = {}
  BY <1>1
<1>3. table = [i \in 0..(Len(delivered) - 1) |-> delivered[i + 1]]
  <2>1. 0..(Len(delivered) - 1) = {}
    BY <1>2
  <2>2. table = [i \in {} |-> delivered[i + 1]]
    BY <1>1
  <2> QED BY <2>1, <2>2
<1> QED BY <1>2, <1>3 DEF Tabled, Holds

\* A row comes behind those delivered; nothing else happens to them.
LEMMA OneMore ==
  ASSUME TypeOK, [Next]_vars
  PROVE  delivered' = delivered \/ \E x \in Row : delivered' = Append(delivered, x)
<1>1. CASE Deliver /\ records # << >>
  BY <1>1 DEF Deliver, TypeOK
<1>2. CASE UNCHANGED delivered
  BY <1>2
<1> QED BY <1>1, <1>2 DEF Next, Terminating, vars, Main, Constructed, Begin, BeginReads,
      BeginJoined, DropRow, ReadRow, SeesNone, SeesWaitable, SeesIdle, SeesEof, SeesMore, Go,
      Wait, Restart, Destroy, Worker, Announce, Crash, Map, ParseOn, ChunkEnds, FileEnds, Feed,
      TrimHeader, Kill

LEMMA LoadStep ==
  ASSUME [LoadNext]_all
  PROVE  [Next]_vars /\ ((Loads /\ Running) \/ UNCHANGED <<loader, table, delivered>>)
BY DEF LoadNext, all, loading, Step, Next, Terminating, vars

LEMMA TabledNext ==
  ASSUME TypeOK, Tabled, [LoadNext]_all
  PROVE  Tabled'
<1>1. [Next]_vars /\ (Loads \/ UNCHANGED <<loader, table, delivered>>)
  BY LoadStep
<1>2. CASE delivered' = delivered
  BY <1>1, <1>2 DEF Loads, Tabled, Holds
<1>3. CASE delivered' # delivered
  <2>1. PICK x \in Row : delivered' = Append(delivered, x)
    BY <1>1, <1>3, OneMore
  <2> DEFINE L == Len(delivered)
  <2>2. /\ L \in Nat /\ DOMAIN delivered = 1..L /\ Len(delivered') = L + 1
        /\ DOMAIN delivered' = 1..(L + 1)
        /\ \A n \in 1..L : delivered'[n] = delivered[n]
        /\ delivered'[L + 1] = x /\ Last(delivered') = x
    BY <2>1 DEF TypeOK, Last
  <2> HIDE DEF L
  <2>3. Loads /\ loader' = loader
    BY <1>1, <1>3 DEF Loads
  <2>4. ASSUME loader = "by_index"
        PROVE  table' = [i \in 0..(Len(delivered') - 1) |-> delivered'[i + 1]]
    <3>1. table = [i \in 0..(L - 1) |-> delivered[i + 1]]
      BY <2>4 DEF Tabled, Holds, L
    <3>2. Cardinality(DOMAIN table) = L
      <4>1. DOMAIN table = 0..(L - 1)
        BY <3>1
      <4>2. Cardinality(0..(L - 1)) = L
        BY <2>2, FS_Interval
      <4> QED BY <4>1, <4>2
    <3>3. table' = Insert(L, x)
      BY <1>3, <2>2, <2>3, <2>4, <3>2 DEF Loads, Indexed
    <3>4. table' = [i \in 0..L |-> IF i \in 0..(L - 1) THEN delivered[i + 1] ELSE x]
      <4>1. 0..L = (0..(L - 1)) \cup {L}
        BY <2>2
      <4> QED BY <3>1, <3>3, <4>1 DEF Insert
    <3>5. \A i \in 0..L :
            (IF i \in 0..(L - 1) THEN delivered[i + 1] ELSE x) = delivered'[i + 1]
      <4> SUFFICES ASSUME NEW i \in 0..L
                   PROVE  (IF i \in 0..(L - 1) THEN delivered[i + 1] ELSE x) = delivered'[i + 1]
        OBVIOUS
      <4>1. CASE i = L
        <5>1. i \notin 0..(L - 1)
          BY <2>2, <4>1
        <5> QED BY <2>2, <4>1, <5>1
      <4>2. CASE i # L
        <5>1. i \in 0..(L - 1) /\ i + 1 \in 1..L
          BY <2>2, <4>2
        <5> QED BY <2>2, <5>1
      <4> QED BY <4>1, <4>2
    <3>6. table' = [i \in 0..L |-> delivered'[i + 1]]
      BY <3>4, <3>5
    <3>7. Len(delivered') - 1 = L
      BY <2>2
    <3> QED BY <3>6, <3>7
  <2>5. ASSUME loader = "by_id"
        PROVE  /\ DOMAIN table' = {delivered'[n][1] : n \in DOMAIN delivered'}
               /\ \A n \in DOMAIN delivered' :
                    (\A k \in 1..(n - 1) : delivered'[k][1] # delivered'[n][1])
                      => table'[delivered'[n][1]] = delivered'[n]
    <3>1. /\ DOMAIN table = {delivered[n][1] : n \in 1..L}
          /\ \A n \in 1..L :
               (\A k \in 1..(n - 1) : delivered[k][1] # delivered[n][1])
                 => table[delivered[n][1]] = delivered[n]
      BY <2>2, <2>5 DEF Tabled, Holds
    <3>2. table' = Insert(x[1], x)
      BY <1>3, <2>2, <2>3, <2>5 DEF Loads, Inserted
    <3>3. /\ DOMAIN table' = DOMAIN table \cup {x[1]}
          /\ \A e \in DOMAIN table : table'[e] = table[e]
          /\ x[1] \notin DOMAIN table => table'[x[1]] = x
      BY <3>2 DEF Insert
    <3>4. \A n \in 1..(L + 1) : n \in 1..L \/ n = L + 1
      BY <2>2
    <3>5. DOMAIN table' = {delivered'[n][1] : n \in 1..(L + 1)}
      <4>1. \A e : e \in DOMAIN table' => \E n \in 1..(L + 1) : e = delivered'[n][1]
        <5> SUFFICES ASSUME NEW e \in DOMAIN table'
                     PROVE  \E n \in 1..(L + 1) : e = delivered'[n][1]
          OBVIOUS
        <5>1. CASE e = x[1]
          BY <5>1, <2>2
        <5>2. CASE e \in DOMAIN table
          <6>1. PICK n \in 1..L : e = delivered[n][1]
            BY <5>2, <3>1
          <6> QED BY <6>1, <2>2
        <5> QED BY <5>1, <5>2, <3>3
      <4>2. \A n \in 1..(L + 1) : delivered'[n][1] \in DOMAIN table'
        BY <2>2, <3>1, <3>3, <3>4
      <4> QED BY <4>1, <4>2
    <3>6. ASSUME NEW n \in 1..(L + 1),
                 \A k \in 1..(n - 1) : delivered'[k][1] # delivered'[n][1]
          PROVE  table'[delivered'[n][1]] = delivered'[n]
      <4>1. CASE n = L + 1
        <5>1. \A k \in 1..L : delivered[k][1] # x[1]
          BY <2>2, <3>6, <4>1
        <5>2. x[1] \notin DOMAIN table
          BY <3>1, <5>1
        <5> QED BY <2>2, <3>3, <4>1, <5>2
      <4>2. CASE n \in 1..L
        <5>1. \A k \in 1..(n - 1) : k \in 1..L
          BY <2>2, <4>2
        <5>2. table[delivered[n][1]] = delivered[n] /\ delivered[n][1] \in DOMAIN table
          BY <2>2, <3>1, <3>6, <4>2, <5>1
        <5> QED BY <2>2, <3>3, <4>2, <5>2
      <4> QED BY <3>4, <4>1, <4>2
    <3> QED BY <2>2, <3>5, <3>6
  <2> QED BY <2>3, <2>4, <2>5 DEF Tabled, Holds
<1> QED BY <1>2, <1>3

\* When the loop over a file of one chunk is over, the loader's table holds the
\* rows the parser finds in the file, behind the header and as wide as it.
TableFilled ==
  main \in {"end", "destroyed"} /\ NoChunk /\ Len(Parsed) > format.header + 1 =>
    Holds(Selected(Parsed, Kept))

THEOREM TableFilledAlways == LoadSpec => []TableFilled
<1>1. LoadInit => Typed /\ Signalled /\ Single /\ Reading /\ Tabled
  BY TypedInit, SignalledInit, SingleInit, ReadingInit, TabledInit DEF LoadInit
<1>2. Typed /\ Signalled /\ Single /\ Reading /\ Tabled /\ [LoadNext]_all =>
        Typed' /\ Signalled' /\ Single' /\ Reading' /\ Tabled'
  <2> SUFFICES ASSUME Typed, Signalled, Single, Reading, Tabled, [LoadNext]_all
               PROVE  Typed' /\ Signalled' /\ Single' /\ Reading' /\ Tabled'
    OBVIOUS
  <2>1. [Next]_vars
    BY LoadStep
  <2>2. Typed' /\ Signalled' /\ Single' /\ Reading'
    BY <2>1, TypedNext, SignalledNext, SingleNext, ReadingNext
  <2>3. TypeOK
    BY DEF Typed
  <2> QED BY <2>2, <2>3, TabledNext
<1>3. Typed /\ Reading /\ Tabled => TableFilled
  <2> SUFFICES ASSUME Typed, Reading, Tabled, main \in {"end", "destroyed"}, NoChunk,
                      Len(Parsed) > format.header + 1
               PROVE  TableFilled
    BY DEF TableFilled
  <2>1. Selected(Parsed, Kept) = delivered
    BY HandedAll DEF AllHanded
  <2> QED BY <2>1 DEF TableFilled, Tabled
<1> QED BY <1>1, <1>2, <1>3, PTL DEF LoadSpec

-----------------------------------------------------------------------------
(* What a text means *)

\* After so many characters the text is inside quotes.
Inside(t, p) == QuotesBefore(t, p + 1) % 2 = 1

LEMMA QuotesType ==
  ASSUME NEW t, NEW p \in Nat
  PROVE  QuotesBefore(t, p + 1) \in Nat /\ (Inside(t, p) <=> QuotesBefore(t, p + 1) % 2 # 0)
<1> DEFINE Q == {q \in 1..((p + 1) - 1) : t[q] = Quote}
<1>1. IsFiniteSet(1..((p + 1) - 1)) /\ Q \subseteq 1..((p + 1) - 1)
  BY FS_Interval
<1>2. IsFiniteSet(Q)
  BY <1>1, FS_Subset
<1>3. QuotesBefore(t, p + 1) \in Nat
  BY <1>2, FS_CardinalityType DEF QuotesBefore
<1>4. \A n \in Nat : n % 2 = 1 <=> n % 2 # 0
  OBVIOUS
<1> QED BY <1>3, <1>4 DEF Inside

\* Every quote opens or closes.
LEMMA InsideSteps ==
  ASSUME NEW t
  PROVE  /\ ~Inside(t, 0)
         /\ \A p \in Nat : Inside(t, p + 1) <=> (t[p + 1] = Quote <=> ~Inside(t, p))
<1> DEFINE Q(p) == {q \in 1..(p - 1) : t[q] = Quote}
<1>1. \A p \in Nat : IsFiniteSet(Q(p)) /\ Cardinality(Q(p)) \in Nat
  <2> SUFFICES ASSUME NEW p \in Nat PROVE IsFiniteSet(Q(p)) /\ Cardinality(Q(p)) \in Nat
    OBVIOUS
  <2>1. IsFiniteSet(1..(p - 1)) /\ Q(p) \subseteq 1..(p - 1)
    BY FS_Interval
  <2>2. IsFiniteSet(Q(p))
    BY <2>1, FS_Subset
  <2> QED BY <2>2, FS_CardinalityType
<1>2. Q(1) = {}
  OBVIOUS
<1>3. QuotesBefore(t, 0 + 1) = 0
  BY <1>2, FS_EmptySet DEF QuotesBefore
<1>4. \A p \in Nat : QuotesBefore(t, (p + 1) + 1) =
                       IF t[p + 1] = Quote THEN QuotesBefore(t, p + 1) + 1
                       ELSE QuotesBefore(t, p + 1)
  <2> SUFFICES ASSUME NEW p \in Nat
               PROVE  QuotesBefore(t, (p + 1) + 1) =
                        IF t[p + 1] = Quote THEN QuotesBefore(t, p + 1) + 1
                        ELSE QuotesBefore(t, p + 1)
    OBVIOUS
  <2>1. IsFiniteSet(Q(p + 1)) /\ p + 1 \notin Q(p + 1)
    BY <1>1
  <2>2. \A q \in 1..((p + 1 + 1) - 1) : q \in 1..((p + 1) - 1) \/ q = p + 1
    OBVIOUS
  <2>3. p + 1 \in 1..((p + 1 + 1) - 1) /\ 1..((p + 1) - 1) \subseteq 1..((p + 1 + 1) - 1)
    OBVIOUS
  <2>4. CASE t[p + 1] = Quote
    <3>1. Q(p + 1 + 1) = Q(p + 1) \cup {p + 1}
      BY <2>2, <2>3, <2>4
    <3>2. Cardinality(Q(p + 1) \cup {p + 1}) = Cardinality(Q(p + 1)) + 1
      BY <2>1, FS_AddElement
    <3> QED BY <2>4, <3>1, <3>2 DEF QuotesBefore
  <2>5. CASE t[p + 1] # Quote
    <3>1. Q(p + 1 + 1) = Q(p + 1)
      BY <2>2, <2>3, <2>5
    <3> QED BY <2>5, <3>1 DEF QuotesBefore
  <2> QED BY <2>4, <2>5
<1>5. \A p \in Nat : QuotesBefore(t, p + 1) \in Nat
  BY <1>1 DEF QuotesBefore
<1>6. \A c \in Nat : c % 2 \in {0, 1} /\ (c + 1) % 2 = 1 - (c % 2)
  OBVIOUS
<1> HIDE DEF Q
<1>7. ASSUME NEW p \in Nat
      PROVE  Inside(t, p + 1) <=> (t[p + 1] = Quote <=> ~Inside(t, p))
  <2> DEFINE c == QuotesBefore(t, p + 1)
  <2>1. c \in Nat
    BY <1>5
  <2>2. CASE t[p + 1] = Quote
    <3>1. QuotesBefore(t, (p + 1) + 1) = c + 1
      BY <1>4, <2>2
    <3> HIDE DEF c
    <3>2. (c + 1) % 2 = 1 <=> ~(c % 2 = 1)
      BY <1>6, <2>1
    <3> QED BY <2>2, <3>1, <3>2 DEF Inside, c
  <2>3. CASE t[p + 1] # Quote
    <3>1. QuotesBefore(t, (p + 1) + 1) = c
      BY <1>4, <2>3
    <3> QED BY <2>3, <3>1 DEF Inside
  <2> QED BY <2>2, <2>3
<1>8. ~Inside(t, 0)
  BY <1>3 DEF Inside
<1> QED BY <1>7, <1>8

LEMMA OutsideIs ==
  ASSUME NEW t \in Seq(Chars), NEW C, NEW p \in Nat
  PROVE  p + 1 \in Outside(t, C) <=> p < Len(t) /\ t[p + 1] \in C /\ ~Inside(t, p)
<1> DEFINE c == QuotesBefore(t, p + 1)
<1>2. c % 2 = 0 <=> ~Inside(t, p)
  BY QuotesType
<1>3. p + 1 \in DOMAIN t <=> p < Len(t)
  OBVIOUS
<1> HIDE DEF c
<1>4. p + 1 \in Outside(t, C) <=> p + 1 \in DOMAIN t /\ t[p + 1] \in C /\ c % 2 = 0
  BY DEF Outside, c
<1> QED BY <1>2, <1>3, <1>4

LEMMA FrontAndLast ==
  ASSUME NEW S, NEW s \in Seq(S), NEW x \in S
  PROVE  /\ Front(Append(s, x)) = s /\ Last(Append(s, x)) = x
         /\ Append(s, x) \in Seq(S) /\ Len(Append(s, x)) = Len(s) + 1
<1> DEFINE a == Append(s, x)
<1>1. a \in Seq(S) /\ Len(a) = Len(s) + 1 /\ a[Len(s) + 1] = x /\ Len(s) \in Nat
      /\ \A i \in 1..Len(s) : a[i] = s[i]
  OBVIOUS
<1> HIDE DEF a
<1>2. Last(a) = x
  BY <1>1 DEF Last
<1>3. Front(a) = SubSeq(a, 1, Len(s))
  <2>1. Len(a) - 1 = Len(s)
    BY <1>1
  <2> QED BY <2>1 DEF Front
<1>4. SubSeq(a, 1, Len(s)) = s
  <2>1. \A i \in 1..Len(s) : a[i] \in S
    BY <1>1
  <2>2. SubSeq(a, 1, Len(s)) \in Seq(S) /\ Len(SubSeq(a, 1, Len(s))) = Len(s)
        /\ \A i \in 1..Len(s) : SubSeq(a, 1, Len(s))[i] = a[i]
    BY <1>1
  <2> QED BY <1>1, <2>2, SeqEqual
<1> QED BY <1>1, <1>2, <1>3, <1>4 DEF a

\* Two sequences with a last element.
LEMMA AppendEqual ==
  ASSUME NEW S, NEW r \in Seq(S), NEW s \in Seq(S), NEW x \in S, NEW y \in S,
         Append(r, x) = Append(s, y)
  PROVE  r = s /\ x = y
BY FrontAndLast

\* A line end, a delimiter and any other character behind a field.
LEMMA WriteIs ==
  ASSUME NEW before \in Seq(Row), NEW cur \in Row, NEW w \in Seq(Chars), NEW t, NEW p,
         NEW ends, NEW cuts
  PROVE  /\ p \in ends /\ before # << >> /\ cur = << >> /\ w = << >> =>
              Write(Append(before, Append(cur, w)), t, p, ends, cuts) =
                Append(before, Append(cur, w))
         /\ p \in ends /\ (before = << >> \/ cur # << >> \/ w # << >>) =>
              Write(Append(before, Append(cur, w)), t, p, ends, cuts) =
                Append(Append(before, Append(cur, w)), Append(<< >>, << >>))
         /\ p \notin ends /\ p \in cuts =>
              Write(Append(before, Append(cur, w)), t, p, ends, cuts) =
                Append(before, Append(Append(cur, w), << >>))
         /\ p \notin ends /\ p \notin cuts =>
              Write(Append(before, Append(cur, w)), t, p, ends, cuts) =
                Append(before, Append(cur, Append(w, t[p])))
<1> DEFINE record == Append(cur, w)
           sofar == Append(before, record)
           next == Write(sofar, t, p, ends, cuts)
<1>1. record \in Row /\ Front(record) = cur /\ Last(record) = w
  BY FrontAndLast DEF Row
<1>2. Blank = Append(<< >>, << >>)
  BY DEF Blank
<1>3. record = Blank <=> cur = << >> /\ w = << >>
  <2> DEFINE none == << >>
  <2>1. none \in Seq(Chars) /\ none \in Seq(Seq(Chars)) /\ cur \in Seq(Seq(Chars))
    BY DEF Row
  <2> HIDE DEF none
  <2>2. Front(Append(none, none)) = none /\ Last(Append(none, none)) = none
    BY <2>1, FrontAndLast
  <2>3. record = Append(none, none) <=> cur = none /\ w = none
    BY <1>1, <2>2
  <2> QED BY <1>2, <2>3 DEF none
<1> HIDE DEF record
<1>4. sofar = Append(before, record)
  OBVIOUS
<1>5. Front(sofar) = before /\ Last(sofar) = record /\ Len(sofar) = Len(before) + 1
  BY <1>1, <1>4, FrontAndLast
<1> HIDE DEF sofar
<1>6. Len(sofar) > 1 <=> before # << >>
  BY <1>5
<1>7. /\ p \in ends /\ before # << >> /\ cur = << >> /\ w = << >> => next = sofar
      /\ p \in ends /\ (before = << >> \/ cur # << >> \/ w # << >>) =>
           next = Append(sofar, Append(<< >>, << >>))
  BY <1>2, <1>3, <1>5, <1>6 DEF Write
<1>8. p \notin ends /\ p \in cuts => next = Append(before, Append(record, << >>))
  BY <1>5 DEF Write
<1>9. p \notin ends /\ p \notin cuts => next = Append(before, Append(cur, Append(w, t[p])))
  BY <1>1, <1>5 DEF Write
<1> HIDE DEF next
<1>10. p \notin ends /\ p \in cuts => next = Append(before, Append(Append(cur, w), << >>))
  BY <1>8 DEF record
<1> QED BY <1>7, <1>9, <1>10 DEF next, sofar, record

\* g is what has been written so far.
IsWritten(t, d, g, m) ==
  g = [p \in 0..m |->
         IF p = 0 THEN <<Blank>>
         ELSE Write(g[p - 1], t, p, Outside(t, {Newline}), Outside(t, {d}))]

LEMMA WrittenExists ==
  ASSUME NEW t, NEW d, NEW m \in Nat
  PROVE  \E g : IsWritten(t, d, g, m)
<1> DEFINE W(g, p) == Write(g[p - 1], t, p, Outside(t, {Newline}), Outside(t, {d}))
           K == {n \in Nat : \E g : IsWritten(t, d, g, n)}
<1>1. 0 \in K
  <2> DEFINE g == [n \in 0..0 |-> <<Blank>>]
  <2>1. \A n \in 0..0 : n = 0
    OBVIOUS
  <2>2. IsWritten(t, d, g, 0)
    BY <2>1 DEF IsWritten
  <2> HIDE DEF g
  <2> QED BY <2>2
<1>2. ASSUME NEW n \in Nat, n \in K PROVE n + 1 \in K
  <2>1. PICK g : IsWritten(t, d, g, n)
    BY <1>2
  <2> DEFINE h == [k \in 0..(n + 1) |-> IF k = 0 THEN <<Blank>> ELSE W(g, k)]
  <2>2. \A k \in 0..n : h[k] = g[k]
    <3>1. \A k \in 0..n : g[k] = IF k = 0 THEN <<Blank>> ELSE W(g, k)
      BY <2>1, Zenon DEF IsWritten
    <3>2. \A k \in 0..n : k \in 0..(n + 1)
      OBVIOUS
    <3> QED BY <3>1, <3>2, Zenon
  <2>3. \A k \in 0..(n + 1) : k # 0 => h[k - 1] = g[k - 1]
    <3>1. \A k \in 0..(n + 1) : k # 0 => k - 1 \in 0..n
      OBVIOUS
    <3> HIDE DEF h
    <3> QED BY <2>2, <3>1
  <2>4. IsWritten(t, d, h, n + 1)
    BY <2>3, Zenon DEF IsWritten
  <2> HIDE DEF h
  <2> QED BY <2>4
<1>3. Nat \subseteq K
  <2> HIDE DEF K
  <2> QED BY <1>1, <1>2, Induction
<1> QED BY <1>3

Sofar(t, d) == CHOOSE g : IsWritten(t, d, g, Len(t))

LEMMA SofarIs ==
  ASSUME NEW t \in Seq(Chars), NEW d
  PROVE  /\ Sofar(t, d)[0] = <<Blank>>
         /\ \A p \in 0..(Len(t) - 1) : Sofar(t, d)[p + 1] =
              Write(Sofar(t, d)[p], t, p + 1, Outside(t, {Newline}), Outside(t, {d}))
         /\ Written(t, d) = Sofar(t, d)[Len(t)]
<1> DEFINE g == Sofar(t, d)
           L == Len(t)
<1>1. L \in Nat
  OBVIOUS
<1>2. IsWritten(t, d, g, L)
  BY <1>1, WrittenExists DEF Sofar
<1>3. Written(t, d) = g[L]
  BY DEF Written, IsWritten, Sofar
<1> HIDE DEF g, L
<1>4. g[0] = <<Blank>>
  BY <1>1, <1>2 DEF IsWritten
<1>5. \A p \in 0..(L - 1) :
        g[p + 1] = Write(g[p], t, p + 1, Outside(t, {Newline}), Outside(t, {d}))
  <2> SUFFICES ASSUME NEW p \in 0..(L - 1)
               PROVE  g[p + 1] = Write(g[p], t, p + 1, Outside(t, {Newline}), Outside(t, {d}))
    OBVIOUS
  <2>1. p + 1 \in 0..L /\ p + 1 # 0 /\ (p + 1) - 1 = p
    BY <1>1
  <2> QED BY <2>1, <1>2 DEF IsWritten
<1> QED BY <1>3, <1>4, <1>5 DEF g, L

\* The text up to p is written as these records, these fields and this text.
Writing(t, d, p, before, cur, w) ==
  /\ before \in Seq(Row) /\ cur \in Row /\ w \in Seq(Chars)
  /\ Sofar(t, d)[p] = Append(before, Append(cur, w))

IsDelimiter(d) == d # Quote /\ d # Newline

\* One more character.
LEMMA WritingStep ==
  ASSUME NEW t \in Seq(Chars), NEW d, IsDelimiter(d), NEW p \in Nat, p < Len(t),
         NEW before, NEW cur, NEW w, Writing(t, d, p, before, cur, w)
  PROVE  /\ Inside(t, p) \/ t[p + 1] \notin {d, Newline} =>
              Writing(t, d, p + 1, before, cur, Append(w, t[p + 1]))
         /\ ~Inside(t, p) /\ t[p + 1] = d =>
              Writing(t, d, p + 1, before, Append(cur, w), << >>)
         /\ ~Inside(t, p) /\ t[p + 1] = Newline =>
              IF before # << >> /\ cur = << >> /\ w = << >>
              THEN Writing(t, d, p + 1, before, cur, w)
              ELSE Writing(t, d, p + 1, Append(before, Append(cur, w)), << >>, << >>)
<1> DEFINE c == t[p + 1]
           ends == Outside(t, {Newline})
           cuts == Outside(t, {d})
           old == Sofar(t, d)[p]
           next == Sofar(t, d)[p + 1]
<1>1. before \in Seq(Row) /\ cur \in Row /\ w \in Seq(Chars)
      /\ old = Append(before, Append(cur, w))
  BY DEF Writing
<1>2. c \in Chars /\ p \in 0..(Len(t) - 1)
  OBVIOUS
<1>3. next = Write(old, t, p + 1, ends, cuts)
  BY <1>2, SofarIs
<1>4. /\ p + 1 \in ends <=> c = Newline /\ ~Inside(t, p)
      /\ p + 1 \in cuts <=> c = d /\ ~Inside(t, p)
  <2>1. p + 1 \in Outside(t, {Newline}) <=> p < Len(t) /\ t[p + 1] \in {Newline} /\ ~Inside(t, p)
    BY OutsideIs
  <2>2. p + 1 \in Outside(t, {d}) <=> p < Len(t) /\ t[p + 1] \in {d} /\ ~Inside(t, p)
    BY OutsideIs
  <2> QED BY <2>1, <2>2
<1>5. Append(w, c) \in Seq(Chars) /\ Append(cur, w) \in Row
      /\ Append(before, Append(cur, w)) \in Seq(Row)
      /\ << >> \in Seq(Chars) /\ << >> \in Row
  BY <1>1, <1>2 DEF Row
<1> HIDE DEF ends, cuts, old, next
<1>6. /\ p + 1 \in ends /\ before # << >> /\ cur = << >> /\ w = << >> => next = old
      /\ p + 1 \in ends /\ (before = << >> \/ cur # << >> \/ w # << >>) =>
           next = Append(old, Append(<< >>, << >>))
      /\ p + 1 \notin ends /\ p + 1 \in cuts => next = Append(before, Append(Append(cur, w), << >>))
      /\ p + 1 \notin ends /\ p + 1 \notin cuts => next = Append(before, Append(cur, Append(w, c)))
  <2> DEFINE r == p + 1
  <2>1. next = Write(old, t, r, ends, cuts) /\ c = t[r]
    BY <1>3
  <2> HIDE DEF r, c
  <2>2. /\ r \in ends /\ before # << >> /\ cur = << >> /\ w = << >> =>
             Write(Append(before, Append(cur, w)), t, r, ends, cuts) =
               Append(before, Append(cur, w))
        /\ r \in ends /\ (before = << >> \/ cur # << >> \/ w # << >>) =>
             Write(Append(before, Append(cur, w)), t, r, ends, cuts) =
               Append(Append(before, Append(cur, w)), Append(<< >>, << >>))
        /\ r \notin ends /\ r \in cuts =>
             Write(Append(before, Append(cur, w)), t, r, ends, cuts) =
               Append(before, Append(Append(cur, w), << >>))
        /\ r \notin ends /\ r \notin cuts =>
             Write(Append(before, Append(cur, w)), t, r, ends, cuts) =
               Append(before, Append(cur, Append(w, t[r])))
    BY SMTT(20), <1>1, WriteIs
  <2>3. old = Append(before, Append(cur, w))
    BY <1>1
  <2> QED BY <2>1, <2>2, <2>3 DEF r
<1> HIDE DEF c
<1>7. Inside(t, p) \/ c \notin {d, Newline} => next = Append(before, Append(cur, Append(w, c)))
  BY <1>4, <1>6 DEF c
<1>8. ~Inside(t, p) /\ c = d => next = Append(before, Append(Append(cur, w), << >>))
  <2>1. d # Newline
    BY DEF IsDelimiter
  <2> QED BY <1>4, <1>6, <2>1 DEF c
<1>9. ~Inside(t, p) /\ c = Newline =>
        IF before # << >> /\ cur = << >> /\ w = << >> THEN next = old
        ELSE next = Append(old, Append(<< >>, << >>))
  BY <1>4, <1>6 DEF c
<1> HIDE DEF c
<1>10. Inside(t, p) \/ c \notin {d, Newline} => Writing(t, d, p + 1, before, cur, Append(w, c))
  BY <1>1, <1>5, <1>7 DEF Writing, next
<1>11. ~Inside(t, p) /\ c = d => Writing(t, d, p + 1, before, Append(cur, w), << >>)
  BY <1>1, <1>5, <1>8 DEF Writing, next
<1>12. ~Inside(t, p) /\ c = Newline =>
         IF before # << >> /\ cur = << >> /\ w = << >>
         THEN Writing(t, d, p + 1, before, cur, w)
         ELSE Writing(t, d, p + 1, Append(before, Append(cur, w)), << >>, << >>)
  BY <1>1, <1>5, <1>9 DEF Writing, next, old
<1> QED BY <1>10, <1>11, <1>12 DEF c

\* A text and its next character.
LEMMA OneLonger ==
  ASSUME NEW t \in Seq(Chars), NEW f \in Nat, NEW p \in Nat, f <= p, p < Len(t)
  PROVE  /\ Append(SubSeq(t, f + 1, p), t[p + 1]) = SubSeq(t, f + 1, p + 1)
         /\ SubSeq(t, f + 1, p) \in Seq(Chars) /\ Len(SubSeq(t, f + 1, p)) = p - f
         /\ f = p => SubSeq(t, f + 1, p) = << >>
<1> DEFINE a == SubSeq(t, f + 1, p)
           b == SubSeq(t, f + 1, p + 1)
           n == p - f
<1>1. n \in Nat /\ f + n = p /\ f + (n + 1) = p + 1 /\ f + n <= Len(t) /\ f + (n + 1) <= Len(t)
  OBVIOUS
<1>2. a \in Seq(Chars) /\ Len(a) = n
  BY <1>1, PartOf
<1>3. b \in Seq(Chars) /\ Len(b) = n + 1
  BY <1>1, PartOf
<1>4. \A i \in 1..n : a[i] = t[f + i]
  OBVIOUS
<1>5. \A i \in 1..(n + 1) : b[i] = t[f + i]
  OBVIOUS
<1>6. t[p + 1] \in Chars
  OBVIOUS
<1>7. n = 0 => a = << >>
  BY <1>2
<1> HIDE DEF a, b, n
<1>8. Append(a, t[p + 1]) = b
  <2>1. Append(a, t[p + 1]) \in Seq(Chars) /\ Len(Append(a, t[p + 1])) = n + 1
        /\ \A i \in 1..n : Append(a, t[p + 1])[i] = a[i]
        /\ Append(a, t[p + 1])[n + 1] = t[p + 1]
    BY <1>1, <1>2, <1>6
  <2>2. \A i \in 1..(n + 1) : i \in 1..n \/ i = n + 1
    BY <1>1
  <2>3. \A i \in 1..(n + 1) : Append(a, t[p + 1])[i] = b[i]
    BY <1>1, <1>4, <1>5, <2>1, <2>2
  <2> QED BY <1>3, <2>1, <2>3, SeqEqual
<1>9. f = p => n = 0
  BY DEF n
<1> QED BY <1>2, <1>7, <1>8, <1>9 DEF a, b, n

\* Characters that are part of a field, up to position q.
LEMMA WritingRun ==
  ASSUME NEW t \in Seq(Chars), NEW d, IsDelimiter(d), NEW f \in Nat, NEW p \in Nat, NEW q \in Nat,
         f <= p, p <= q, q <= Len(t),
         \A k \in p..(q - 1) : Inside(t, k) \/ t[k + 1] \notin {d, Newline},
         NEW before, NEW cur, Writing(t, d, p, before, cur, SubSeq(t, f + 1, p))
  PROVE  Writing(t, d, q, before, cur, SubSeq(t, f + 1, q))
<1> DEFINE K == {m \in Nat : p + m <= q =>
                   Writing(t, d, p + m, before, cur, SubSeq(t, f + 1, p + m))}
<1>1. 0 \in K
  OBVIOUS
<1>2. ASSUME NEW m \in Nat, m \in K PROVE m + 1 \in K
  <2> SUFFICES ASSUME p + (m + 1) <= q
               PROVE  Writing(t, d, p + (m + 1), before, cur, SubSeq(t, f + 1, p + (m + 1)))
    OBVIOUS
  <2> DEFINE k == p + m
  <2>1. k \in Nat /\ k < Len(t) /\ f <= k /\ k \in p..(q - 1) /\ p + (m + 1) = k + 1 /\ k <= q
    OBVIOUS
  <2>2. Writing(t, d, k, before, cur, SubSeq(t, f + 1, k))
    BY <1>2, <2>1
  <2>3. Inside(t, k) \/ t[k + 1] \notin {d, Newline}
    BY <2>1
  <2> HIDE DEF k, K
  <2>4. Writing(t, d, k + 1, before, cur, Append(SubSeq(t, f + 1, k), t[k + 1]))
    BY <2>1, <2>2, <2>3, WritingStep
  <2>5. Append(SubSeq(t, f + 1, k), t[k + 1]) = SubSeq(t, f + 1, k + 1)
    BY <2>1, OneLonger
  <2> QED BY <2>1, <2>4, <2>5
<1>3. Nat \subseteq K
  <2> HIDE DEF K
  <2> QED BY <1>1, <1>2, Induction
<1>4. q - p \in Nat /\ p + (q - p) = q
  OBVIOUS
<1> QED BY <1>3, <1>4

\* Without a quote nothing opens or closes.
LEMMA InsideRun ==
  ASSUME NEW t, NEW p \in Nat, NEW q \in Nat, p <= q, \A k \in p..(q - 1) : t[k + 1] # Quote
  PROVE  Inside(t, q) <=> Inside(t, p)
<1> DEFINE K == {m \in Nat : p + m <= q => (Inside(t, p + m) <=> Inside(t, p))}
<1>1. 0 \in K
  OBVIOUS
<1>2. ASSUME NEW m \in Nat, m \in K PROVE m + 1 \in K
  <2> SUFFICES ASSUME p + (m + 1) <= q PROVE Inside(t, p + (m + 1)) <=> Inside(t, p)
    OBVIOUS
  <2> DEFINE k == p + m
  <2>1. k \in Nat /\ k \in p..(q - 1) /\ p + (m + 1) = k + 1 /\ k <= q
    OBVIOUS
  <2>2. (Inside(t, k) <=> Inside(t, p)) /\ t[k + 1] # Quote
    BY <1>2, <2>1
  <2> HIDE DEF k, K
  <2> QED BY <2>1, <2>2, InsideSteps
<1>3. Nat \subseteq K
  <2> HIDE DEF K
  <2> QED BY <1>1, <1>2, Induction
<1>4. q - p \in Nat /\ p + (q - p) = q
  OBVIOUS
<1> QED BY <1>3, <1>4

\* A run of line ends begins one record.
LEMMA WritingNewlines ==
  ASSUME NEW t \in Seq(Chars), NEW d, IsDelimiter(d), NEW p \in Nat, NEW q \in Nat,
         p < q, q <= Len(t), \A k \in p..(q - 1) : t[k + 1] = Newline, ~Inside(t, p),
         NEW before, NEW cur, NEW w, Writing(t, d, p, before, cur, w),
         before = << >> \/ cur # << >> \/ w # << >>
  PROVE  Writing(t, d, q, Append(before, Append(cur, w)), << >>, << >>)
<1> DEFINE more == Append(before, Append(cur, w))
           r == p + 1
           K == {m \in Nat : r + m <= q => Writing(t, d, r + m, more, << >>, << >>)}
<1>1. r \in Nat /\ r <= q /\ p < Len(t) /\ p \in p..(q - 1)
  OBVIOUS
<1>2. Writing(t, d, r, more, << >>, << >>)
  <2>1. t[p + 1] = Newline
    BY <1>1
  <2> HIDE DEF more
  <2> QED BY <1>1, <2>1, WritingStep DEF more
<1>3. more # << >>
  <2>1. before \in Seq(Row) /\ Append(cur, w) \in Row
    BY DEF Writing, Row
  <2>2. Len(more) = Len(before) + 1
    BY <2>1
  <2> QED BY <2>1, <2>2
<1>4. \A k \in p..q : ~Inside(t, k)
  <2> SUFFICES ASSUME NEW k \in p..q PROVE ~Inside(t, k)
    OBVIOUS
  <2>1. k \in Nat /\ p <= k /\ \A j \in p..(k - 1) : j \in p..(q - 1)
    OBVIOUS
  <2>2. \A j \in p..(k - 1) : t[j + 1] # Quote
    BY <2>1, CharsAssumption
  <2> QED BY <2>1, <2>2, InsideRun
<1> HIDE DEF more, r
<1>5. 0 \in K
  BY <1>1, <1>2
<1>6. ASSUME NEW m \in Nat, m \in K PROVE m + 1 \in K
  <2> SUFFICES ASSUME r + (m + 1) <= q PROVE Writing(t, d, r + (m + 1), more, << >>, << >>)
    OBVIOUS
  <2> DEFINE k == r + m
  <2>1. k \in Nat /\ k \in p..(q - 1) /\ r + (m + 1) = k + 1 /\ k <= q /\ k \in p..q
        /\ k < Len(t)
    BY <1>1 DEF r
  <2>2. Writing(t, d, k, more, << >>, << >>) /\ t[k + 1] = Newline /\ ~Inside(t, k)
    BY <1>4, <1>6, <2>1
  <2> HIDE DEF k, K
  <2> QED BY <1>3, <2>1, <2>2, WritingStep
<1>7. Nat \subseteq K
  <2> HIDE DEF K
  <2> QED BY <1>5, <1>6, Induction
<1>8. q - r \in Nat /\ r + (q - r) = q
  BY <1>1
<1> QED BY <1>7, <1>8 DEF more

-----------------------------------------------------------------------------
(* Fields as they are written, and their texts *)

UnquotedRow(r) == [k \in DOMAIN r |-> Unquoted(r[k])]
UnquotedRows(rs) == [n \in DOMAIN rs |-> UnquotedRow(rs[n])]

\* What is everywhere selected is all there.
LEMMA SelectedAll ==
  ASSUME NEW S, NEW s \in Seq(S), NEW P, \A n \in 1..Len(s) : n \in P
  PROVE  Selected(s, P) = s
<1> DEFINE g == Selection(s, P)
           L == Len(s)
<1>1. /\ g[0] = << >>
      /\ \A n \in 0..(L - 1) :
           g[n + 1] = IF n + 1 \in P THEN Append(g[n], s[n + 1]) ELSE g[n]
      /\ Selected(s, P) = g[L]
      /\ L \in Nat
  BY SelectionIs
<1> HIDE DEF g
<1> DEFINE K == {n \in Nat : n <= L => g[n] = SubSeq(s, 1, n)}
<1>2. 0 \in K
  <2>1. SubSeq(s, 1, 0) = << >>
    OBVIOUS
  <2> QED BY <1>1, <2>1
<1>3. ASSUME NEW n \in Nat, n \in K PROVE n + 1 \in K
  <2> SUFFICES ASSUME n + 1 <= L PROVE g[n + 1] = SubSeq(s, 1, n + 1)
    OBVIOUS
  <2>1. n \in 0..(L - 1) /\ n + 1 \in 1..L /\ n <= L /\ n < L
    BY <1>1
  <2>2. g[n + 1] = Append(SubSeq(s, 1, n), s[n + 1])
    BY <2>1, <1>1, <1>3
  <2>3. Append(SubSeq(s, 1, n), s[n + 1]) = SubSeq(s, 1, n + 1)
    <3>1. \A i \in 1..(n + 1) : s[i] \in S
      BY <2>1
    <3>2. SubSeq(s, 1, n + 1) \in Seq(S) /\ Len(SubSeq(s, 1, n + 1)) = n + 1
          /\ \A i \in 1..(n + 1) : SubSeq(s, 1, n + 1)[i] = s[i]
      BY <2>1
    <3>3. SubSeq(s, 1, n) \in Seq(S) /\ Len(SubSeq(s, 1, n)) = n
          /\ \A i \in 1..n : SubSeq(s, 1, n)[i] = s[i]
      BY <2>1
    <3> DEFINE a == SubSeq(s, 1, n)
               b == SubSeq(s, 1, n + 1)
    <3> HIDE DEF a, b
    <3>4. Append(a, s[n + 1]) \in Seq(S) /\ Len(Append(a, s[n + 1])) = n + 1
          /\ \A i \in 1..n : Append(a, s[n + 1])[i] = a[i]
          /\ Append(a, s[n + 1])[n + 1] = s[n + 1]
      BY <3>1, <3>3 DEF a
    <3>5. \A i \in 1..(n + 1) : i \in 1..n \/ i = n + 1
      OBVIOUS
    <3>6. \A i \in 1..(n + 1) : Append(a, s[n + 1])[i] = b[i]
      BY <3>2, <3>3, <3>4, <3>5 DEF a, b
    <3>7. Append(a, s[n + 1]) = b
      BY <3>2, <3>4, <3>6, SeqEqual DEF b
    <3> QED BY <3>7 DEF a, b
  <2> QED BY <2>2, <2>3
<1>4. Nat \subseteq K
  <2> HIDE DEF K
  <2> QED BY <1>2, <1>3, Induction
<1>5. SubSeq(s, 1, L) = s
  BY SubSeqFull
<1> QED BY <1>1, <1>4, <1>5

LEMMA UnquotedType ==
  ASSUME NEW w \in Seq(Chars)
  PROVE  Unquoted(w) \in Seq(Chars)
<1>1. CASE w # << >> /\ w[1] = Quote
  <2> DEFINE inner == SubSeq(w, 2, Len(w) - 1)
  <2>1. inner \in Seq(Chars)
    <3>1. \A i \in 2..(Len(w) - 1) : w[i] \in Chars
      OBVIOUS
    <3>2. 2 \in Int /\ Len(w) - 1 \in Int
      OBVIOUS
    <3> QED BY <3>1, <3>2, SubSeqProperties
  <2> HIDE DEF inner
  <2> QED BY <1>1, <2>1, SelectedType DEF Unquoted, inner
<1>2. CASE ~(w # << >> /\ w[1] = Quote)
  <2>1. Unquoted(w) = w
    BY <1>2 DEF Unquoted
  <2> QED BY <2>1
<1> QED BY <1>1, <1>2

LEMMA UnquotedRowIs ==
  ASSUME NEW r \in Row
  PROVE  /\ UnquotedRow(r) \in Row /\ Len(UnquotedRow(r)) = Len(r)
         /\ r = << >> => UnquotedRow(r) = << >>
         /\ \A w \in Seq(Chars) : UnquotedRow(Append(r, w)) = Append(UnquotedRow(r), Unquoted(w))
<1> DEFINE u == UnquotedRow(r)
           L == Len(r)
<1>1. L \in Nat /\ DOMAIN r = 1..L /\ \A k \in 1..L : r[k] \in Seq(Chars)
  BY DEF Row
<1>2. u = [k \in 1..L |-> Unquoted(r[k])]
  BY <1>1 DEF UnquotedRow
<1>3. \A k \in 1..L : Unquoted(r[k]) \in Seq(Chars)
  BY <1>1, UnquotedType
<1> HIDE DEF u
<1>4. u \in Seq(Seq(Chars)) /\ Len(u) = L
  BY <1>1, <1>2, <1>3
<1>5. r = << >> => u = << >>
  BY <1>4
<1>6. ASSUME NEW w \in Seq(Chars)
      PROVE  UnquotedRow(Append(r, w)) = Append(u, Unquoted(w))
  <2> DEFINE a == Append(r, w)
             b == UnquotedRow(a)
             x == Unquoted(w)
             c == Append(u, x)
  <2>1. DOMAIN a = 1..(L + 1) /\ (\A k \in 1..L : a[k] = r[k]) /\ a[L + 1] = w
    BY <1>1 DEF Row
  <2> HIDE DEF a
  <2>2. b = [k \in 1..(L + 1) |-> Unquoted(a[k])]
    BY <2>1 DEF UnquotedRow
  <2> HIDE DEF b
  <2>3. x \in Seq(Chars)
    BY UnquotedType
  <2>4. \A k \in 1..(L + 1) : k \in 1..L \/ k = L + 1
    BY <1>1
  <2>5. L + 1 \in 1..(L + 1) /\ \A k \in 1..L : k \in 1..(L + 1)
    BY <1>1
  <2>6. (\A k \in 1..L : b[k] = u[k]) /\ b[L + 1] = x
    BY <1>2, <2>1, <2>2, <2>5
  <2> HIDE DEF x
  <2>7. c \in Seq(Seq(Chars)) /\ Len(c) = L + 1 /\ (\A k \in 1..L : c[k] = u[k]) /\ c[L + 1] = x
    BY <1>1, <1>4, <2>3
  <2> HIDE DEF c
  <2>8. c = [k \in 1..(L + 1) |-> c[k]]
    BY <2>7
  <2>9. b = [k \in 1..(L + 1) |-> b[k]]
    BY <2>2
  <2>10. \A k \in 1..(L + 1) : b[k] = c[k]
    BY <2>4, <2>6, <2>7
  <2>11. b = c
    BY <2>8, <2>9, <2>10
  <2> QED BY <2>11 DEF a, b, c, x
<1> QED BY <1>4, <1>5, <1>6 DEF u, Row

LEMMA UnquotedRowsIs ==
  ASSUME NEW rs \in Seq(Row)
  PROVE  /\ UnquotedRows(rs) \in Seq(Row) /\ Len(UnquotedRows(rs)) = Len(rs)
         /\ rs = << >> => UnquotedRows(rs) = << >>
         /\ \A n \in 1..Len(rs) : UnquotedRows(rs)[n] = UnquotedRow(rs[n])
         /\ \A r \in Row : UnquotedRows(Append(rs, r)) = Append(UnquotedRows(rs), UnquotedRow(r))
<1> DEFINE u == UnquotedRows(rs)
           L == Len(rs)
<1>1. L \in Nat /\ DOMAIN rs = 1..L /\ \A k \in 1..L : rs[k] \in Row
  OBVIOUS
<1>2. u = [k \in 1..L |-> UnquotedRow(rs[k])]
  BY <1>1 DEF UnquotedRows
<1>3. \A k \in 1..L : UnquotedRow(rs[k]) \in Row
  BY <1>1, UnquotedRowIs
<1> HIDE DEF u
<1>4. u \in Seq(Row) /\ Len(u) = L
  BY <1>1, <1>2, <1>3
<1>5. rs = << >> => u = << >>
  BY <1>4
<1>6. ASSUME NEW r \in Row
      PROVE  UnquotedRows(Append(rs, r)) = Append(u, UnquotedRow(r))
  <2> DEFINE a == Append(rs, r)
             b == UnquotedRows(a)
             x == UnquotedRow(r)
             c == Append(u, x)
  <2>1. DOMAIN a = 1..(L + 1) /\ (\A k \in 1..L : a[k] = rs[k]) /\ a[L + 1] = r
    BY <1>1
  <2> HIDE DEF a
  <2>2. b = [k \in 1..(L + 1) |-> UnquotedRow(a[k])]
    BY <2>1 DEF UnquotedRows
  <2> HIDE DEF b
  <2>3. x \in Row
    BY UnquotedRowIs
  <2>4. \A k \in 1..(L + 1) : k \in 1..L \/ k = L + 1
    BY <1>1
  <2>5. L + 1 \in 1..(L + 1) /\ \A k \in 1..L : k \in 1..(L + 1)
    BY <1>1
  <2>6. (\A k \in 1..L : b[k] = u[k]) /\ b[L + 1] = x
    BY <1>2, <2>1, <2>2, <2>5
  <2> HIDE DEF x
  <2>7. c \in Seq(Row) /\ Len(c) = L + 1 /\ (\A k \in 1..L : c[k] = u[k]) /\ c[L + 1] = x
    BY <1>1, <1>4, <2>3
  <2> HIDE DEF c
  <2>8. c = [k \in 1..(L + 1) |-> c[k]]
    BY <2>7
  <2>9. b = [k \in 1..(L + 1) |-> b[k]]
    BY <2>2
  <2>10. \A k \in 1..(L + 1) : b[k] = c[k]
    BY <2>4, <2>6, <2>7
  <2>11. b = c
    BY <2>8, <2>9, <2>10
  <2> QED BY <2>11 DEF a, b, c, x
<1>7. \A n \in 1..L : u[n] = UnquotedRow(rs[n])
  BY <1>2
<1> QED BY <1>4, <1>5, <1>6, <1>7 DEF u

\* A field without quotes is its own text.
LEMMA PlainField ==
  ASSUME NEW w \in Seq(Chars), \A i \in 1..Len(w) : w[i] # Quote
  PROVE  Unquoted(w) = w /\ GetField(w, FALSE) = w
<1>1. ~(w # << >> /\ w[1] = Quote)
  OBVIOUS
<1> QED BY <1>1 DEF Unquoted, GetField

\* The text of a quoted field: what is between its quotes, the doubled ones
\* halved if the parser has seen one, and there are none if it has not.
LEMMA QuotedField ==
  ASSUME NEW w \in Seq(Chars), Len(w) >= 2, w[1] = Quote, NEW b \in BOOLEAN,
         ~b => \A i \in 2..(Len(w) - 1) : w[i] # Quote
  PROVE  GetField(SubSeq(w, 2, Len(w) - 1), b) = Unquoted(w)
<1> DEFINE inner == SubSeq(w, 2, Len(w) - 1)
           P == {i \in DOMAIN inner : inner[i] = Quote => QuotesBefore(inner, i) % 2 = 0}
<1>1. Unquoted(w) = Selected(inner, P)
  <2>1. w # << >> /\ w[1] = Quote
    OBVIOUS
  <2> QED BY <2>1, Zenon DEF Unquoted
<1>2. CASE b
  BY <1>1, <1>2 DEF GetField
<1>3. CASE ~b
  <2>1. inner \in Seq(Chars) /\ Len(inner) = Len(w) - 2
        /\ \A i \in 1..(Len(w) - 2) : inner[i] = w[i + 1]
    <3> DEFINE n == Len(w) - 2
    <3>1. n \in Nat /\ 1 + n <= Len(w) /\ Len(w) - 1 = 1 + n
      OBVIOUS
    <3>2. SubSeq(w, 1 + 1, 1 + n) \in Seq(Chars) /\ Len(SubSeq(w, 1 + 1, 1 + n)) = n
      BY <3>1, PartOf
    <3>3. \A i \in 1..n : SubSeq(w, 2, Len(w) - 1)[i] = w[i + 1]
      BY <3>1
    <3> QED BY <3>1, <3>2, <3>3
  <2>2. \A i \in 1..(Len(w) - 2) : i + 1 \in 2..(Len(w) - 1)
    OBVIOUS
  <2> HIDE DEF inner
  <2>3. \A i \in 1..Len(inner) : inner[i] # Quote
    BY <1>3, <2>1, <2>2
  <2>4. \A i \in 1..Len(inner) : i \in P
    BY <2>1, <2>3
  <2> HIDE DEF P
  <2>5. Selected(inner, P) = inner
    BY <2>1, <2>4, SelectedAll
  <2>6. GetField(inner, b) = inner
    BY <1>3 DEF GetField
  <2> QED BY <1>1, <2>5, <2>6 DEF inner
<1> QED BY <1>2, <1>3

-----------------------------------------------------------------------------
(* The parser writes what the text says *)

\* The field in hand begins behind position f; what is before it has become rows
\* and fields of the row in hand.
Common(t, d, f, before, cur, s) ==
  /\ f \in Nat /\ s.row_start <= f /\ f <= s.pos
  /\ Writing(t, d, s.pos, before, cur, SubSeq(t, f + 1, s.pos))
  /\ s.rows = UnquotedRows(before)
  /\ s.current_row = UnquotedRow(cur)
  /\ before = << >> <=> s.row_start = 0
  /\ cur = << >> => f = s.row_start

\* A field is to begin: at the start of the text, behind a delimiter, or behind
\* the last newline of a run.
Between(t, d, f, cur, s) ==
  /\ s.pos = f /\ s.field_start = Uninitialized /\ s.field_length = 0
  /\ ~s.quote_escape /\ ~s.double_quote /\ ~Inside(t, s.pos)
  /\ \/ f = 0
     \/ t[f] = d /\ cur # << >>
     \/ t[f] = Newline /\ cur = << >> /\ (f = Len(t) \/ t[f + 1] # Newline)

\* In a field without quotes.
Bare(t, d, f, s) ==
  /\ f < s.pos /\ s.field_start # Uninitialized
  /\ s.row_start + s.field_start = f /\ f + s.field_length = s.pos
  /\ ~s.quote_escape /\ ~s.double_quote /\ ~Inside(t, s.pos)
  /\ t[s.pos] \notin {d, Newline, Quote}
  /\ \A k \in f..(s.pos - 1) : t[k + 1] # Quote

\* Inside the quotes of a field.
Quoted(t, f, s) ==
  /\ f < s.pos /\ s.field_start # Uninitialized
  /\ s.row_start + s.field_start = f + 1 /\ f + 1 + s.field_length = s.pos
  /\ s.quote_escape /\ Inside(t, s.pos)
  /\ t[f + 1] = Quote
  /\ ~s.double_quote => \A k \in (f + 1)..(s.pos - 1) : t[k + 1] # Quote

\* The last character of the text opens quotes.
Opened(t, f, s) ==
  /\ s.pos = f + 1 /\ s.pos = Len(t) /\ t[f + 1] = Quote
  /\ s.field_start = Uninitialized /\ s.field_length = 0
  /\ s.quote_escape /\ Inside(t, s.pos)

\* Behind the quotes of a field.
Closed(t, d, f, s) ==
  /\ f + 2 <= s.pos /\ s.field_start # Uninitialized
  /\ s.row_start + s.field_start = f + 1 /\ f + 1 + s.field_length + 1 = s.pos
  /\ ~s.quote_escape /\ ~Inside(t, s.pos)
  /\ t[f + 1] = Quote /\ t[s.pos] = Quote
  /\ s.pos < Len(t) /\ t[s.pos + 1] \in {d, Newline}
  /\ ~s.double_quote => \A k \in (f + 1)..(s.pos - 2) : t[k + 1] # Quote

Phase(t, d, f, cur, s) ==
  \/ Between(t, d, f, cur, s) \/ Bare(t, d, f, s) \/ Quoted(t, f, s)
  \/ Opened(t, f, s) \/ Closed(t, d, f, s)

Fits(t, d, s) ==
  \E f, before, cur : Common(t, d, f, before, cur, s) /\ Phase(t, d, f, cur, s)

LEMMA PushFieldIs ==
  ASSUME NEW t, NEW s, IsParser(s), NEW u, u = PushField(t, s)
  PROVE  /\ u.pos = s.pos /\ u.row_start = s.row_start /\ u.rows = s.rows
         /\ u.field_start = Uninitialized /\ u.field_length = 0
         /\ (u.quote_escape <=> s.quote_escape) /\ ~u.double_quote
         /\ DOMAIN u = ParserFields
         /\ s.field_start = Uninitialized => u.current_row = Append(s.current_row,
              GetField(SubSeq(t, s.row_start + 1, s.row_start + s.field_length), s.double_quote))
         /\ s.field_start # Uninitialized => u.current_row = Append(s.current_row,
              GetField(SubSeq(t, s.row_start + s.field_start + 1,
                              s.row_start + s.field_start + s.field_length), s.double_quote))
<1> DEFINE from == s.row_start + (IF s.field_start = Uninitialized THEN 0 ELSE s.field_start)
           raw == SubSeq(t, from + 1, from + s.field_length)
           field == GetField(raw, s.double_quote)
<1>1. u = [s EXCEPT !.current_row = Append(@, field), !.field_start = Uninitialized,
                    !.field_length = 0, !.double_quote = FALSE]
  BY DEF PushField
<1>2. s.row_start \in Nat
  BY DEF IsParser
<1>3. /\ s.field_start = Uninitialized => from = s.row_start
      /\ s.field_start # Uninitialized => from = s.row_start + s.field_start
  BY <1>2
<1> HIDE DEF from
<1>4. /\ s.field_start = Uninitialized =>
           field = GetField(SubSeq(t, s.row_start + 1, s.row_start + s.field_length), s.double_quote)
      /\ s.field_start # Uninitialized =>
           field = GetField(SubSeq(t, s.row_start + s.field_start + 1,
                              s.row_start + s.field_start + s.field_length), s.double_quote)
  BY <1>3
<1> HIDE DEF field
<1> QED BY <1>1, <1>4 DEF IsParser, ParserFields

\* The text of a field, by position.
LEMMA FieldIs ==
  ASSUME NEW t \in Seq(Chars), NEW f \in Nat, NEW p \in Nat, f <= p, p <= Len(t)
  PROVE  /\ SubSeq(t, f + 1, p) \in Seq(Chars) /\ Len(SubSeq(t, f + 1, p)) = p - f
         /\ \A i \in 1..(p - f) : SubSeq(t, f + 1, p)[i] = t[f + i]
<1> DEFINE n == p - f
<1>1. n \in Nat /\ f + n <= Len(t) /\ f + n = p
  OBVIOUS
<1>2. SubSeq(t, f + 1, f + n) \in Seq(Chars) /\ Len(SubSeq(t, f + 1, f + n)) = n
  BY <1>1, PartOf
<1>3. \A i \in 1..n : SubSeq(t, f + 1, p)[i] = t[f + i]
  OBVIOUS
<1> QED BY <1>1, <1>2, <1>3

\* push_field() behind a field.
LEMMA PushFits ==
  ASSUME NEW t \in Seq(Chars), NEW d, NEW s, Parsing(t, s), NEW f, NEW before, NEW cur,
         Common(t, d, f, before, cur, s),
         Between(t, d, f, cur, s) \/ Bare(t, d, f, s) \/ Closed(t, d, f, s),
         NEW u, u = PushField(t, s)
  PROVE  u.current_row = UnquotedRow(Append(cur, SubSeq(t, f + 1, s.pos)))
<1> DEFINE p == s.pos
           w == SubSeq(t, f + 1, p)
<1>1. /\ f \in Nat /\ p \in Nat /\ f <= p /\ p <= Len(t) /\ s.row_start \in Nat
      /\ IsParser(s) /\ cur \in Row /\ s.current_row = UnquotedRow(cur)
      /\ s.field_length \in Nat /\ s.field_start \in Nat \cup {Uninitialized}
      /\ s.double_quote \in BOOLEAN
  BY DEF Common, Writing, Parsing, IsParser
<1>2. w \in Seq(Chars) /\ Len(w) = p - f /\ \A i \in 1..(p - f) : w[i] = t[f + i]
  BY <1>1, FieldIs
<1>3. u.current_row = Append(s.current_row, Unquoted(w))
  <2>1. CASE Between(t, d, f, cur, s)
    <3>1. w = << >>
      BY <1>1, <1>2, <2>1 DEF Between
    <3>2. Unquoted(w) = << >> /\ GetField(w, FALSE) = << >>
      BY <3>1 DEF Unquoted, GetField
    <3>3. SubSeq(t, s.row_start + 1, s.row_start + s.field_length) = << >>
      BY <1>1, <2>1 DEF Between
    <3>4. s.double_quote = FALSE /\ s.field_start = Uninitialized
      BY <1>1, <2>1 DEF Between
    <3> HIDE DEF w
    <3>6. u.current_row = Append(s.current_row,
            GetField(SubSeq(t, s.row_start + 1, s.row_start + s.field_length), s.double_quote))
      BY <1>1, <3>4, PushFieldIs
    <3>5. u.current_row = Append(s.current_row, GetField(<< >>, s.double_quote))
      BY <3>3, <3>6
    <3> QED BY <3>1, <3>2, <3>4, <3>5 DEF GetField
  <2>2. CASE Bare(t, d, f, s)
    <3>1. \A i \in 1..Len(w) : w[i] # Quote
      <4>1. \A i \in 1..(p - f) : f + i - 1 \in f..(p - 1) /\ f + i - 1 + 1 = f + i
        BY <1>1
      <4>2. \A i \in 1..(p - f) : t[f + i] # Quote
        BY <4>1, <2>2 DEF Bare
      <4> QED BY <1>2, <4>2
    <3>2. s.row_start + s.field_start + 1 = f + 1 /\ s.row_start + s.field_start + s.field_length = p
          /\ s.field_start # Uninitialized /\ ~s.double_quote
      BY <2>2 DEF Bare
    <3>3. u.current_row = Append(s.current_row, GetField(w, s.double_quote))
      BY <1>1, <3>2, PushFieldIs
    <3> HIDE DEF w
    <3>4. Unquoted(w) = w /\ GetField(w, FALSE) = w
      BY <1>2, <3>1, PlainField
    <3> QED BY <3>2, <3>3, <3>4 DEF GetField
  <2>3. CASE Closed(t, d, f, s)
    <3>1. Len(w) >= 2 /\ w[1] = Quote
      <4>1. f + 2 <= p /\ t[f + 1] = Quote
        BY <2>3 DEF Closed
      <4> QED BY <1>1, <1>2, <4>1
    <3>2. ~s.double_quote => \A i \in 2..(Len(w) - 1) : w[i] # Quote
      <4> SUFFICES ASSUME ~s.double_quote, NEW i \in 2..(Len(w) - 1) PROVE w[i] # Quote
        OBVIOUS
      <4>1. f + i - 1 \in (f + 1)..(p - 2) /\ f + i - 1 + 1 = f + i /\ i \in 1..(p - f)
        <5> HIDE DEF p, w
        <5> QED BY SMTT(20), <1>1, <1>2
      <4> QED BY <1>2, <4>1, <2>3 DEF Closed
    <3>3. /\ s.row_start + s.field_start + 1 = f + 1 + 1
          /\ s.row_start + s.field_start + s.field_length = p - 1
          /\ s.field_start # Uninitialized
      BY SMTT(20), <1>1, <2>3 DEF Closed
    <3>4. u.current_row = Append(s.current_row, GetField(SubSeq(t, f + 1 + 1, p - 1), s.double_quote))
      <4>2. IsParser(s) /\ s.field_start # Uninitialized
        BY <1>1, <3>3
      <4>1. u.current_row = Append(s.current_row,
              GetField(SubSeq(t, s.row_start + s.field_start + 1,
                              s.row_start + s.field_start + s.field_length), s.double_quote))
        BY <4>2, PushFieldIs
      <4> QED BY <3>3, <4>1
    <3>5. SubSeq(t, f + 1 + 1, p - 1) = SubSeq(w, 2, Len(w) - 1)
      <4> DEFINE a == SubSeq(t, f + 1 + 1, p - 1)
                 n == Len(w) - 2
                 b == SubSeq(w, 2, Len(w) - 1)
      <4>1. /\ n \in Nat /\ n = p - f - 2 /\ 1 + n = Len(w) - 1 /\ 1 + n <= Len(w)
            /\ f + 1 + n = p - 1 /\ f + 1 \in Nat /\ f + 1 + n <= Len(t)
        <5> HIDE DEF p, w
        <5> QED BY <1>1, <1>2, <3>1
      <4>2. a \in Seq(Chars) /\ Len(a) = n /\ \A i \in 1..n : a[i] = t[f + 1 + i]
        <5>1. f + 1 <= p - 1 /\ p - 1 \in Nat /\ p - 1 <= Len(t) /\ (p - 1) - (f + 1) = n
          <6> HIDE DEF p, w, n
          <6> QED BY <1>1, <4>1
        <5> HIDE DEF p, w, n
        <5> QED BY SMTT(20), <5>1, <1>1, <4>1, FieldIs
      <4>3. b \in Seq(Chars) /\ Len(b) = n /\ \A i \in 1..n : b[i] = w[1 + i]
        <5>1. 1 <= Len(w) - 1 /\ Len(w) - 1 \in Nat /\ Len(w) - 1 <= Len(w) /\ (Len(w) - 1) - 1 = n
          <6> HIDE DEF p, w, n
          <6> QED BY <1>1, <1>2, <4>1
        <5> HIDE DEF p, w, n
        <5>2. SubSeq(w, 1 + 1, Len(w) - 1) \in Seq(Chars) /\ Len(SubSeq(w, 1 + 1, Len(w) - 1)) = n
              /\ \A i \in 1..n : SubSeq(w, 1 + 1, Len(w) - 1)[i] = w[1 + i]
          BY <1>2, <5>1, FieldIs
        <5> QED BY <5>2
      <4>4. \A i \in 1..n : a[i] = b[i]
        <5>1. \A i \in 1..n : 1 + i \in 1..(p - f) /\ f + (1 + i) = f + 1 + i
          BY <1>1, <4>1
        <5> HIDE DEF a, b, n, w, p
        <5> QED BY <1>2, <4>2, <4>3, <5>1
      <4> HIDE DEF a, b, n
      <4>5. a = b
        BY <4>2, <4>3, <4>4, SeqEqual
      <4> QED BY <4>5 DEF a, b
    <3> HIDE DEF w
    <3>6. GetField(SubSeq(w, 2, Len(w) - 1), s.double_quote) = Unquoted(w)
      BY <1>1, <1>2, <3>1, <3>2, QuotedField
    <3> QED BY <3>4, <3>5, <3>6
  <2> QED BY <2>1, <2>2, <2>3
<1> HIDE DEF w
<1>4. UnquotedRow(Append(cur, w)) = Append(UnquotedRow(cur), Unquoted(w))
  BY <1>1, <1>2, UnquotedRowIs
<1> QED BY <1>1, <1>3, <1>4 DEF w

\* A run of characters ends at the first position that does not belong to it.
LEMMA RunIs ==
  ASSUME NEW L \in Nat, NEW p \in Nat, p <= L, NEW Q, Q \subseteq p..L, L \in Q
  PROVE  Min(Q) \in Q /\ Min(Q) \in p..L /\ \A k \in p..(Min(Q) - 1) : k \notin Q
<1>1. Q \subseteq Int /\ Q # {} /\ \A m \in Q : p <= m
  OBVIOUS
<1>2. Min(Q) \in Q /\ \A m \in Q : Min(Q) <= m
  <2>1. p \in Int
    OBVIOUS
  <2> QED BY <1>1, <2>1, MinOf, Zenon
<1> DEFINE n == Min(Q)
<1>3. n \in p..L
  BY <1>2
<1>4. \A k \in p..(n - 1) : k \notin Q
  <2> HIDE DEF n
  <2> SUFFICES ASSUME NEW k \in p..(n - 1), k \in Q PROVE FALSE
    OBVIOUS
  <2>1. n <= k
    BY <1>2 DEF n
  <2> QED BY <1>3, <2>1
<1> QED BY <1>2, <1>3, <1>4

LEMMA DelimiterFits ==
  ASSUME NEW t \in Seq(Chars), NEW d, IsDelimiter(d), NEW s, Parsing(t, s), s.pos < Len(t),
         NEW f, NEW before, NEW cur, Common(t, d, f, before, cur, s),
         Between(t, d, f, cur, s) \/ Bare(t, d, f, s) \/ Closed(t, d, f, s),
         t[s.pos + 1] = d
  PROVE  Fits(t, d, AtDelimiter(t, s))
<1> DEFINE p == s.pos
           w == SubSeq(t, f + 1, p)
           u == PushField(t, s)
           v == AtDelimiter(t, s)
           next == Append(cur, w)
           g == p + 1
<1>1. /\ f \in Nat /\ p \in Nat /\ f <= p /\ p < Len(t) /\ s.row_start \in Nat
      /\ IsParser(s) /\ cur \in Row /\ before \in Seq(Row) /\ s.row_start <= f
      /\ s.rows = UnquotedRows(before)
      /\ before = << >> <=> s.row_start = 0
  BY DEF Common, Writing, Parsing, IsParser
<1>2. ~s.quote_escape /\ ~Inside(t, p)
  BY DEF Between, Bare, Closed
<1>3. u.current_row = UnquotedRow(next)
  BY PushFits
<1>4. /\ u.pos = p /\ u.row_start = s.row_start /\ u.rows = s.rows
      /\ u.field_start = Uninitialized /\ u.field_length = 0
      /\ ~u.quote_escape /\ ~u.double_quote /\ DOMAIN u = ParserFields
  BY <1>1, <1>2, PushFieldIs
<1>5. v = [u EXCEPT !.pos = @ + 1]
  BY DEF AtDelimiter
<1> HIDE DEF u, v
<1>6. /\ v.pos = g /\ v.row_start = s.row_start /\ v.rows = s.rows
      /\ v.field_start = Uninitialized /\ v.field_length = 0
      /\ ~v.quote_escape /\ ~v.double_quote /\ v.current_row = UnquotedRow(next)
  BY <1>3, <1>4, <1>5 DEF ParserFields
<1>7. Writing(t, d, g, before, next, << >>)
  <2>1. Writing(t, d, p, before, cur, w)
    BY DEF Common
  <2> HIDE DEF w
  <2> QED BY <1>1, <1>2, <2>1, WritingStep
<1>8. SubSeq(t, g + 1, g) = << >>
  BY <1>1
<1>9. ~Inside(t, g)
  <2>1. t[p + 1] # Quote
    BY DEF IsDelimiter
  <2> QED BY <1>1, <1>2, <2>1, InsideSteps
<1>10. next # << >>
  <2>1. w \in Seq(Chars)
    BY <1>1, FieldIs
  <2> HIDE DEF w
  <2>2. next \in Seq(Seq(Chars)) /\ Len(next) = Len(cur) + 1 /\ Len(cur) \in Nat
    BY <1>1, <2>1 DEF Row
  <2> HIDE DEF next
  <2> QED BY <2>2
<1>11. g \in Nat /\ s.row_start <= g /\ t[g] = d
  BY <1>1
<1> HIDE DEF next, g
<1>12. Common(t, d, g, before, next, v)
  <2>1. Writing(t, d, v.pos, before, next, SubSeq(t, g + 1, v.pos))
    BY <1>6, <1>7, <1>8, Zenon
  <2> QED BY <1>1, <1>6, <1>10, <1>11, <2>1 DEF Common
<1>13. Phase(t, d, g, next, v)
  BY <1>6, <1>9, <1>10, <1>11 DEF Between, Phase
<1> QED BY <1>12, <1>13, Zenon DEF Fits, v

LEMMA NewlineFits ==
  ASSUME NEW t \in Seq(Chars), NEW d, IsDelimiter(d), NEW s, Parsing(t, s), s.pos < Len(t),
         NEW f, NEW before, NEW cur, Common(t, d, f, before, cur, s),
         Between(t, d, f, cur, s) \/ Bare(t, d, f, s) \/ Closed(t, d, f, s),
         t[s.pos + 1] = Newline
  PROVE  Fits(t, d, AtNewline(t, d, s))
<1> DEFINE p == s.pos
           w == SubSeq(t, f + 1, p)
           u == PushField(t, s)
           v == AtNewline(t, d, s)
           more == Append(before, Append(cur, w))
           Q == {q \in p..Len(t) : q = Len(t) \/ ~(ParseFlag(t[q + 1], d) = "NEWLINE")}
           g == Min(Q)
<1>1. /\ f \in Nat /\ p \in Nat /\ f <= p /\ p < Len(t) /\ s.row_start \in Nat
      /\ IsParser(s) /\ cur \in Row /\ before \in Seq(Row) /\ s.row_start <= f
      /\ s.rows = UnquotedRows(before) /\ Len(t) \in Nat
      /\ before = << >> <=> s.row_start = 0
  BY DEF Common, Writing, Parsing, IsParser
<1>2. ~s.quote_escape /\ ~Inside(t, p)
  BY DEF Between, Bare, Closed
<1>3. u.current_row = UnquotedRow(Append(cur, w))
  BY PushFits
<1>4. /\ u.rows = s.rows /\ u.field_start = Uninitialized /\ u.field_length = 0
      /\ ~u.quote_escape /\ ~u.double_quote /\ DOMAIN u = ParserFields
  BY <1>1, <1>2, PushFieldIs
<1>5. v = [PushRow(u) EXCEPT !.pos = g, !.row_start = g, !.current_row = << >>]
  BY DEF AtNewline, RunEnd
<1>6. w \in Seq(Chars) /\ Len(w) = p - f
  BY <1>1, FieldIs
<1>7. \A c : (ParseFlag(c, d) = "NEWLINE") <=> (c = Newline)
  <2>1. d # Newline /\ d # Quote /\ Quote # Newline
    BY CharsAssumption DEF IsDelimiter
  <2> QED BY <2>1 DEF ParseFlag
<1>8. /\ p < g /\ g <= Len(t) /\ g \in Nat
      /\ \A k \in p..(g - 1) : t[k + 1] = Newline
      /\ g = Len(t) \/ t[g + 1] # Newline
  <2>1. Q \subseteq p..Len(t) /\ Len(t) \in Q
    BY <1>1
  <2>2. p \notin Q
    BY <1>1, <1>7
  <2>3. g \in Q /\ g \in p..Len(t) /\ \A k \in p..(g - 1) : k \notin Q
    <3>1. Len(t) \in Nat /\ p <= Len(t)
      BY <1>1
    <3> HIDE DEF Q, p
    <3> QED BY <1>1, <2>1, <3>1, RunIs
  <2>4. \A k \in p..(g - 1) : t[k + 1] = Newline
    <3> HIDE DEF g
    <3>1. \A k \in p..(g - 1) : k \in p..Len(t) /\ k # Len(t)
      BY <1>1, <2>3
    <3> QED BY <2>3, <3>1, <1>7
  <2>5. g = Len(t) \/ t[g + 1] # Newline
    <3> HIDE DEF g
    <3> QED BY <2>3, <1>7
  <2>6. g # p
    <3> HIDE DEF Q, g
    <3> QED BY <2>2, <2>3
  <2> HIDE DEF g, Q
  <2> QED BY <1>1, <2>3, <2>4, <2>5, <2>6
<1>9. before = << >> \/ cur # << >> \/ w # << >>
  <2>1. CASE Between(t, d, f, cur, s)
    <3>1. CASE f = 0
      BY <1>1, <3>1
    <3>2. CASE t[f] = d /\ cur # << >>
      BY <3>2
    <3>3. CASE t[f] = Newline /\ cur = << >> /\ (f = Len(t) \/ t[f + 1] # Newline)
      BY <1>1, <2>1, <3>3 DEF Between
    <3> QED BY <2>1, <3>1, <3>2, <3>3 DEF Between
  <2>2. CASE Bare(t, d, f, s) \/ Closed(t, d, f, s)
    <3>1. f < p
      BY <1>1, <2>2 DEF Bare, Closed
    <3> HIDE DEF w, p
    <3> QED BY <1>1, <1>6, <3>1
  <2> QED BY <2>1, <2>2
<1> HIDE DEF u, v, g
<1>10. PushRow(u) = [u EXCEPT !.rows = Append(@, u.current_row)]
  BY DEF PushRow
<1>11. /\ v.pos = g /\ v.row_start = g /\ v.rows = Append(s.rows, u.current_row)
       /\ v.field_start = Uninitialized /\ v.field_length = 0
       /\ ~v.quote_escape /\ ~v.double_quote /\ v.current_row = << >>
  BY <1>4, <1>5, <1>10 DEF ParserFields
<1>12. v.rows = UnquotedRows(more)
  <2>1. Append(cur, w) \in Row
    BY <1>1, <1>6 DEF Row
  <2> HIDE DEF w
  <2> QED BY <1>1, <1>3, <1>11, <2>1, UnquotedRowsIs
<1>13. Writing(t, d, g, more, << >>, << >>)
  <2>1. Writing(t, d, p, before, cur, w)
    BY DEF Common
  <2> HIDE DEF w, p
  <2> QED BY <1>1, <1>2, <1>8, <1>9, <2>1, WritingNewlines
<1>14. more # << >>
  <2>1. Append(cur, w) \in Row
    BY <1>1, <1>6 DEF Row
  <2> HIDE DEF w
  <2>2. Len(more) = Len(before) + 1 /\ Len(before) \in Nat
    BY <1>1, <2>1
  <2> QED BY <2>2
<1>15. SubSeq(t, g + 1, g) = << >>
  BY <1>8
<1>16. ~Inside(t, g)
  <2>1. \A k \in p..(g - 1) : t[k + 1] # Quote
    BY <1>8, CharsAssumption
  <2> HIDE DEF p
  <2> QED BY <1>1, <1>2, <1>8, <2>1, InsideRun
<1>17. t[g] = Newline /\ g # 0
  <2>1. g - 1 \in p..(g - 1) /\ g - 1 + 1 = g /\ g # 0
    BY <1>1, <1>8
  <2> QED BY <1>8, <2>1
<1>18. UnquotedRow(<< >>) = << >>
  BY DEF UnquotedRow
<1> HIDE DEF more
<1>19. Common(t, d, g, more, << >>, v)
  <2>1. Writing(t, d, v.pos, more, << >>, SubSeq(t, g + 1, v.pos))
    BY <1>11, <1>13, <1>15, Zenon
  <2> QED BY <1>8, <1>11, <1>12, <1>14, <1>17, <1>18, <2>1 DEF Common
<1>20. Phase(t, d, g, << >>, v)
  BY <1>8, <1>11, <1>16, <1>17 DEF Between, Phase
<1> QED BY <1>19, <1>20, Zenon DEF Fits, v

\* What the flags of a character tell.
LEMMA FlagIs ==
  ASSUME NEW d, IsDelimiter(d), NEW c, NEW b \in BOOLEAN
  PROVE  /\ ~b => /\ CompoundParseFlag(c, d, b) = "DELIMITER" <=> c = d
                  /\ CompoundParseFlag(c, d, b) = "NEWLINE" <=> c = Newline
                  /\ CompoundParseFlag(c, d, b) = "QUOTE" <=> c = Quote
                  /\ CompoundParseFlag(c, d, b) = "NOT_SPECIAL" <=> c \notin {d, Newline, Quote}
         /\ b => /\ CompoundParseFlag(c, d, b) = "NOT_SPECIAL" <=> c # Quote
                 /\ CompoundParseFlag(c, d, b) = "QUOTE_ESCAPE_QUOTE" <=> c = Quote
<1>1. d # Newline /\ d # Quote /\ Quote # Newline
  BY CharsAssumption DEF IsDelimiter
<1> DEFINE flag == ParseFlag(c, d)
           both == CompoundParseFlag(c, d, b)
<1>2. /\ flag = "DELIMITER" <=> c = d
      /\ flag = "NEWLINE" <=> c = Newline
      /\ flag = "QUOTE" <=> c = Quote
      /\ flag = "NOT_SPECIAL" <=> c \notin {d, Newline, Quote}
  BY <1>1 DEF ParseFlag
<1>3. /\ ~b => both = flag
      /\ b => both = IF flag = "QUOTE" THEN "QUOTE_ESCAPE_QUOTE" ELSE "NOT_SPECIAL"
  BY DEF CompoundParseFlag
<1> HIDE DEF flag, both
<1>4. ~b => /\ both = "DELIMITER" <=> c = d
            /\ both = "NEWLINE" <=> c = Newline
            /\ both = "QUOTE" <=> c = Quote
            /\ both = "NOT_SPECIAL" <=> c \notin {d, Newline, Quote}
  BY <1>2, <1>3
<1>5. b => /\ both = "NOT_SPECIAL" <=> c # Quote
           /\ both = "QUOTE_ESCAPE_QUOTE" <=> c = Quote
  BY <1>2, <1>3
<1> QED BY <1>4, <1>5 DEF both

\* parse_field() outside quotes and inside them.
LEMMA PlainFits ==
  ASSUME NEW t \in Seq(Chars), NEW d, IsDelimiter(d), NEW s, Parsing(t, s), s.pos < Len(t),
         NEW f, NEW before, NEW cur, Common(t, d, f, before, cur, s),
         \/ /\ Between(t, d, f, cur, s) \/ Bare(t, d, f, s)
            /\ t[s.pos + 1] \notin {d, Newline, Quote}
         \/ Quoted(t, f, s) /\ t[s.pos + 1] # Quote
  PROVE  Fits(t, d, AtPlain(t, d, s))
<1> DEFINE p == s.pos
           b == s.quote_escape
           v == AtPlain(t, d, s)
           start == IF s.field_start = Uninitialized THEN p - s.row_start ELSE s.field_start
           Q == {q \in p..Len(t) :
                   q = Len(t) \/ ~(CompoundParseFlag(t[q + 1], d, b) = "NOT_SPECIAL")}
           g == Min(Q)
<1>1. /\ f \in Nat /\ p \in Nat /\ f <= p /\ p < Len(t) /\ s.row_start \in Nat
      /\ IsParser(s) /\ s.row_start <= f /\ Len(t) \in Nat /\ b \in BOOLEAN
      /\ s.rows = UnquotedRows(before) /\ s.current_row = UnquotedRow(cur)
      /\ before = << >> <=> s.row_start = 0
      /\ cur = << >> => f = s.row_start
      /\ s.field_start # Uninitialized => s.field_start \in Nat
      /\ s.field_length \in Nat
  BY DEF Common, Parsing, IsParser
<1>2. v = [s EXCEPT !.field_start = start, !.pos = g, !.field_length = g - (start + s.row_start)]
  BY DEF AtPlain, RunEnd
<1>3. CompoundParseFlag(t[p + 1], d, b) = "NOT_SPECIAL"
  <2> DEFINE c == t[p + 1]
             flag == CompoundParseFlag(c, d, b)
  <2>1. b \in BOOLEAN
    BY <1>1
  <2>2. /\ ~b => /\ flag = "DELIMITER" <=> c = d
                 /\ flag = "NEWLINE" <=> c = Newline
                 /\ flag = "QUOTE" <=> c = Quote
                 /\ flag = "NOT_SPECIAL" <=> c \notin {d, Newline, Quote}
        /\ b => /\ flag = "NOT_SPECIAL" <=> c # Quote
                /\ flag = "QUOTE_ESCAPE_QUOTE" <=> c = Quote
    <3> HIDE DEF c, b
    <3> QED BY <2>1, FlagIs
  <2> HIDE DEF flag
  <2>3. CASE ~b
    <3>1. c \notin {d, Newline, Quote}
      BY <2>3 DEF Quoted
    <3> QED BY <2>2, <2>3, <3>1 DEF flag
  <2>4. CASE b
    <3>1. c # Quote
      OBVIOUS
    <3> QED BY <2>2, <2>4, <3>1 DEF flag
  <2> QED BY <2>3, <2>4
<1>4. /\ p < g /\ g <= Len(t) /\ g \in Nat
      /\ \A k \in p..(g - 1) : CompoundParseFlag(t[k + 1], d, b) = "NOT_SPECIAL"
  <2>1. Q \subseteq p..Len(t) /\ Len(t) \in Q
    BY <1>1
  <2>2. p \notin Q
    BY <1>1, <1>3
  <2>3. g \in Q /\ g \in p..Len(t) /\ \A k \in p..(g - 1) : k \notin Q
    <3>1. Len(t) \in Nat /\ p <= Len(t)
      BY <1>1
    <3> HIDE DEF Q, p
    <3> QED BY <1>1, <2>1, <3>1, RunIs
  <2>4. \A k \in p..(g - 1) : CompoundParseFlag(t[k + 1], d, b) = "NOT_SPECIAL"
    <3> HIDE DEF g
    <3>1. \A k \in p..(g - 1) : k \in p..Len(t) /\ k # Len(t)
      BY <1>1, <2>3
    <3> QED BY <2>3, <3>1
  <2>5. g # p
    <3> HIDE DEF Q, g
    <3> QED BY <2>2, <2>3
  <2> HIDE DEF g, Q
  <2> QED BY <1>1, <2>3, <2>4, <2>5
<1> HIDE DEF g, v
<1>5. /\ ~b => \A k \in p..(g - 1) : t[k + 1] \notin {d, Newline, Quote}
      /\ b => \A k \in p..(g - 1) : t[k + 1] # Quote
  <2> HIDE DEF p
  <2>1. b \in BOOLEAN
    BY <1>1
  <2> HIDE DEF b
  <2> QED BY <1>4, <2>1, FlagIs
<1>6. \A k \in p..(g - 1) : t[k + 1] # Quote
  BY <1>1, <1>5
<1>7. \A k \in p..g : Inside(t, k) <=> Inside(t, p)
  <2> SUFFICES ASSUME NEW k \in p..g PROVE Inside(t, k) <=> Inside(t, p)
    OBVIOUS
  <2>1. k \in Nat /\ p <= k /\ \A i \in p..(k - 1) : i \in p..(g - 1)
    BY <1>1, <1>4
  <2>2. \A i \in p..(k - 1) : t[i + 1] # Quote
    BY <1>6, <2>1
  <2> HIDE DEF p
  <2> QED BY <1>1, <2>1, <2>2, InsideRun
<1>8. b <=> Inside(t, p)
  BY DEF Between, Bare, Quoted
<1>9. \A k \in p..(g - 1) : Inside(t, k) \/ t[k + 1] \notin {d, Newline}
  <2>1. \A k \in p..(g - 1) : k \in p..g
    BY <1>1, <1>4
  <2> HIDE DEF p, b
  <2> QED BY <1>1, <1>5, <1>7, <1>8, <2>1
<1>10. Writing(t, d, g, before, cur, SubSeq(t, f + 1, g))
  <2>1. Writing(t, d, p, before, cur, SubSeq(t, f + 1, p))
    BY DEF Common
  <2>2. p <= g
    BY <1>1, <1>4
  <2> HIDE DEF p
  <2> QED BY <1>1, <1>4, <1>9, <2>1, <2>2, WritingRun
<1>11. start \in Nat /\ (~b => s.row_start + start = f) /\ (b => s.row_start + start = f + 1)
  <2>1. CASE Between(t, d, f, cur, s)
    <3>1. s.field_start = Uninitialized /\ ~b /\ p = f
      BY <2>1 DEF Between
    <3> QED BY <1>1, <3>1
  <2>2. CASE Bare(t, d, f, s)
    <3>1. s.field_start # Uninitialized /\ ~b /\ s.row_start + s.field_start = f
      BY <2>2 DEF Bare
    <3> QED BY <1>1, <3>1
  <2>3. CASE Quoted(t, f, s)
    <3>1. s.field_start # Uninitialized /\ b /\ s.row_start + s.field_start = f + 1
      BY <2>3 DEF Quoted
    <3> QED BY <1>1, <3>1
  <2> QED BY <2>1, <2>2, <2>3
<1> HIDE DEF start
<1>12. /\ v.pos = g /\ v.row_start = s.row_start /\ v.rows = s.rows
       /\ v.current_row = s.current_row
       /\ v.field_start = start /\ v.field_length = g - (start + s.row_start)
       /\ (v.quote_escape <=> b) /\ (v.double_quote <=> s.double_quote)
  BY <1>1, <1>2 DEF IsParser, ParserFields
<1>13. start # Uninitialized
  BY <1>11 DEF Uninitialized
<1>14. Common(t, d, f, before, cur, v)
  <2>1. Writing(t, d, v.pos, before, cur, SubSeq(t, f + 1, v.pos))
    BY <1>10, <1>12, Zenon
  <2> QED BY <1>1, <1>4, <1>12, <2>1 DEF Common
<1>15. Phase(t, d, f, cur, v)
  <2>1. g \in p..g /\ g - 1 \in p..(g - 1) /\ g - 1 + 1 = g /\ f < g
    BY <1>1, <1>4
  <2>2. Inside(t, g) <=> b
    BY <1>7, <1>8, <2>1
  <2>3. CASE ~b
    <3>1. t[g] \notin {d, Newline, Quote}
      BY <1>5, <2>1, <2>3
    <3>2. ~s.double_quote /\ \A k \in f..(g - 1) : t[k + 1] # Quote
      <4>1. CASE Between(t, d, f, cur, s)
        BY <1>6, <4>1 DEF Between
      <4>2. CASE Bare(t, d, f, s)
        <5>1. \A k \in f..(g - 1) : k \in f..(p - 1) \/ k \in p..(g - 1)
          BY <1>1, <1>4
        <5> QED BY <1>6, <4>2, <5>1 DEF Bare
      <4>3. ~Quoted(t, f, s)
        BY <2>3 DEF Quoted
      <4> QED BY <4>1, <4>2, <4>3
    <3>3. f + (g - (start + s.row_start)) = g
      <4> HIDE DEF p, b
      <4> QED BY <1>1, <1>4, <1>11, <2>3
    <3>4. Bare(t, d, f, v)
      <4> HIDE DEF p, b
      <4> QED BY <1>11, <1>12, <1>13, <2>1, <2>2, <2>3, <3>1, <3>2, <3>3 DEF Bare
    <3> QED BY <3>4 DEF Phase
  <2>4. CASE b
    <3>1. Quoted(t, f, s)
      BY <2>4 DEF Between, Bare
    <3>2. ~s.double_quote => \A k \in (f + 1)..(g - 1) : t[k + 1] # Quote
      <4>1. \A k \in (f + 1)..(g - 1) : k \in (f + 1)..(p - 1) \/ k \in p..(g - 1)
        BY <1>1, <1>4
      <4> QED BY <1>6, <3>1, <4>1 DEF Quoted
    <3>3. f + 1 + (g - (start + s.row_start)) = g
      <4> HIDE DEF p, b
      <4> QED BY <1>1, <1>4, <1>11, <2>4
    <3>4. t[f + 1] = Quote
      BY <3>1 DEF Quoted
    <3>5. Quoted(t, f, v)
      <4> HIDE DEF p, b
      <4> QED BY <1>11, <1>12, <1>13, <2>1, <2>2, <2>4, <3>2, <3>3, <3>4 DEF Quoted
    <3> QED BY <3>5 DEF Phase
  <2> QED BY <2>3, <2>4
<1> QED BY <1>14, <1>15, Zenon DEF Fits, v

\* A quote that opens a field.
LEMMA QuoteFits ==
  ASSUME NEW t \in Seq(Chars), NEW d, IsDelimiter(d), NEW s, Parsing(t, s), s.pos < Len(t),
         NEW f, NEW before, NEW cur, Common(t, d, f, before, cur, s),
         Between(t, d, f, cur, s), t[s.pos + 1] = Quote
  PROVE  Fits(t, d, AtQuote(t, s))
<1> DEFINE p == s.pos
           g == p + 1
           start == IF s.field_start = Uninitialized /\ p + 1 < Len(t)
                    THEN p + 1 - s.row_start ELSE s.field_start
           v == AtQuote(t, s)
<1>1. /\ f \in Nat /\ p \in Nat /\ f = p /\ p < Len(t) /\ s.row_start \in Nat
      /\ IsParser(s) /\ s.row_start <= f /\ Len(t) \in Nat
      /\ s.rows = UnquotedRows(before) /\ s.current_row = UnquotedRow(cur)
      /\ before = << >> <=> s.row_start = 0
      /\ cur = << >> => f = s.row_start
      /\ s.field_start = Uninitialized /\ s.field_length = 0 /\ ~Inside(t, p)
  BY DEF Common, Between, Parsing, IsParser
<1>2. v = [s EXCEPT !.quote_escape = TRUE, !.pos = @ + 1, !.field_start = start]
  BY <1>1 DEF AtQuote
<1>3. g \in Nat /\ f < g /\ g = f + 1 /\ s.row_start <= f
  BY <1>1
<1>4. Inside(t, g)
  BY <1>1, InsideSteps
<1>5. Writing(t, d, g, before, cur, SubSeq(t, f + 1, g))
  <2>1. Writing(t, d, p, before, cur, SubSeq(t, f + 1, p))
    BY DEF Common
  <2>2. t[p + 1] \notin {d, Newline}
    BY CharsAssumption DEF IsDelimiter
  <2>3. Append(SubSeq(t, f + 1, p), t[p + 1]) = SubSeq(t, f + 1, p + 1)
    <3>1. f <= p
      BY <1>1
    <3> QED BY <1>1, <3>1, OneLonger
  <2> DEFINE w == SubSeq(t, f + 1, p)
  <2> HIDE DEF w
  <2>4. Writing(t, d, p + 1, before, cur, Append(w, t[p + 1]))
    BY <1>1, <2>1, <2>2, WritingStep DEF w
  <2> QED BY <2>3, <2>4 DEF w
<1>6. /\ g < Len(t) => start \in Nat /\ s.row_start + start = f + 1
      /\ g = Len(t) => start = Uninitialized
  BY <1>1
<1> HIDE DEF g, start, v
<1>7. /\ v.pos = g /\ v.row_start = s.row_start /\ v.rows = s.rows
      /\ v.current_row = s.current_row /\ v.field_start = start /\ v.field_length = 0
      /\ v.quote_escape
  BY <1>1, <1>2 DEF IsParser, ParserFields, g
<1>8. Common(t, d, f, before, cur, v)
  <2>1. Writing(t, d, v.pos, before, cur, SubSeq(t, f + 1, v.pos))
    BY <1>5, <1>7, Zenon
  <2> QED BY <1>1, <1>3, <1>7, <2>1 DEF Common
<1>9. Phase(t, d, f, cur, v)
  <2>1. CASE g < Len(t)
    <3>1. start # Uninitialized
      BY <1>6, <2>1 DEF Uninitialized
    <3>2. \A k \in (f + 1)..(g - 1) : FALSE
      BY <1>1, <1>3
    <3>3. Quoted(t, f, v)
      BY <1>1, <1>3, <1>4, <1>6, <1>7, <2>1, <3>1, <3>2 DEF Quoted
    <3> QED BY <3>3 DEF Phase
  <2>2. CASE ~(g < Len(t))
    <3>1. g = Len(t)
      BY <1>1, <1>3, <2>2
    <3>2. Opened(t, f, v)
      BY <1>1, <1>3, <1>4, <1>6, <1>7, <3>1 DEF Opened
    <3> QED BY <3>2 DEF Phase
  <2> QED BY <2>1, <2>2
<1> QED BY <1>8, <1>9, Zenon DEF Fits, v

\* A quote inside quotes: where quotes are proper it closes the field, or the
\* one behind it opens it again.
LEMMA QuoteInQuotesFits ==
  ASSUME NEW t \in Seq(Chars), NEW d, IsDelimiter(d), Quoting(t, d),
         NEW s, Parsing(t, s), s.pos < Len(t),
         NEW f, NEW before, NEW cur, Common(t, d, f, before, cur, s),
         Quoted(t, f, s), t[s.pos + 1] = Quote
  PROVE  Fits(t, d, AtQuoteInQuotes(t, d, s))
<1> DEFINE p == s.pos
           v == AtQuoteInQuotes(t, d, s)
           flag == ParseFlag(t[p + 2], d)
<1>1. /\ f \in Nat /\ p \in Nat /\ f < p /\ p < Len(t) /\ s.row_start \in Nat
      /\ IsParser(s) /\ s.row_start <= f /\ Len(t) \in Nat
      /\ s.rows = UnquotedRows(before) /\ s.current_row = UnquotedRow(cur)
      /\ before = << >> <=> s.row_start = 0
      /\ cur = << >> => f = s.row_start
      /\ s.field_start # Uninitialized /\ s.field_start \in Nat /\ s.field_length \in Nat
      /\ s.row_start + s.field_start = f + 1 /\ f + 1 + s.field_length = p
      /\ s.quote_escape /\ Inside(t, p) /\ t[f + 1] = Quote
      /\ ~s.double_quote => \A k \in (f + 1)..(p - 1) : t[k + 1] # Quote
  BY DEF Common, Quoted, Parsing, IsParser
<1>2. CASE p + 1 = Len(t)
  <2>1. v = s
    BY <1>2 DEF AtQuoteInQuotes
  <2> QED BY <2>1 DEF Fits, Phase
<1>3. CASE p + 1 # Len(t)
  <2>1. p + 2 <= Len(t) /\ p + 1 \in DOMAIN t /\ p + 1 < Len(t) /\ p + 1 + 1 = p + 2
        /\ p + 1 \in Nat /\ f <= p
    <3> HIDE DEF p
    <3> QED BY <1>1, <1>3
  <2>2. t[p + 2] \in {d, Newline, Quote}
    <3>1. QuotesBefore(t, p + 1) % 2 # 0
      BY <1>1 DEF Inside
    <3> QED BY <1>3, <2>1, <3>1 DEF Quoting
  <2>3. /\ flag = "QUOTE" <=> t[p + 2] = Quote
        /\ flag \in {"DELIMITER", "NEWLINE"} <=> t[p + 2] \in {d, Newline}
    <3>1. d # Newline /\ d # Quote /\ Quote # Newline
      BY CharsAssumption DEF IsDelimiter
    <3> QED BY <2>2, <3>1 DEF ParseFlag
  <2>4. ~Inside(t, p + 1)
    BY <1>1, InsideSteps
  <2>5. Writing(t, d, p + 1, before, cur, SubSeq(t, f + 1, p + 1))
    <3> DEFINE w == SubSeq(t, f + 1, p)
    <3>1. Writing(t, d, p, before, cur, w)
      BY DEF Common
    <3>2. Append(w, t[p + 1]) = SubSeq(t, f + 1, p + 1)
      <4> HIDE DEF p
      <4> QED BY <1>1, <2>1, OneLonger
    <3> HIDE DEF w
    <3>3. Writing(t, d, p + 1, before, cur, Append(w, t[p + 1]))
      BY <1>1, <3>1, WritingStep
    <3> QED BY <3>2, <3>3
  <2> HIDE DEF flag
  <2>6. CASE t[p + 2] \in {d, Newline}
    <3> DEFINE g == p + 1
    <3>1. v = [s EXCEPT !.quote_escape = FALSE, !.pos = @ + 1]
      BY <1>3, <2>3, <2>6 DEF AtQuoteInQuotes, flag
    <3> HIDE DEF v
    <3>2. /\ v.pos = g /\ v.row_start = s.row_start /\ v.rows = s.rows
          /\ v.current_row = s.current_row /\ v.field_start = s.field_start
          /\ v.field_length = s.field_length
          /\ ~v.quote_escape /\ (v.double_quote <=> s.double_quote)
      BY <1>1, <3>1 DEF IsParser, ParserFields
    <3>3. Common(t, d, f, before, cur, v)
      <4>1. Writing(t, d, v.pos, before, cur, SubSeq(t, f + 1, v.pos))
        BY <2>5, <3>2, Zenon
      <4> QED BY <1>1, <3>2, <4>1 DEF Common
    <3>4. Closed(t, d, f, v)
      <4>1. f + 2 <= g /\ f + 1 + s.field_length + 1 = g /\ t[g] = Quote /\ g < Len(t)
            /\ g + 1 = p + 2 /\ g - 2 = p - 1
        BY SMTT(20), <1>1, <2>1
      <4> HIDE DEF p, g
      <4> QED BY SMTT(20), <1>1, <2>4, <2>6, <3>2, <4>1 DEF Closed, g
    <3> QED BY <3>3, <3>4, Zenon DEF Fits, Phase, v
  <2>7. CASE t[p + 2] = Quote
    <3> DEFINE g == p + 2
    <3>0. flag = "QUOTE"
      BY <2>3, <2>7
    <3>1. v = [s EXCEPT !.pos = @ + 2, !.field_length = @ + 2, !.double_quote = TRUE]
      BY <1>3, <3>0 DEF AtQuoteInQuotes, flag
    <3> HIDE DEF v
    <3>2. /\ v.pos = g /\ v.row_start = s.row_start /\ v.rows = s.rows
          /\ v.current_row = s.current_row /\ v.field_start = s.field_start
          /\ v.field_length = s.field_length + 2
          /\ v.quote_escape /\ v.double_quote
      BY <1>1, <3>1 DEF IsParser, ParserFields
    <3>3. Inside(t, g)
      <4> HIDE DEF p
      <4>1. t[p + 1 + 1] = Quote
        BY <2>1, <2>7
      <4> DEFINE q == p + 1
      <4>2. q \in Nat /\ t[q + 1] = Quote /\ ~Inside(t, q) /\ q + 1 = g
        BY <2>1, <2>4, <4>1
      <4> HIDE DEF q, g
      <4>3. Inside(t, q + 1)
        BY <4>2, InsideSteps
      <4> QED BY <4>2, <4>3
    <3>4. Writing(t, d, g, before, cur, SubSeq(t, f + 1, g))
      <4> DEFINE q == p + 1
                 w == SubSeq(t, f + 1, q)
      <4>1. q \in Nat /\ q < Len(t) /\ f <= q /\ g = q + 1 /\ t[q + 1] = Quote
        <5> HIDE DEF p
        <5> QED BY <1>1, <2>1, <2>7
      <4>2. Append(w, t[q + 1]) = SubSeq(t, f + 1, q + 1)
        <5> HIDE DEF q
        <5> QED BY SMTT(20), <1>1, <4>1, OneLonger
      <4>3. t[q + 1] \notin {d, Newline}
        <5> HIDE DEF q
        <5> QED BY <4>1, CharsAssumption DEF IsDelimiter
      <4> HIDE DEF w, q
      <4>4. Writing(t, d, q, before, cur, w)
        BY <2>5 DEF w, q
      <4>5. Writing(t, d, q + 1, before, cur, Append(w, t[q + 1]))
        BY <4>1, <4>3, <4>4, WritingStep
      <4> QED BY <4>1, <4>2, <4>5
    <3>5. Common(t, d, f, before, cur, v)
      <4>1. Writing(t, d, v.pos, before, cur, SubSeq(t, f + 1, v.pos))
        BY <3>2, <3>4, Zenon
      <4> QED BY <1>1, <3>2, <4>1 DEF Common
    <3>6. Quoted(t, f, v)
      <4>1. f < g /\ f + 1 + (s.field_length + 2) = g
        <5>1. \A i, j, k \in Nat : i < k /\ i + 1 + j = k => i < k + 2 /\ i + 1 + (j + 2) = k + 2
          OBVIOUS
        <5>2. f \in Nat /\ p \in Nat /\ s.field_length \in Nat /\ f < p /\ f + 1 + s.field_length = p
          BY <1>1
        <5> HIDE DEF p
        <5> QED BY <5>1, <5>2
      <4> HIDE DEF p, g
      <4> QED BY <1>1, <3>2, <3>3, <4>1 DEF Quoted
    <3> QED BY <3>5, <3>6, Zenon DEF Fits, Phase, v
  <2> QED BY <2>2, <2>6, <2>7
<1> QED BY <1>2, <1>3

LEMMA RoundFits ==
  ASSUME NEW t \in Seq(Chars), NEW d, IsDelimiter(d), Quoting(t, d),
         NEW s, Parsing(t, s), Fits(t, d, s)
  PROVE  Fits(t, d, Round(t, d, s))
<1>1. CASE s.pos = Len(t)
  BY <1>1 DEF Round
<1>2. CASE s.pos # Len(t)
  <2> DEFINE c == t[s.pos + 1]
             b == s.quote_escape
             flag == CompoundParseFlag(c, d, b)
  <2>1. s.pos < Len(t) /\ b \in BOOLEAN /\ s.pos \in Nat /\ Len(t) \in Nat
    BY <1>2 DEF Parsing, IsParser
  <2>2. PICK f, before, cur : Common(t, d, f, before, cur, s) /\ Phase(t, d, f, cur, s)
    BY DEF Fits
  <2>3. /\ flag = "DELIMITER" => Round(t, d, s) = AtDelimiter(t, s)
        /\ flag = "NEWLINE" => Round(t, d, s) = AtNewline(t, d, s)
        /\ flag = "NOT_SPECIAL" => Round(t, d, s) = AtPlain(t, d, s)
        /\ flag = "QUOTE" => Round(t, d, s) = AtQuote(t, s)
        /\ flag = "QUOTE_ESCAPE_QUOTE" => Round(t, d, s) = AtQuoteInQuotes(t, d, s)
    BY <1>2 DEF Round
  <2>4. /\ ~b => /\ flag = "DELIMITER" <=> c = d
                 /\ flag = "NEWLINE" <=> c = Newline
                 /\ flag = "QUOTE" <=> c = Quote
                 /\ flag = "NOT_SPECIAL" <=> c \notin {d, Newline, Quote}
        /\ b => /\ flag = "NOT_SPECIAL" <=> c # Quote
                /\ flag = "QUOTE_ESCAPE_QUOTE" <=> c = Quote
    <3> HIDE DEF c, b
    <3> QED BY <2>1, FlagIs
  <2> HIDE DEF flag
  <2>5. CASE Quoted(t, f, s)
    <3>1. b
      BY <2>5 DEF Quoted
    <3> QED BY <2>1, <2>2, <2>3, <2>4, <2>5, <3>1, PlainFits, QuoteInQuotesFits
  <2>6. CASE Opened(t, f, s)
    BY <1>2, <2>6 DEF Opened
  <2>7. CASE Between(t, d, f, cur, s)
    <3>1. ~b
      BY <2>7 DEF Between
    <3> QED BY <2>1, <2>2, <2>3, <2>4, <2>7, <3>1, DelimiterFits, NewlineFits, QuoteFits, PlainFits
  <2>8. CASE Bare(t, d, f, s)
    <3>1. ~b /\ f < s.pos /\ t[s.pos] \notin {d, Newline, Quote} /\ ~Inside(t, s.pos) /\ f \in Nat
      BY <2>2, <2>8 DEF Bare, Common
    <3>2. c # Quote
      <4> SUFFICES ASSUME c = Quote PROVE FALSE
        OBVIOUS
      <4> DEFINE q == s.pos + 1
      <4>1. q \in DOMAIN t /\ t[q] = Quote /\ q # 1 /\ q - 1 = s.pos
        BY <2>1, <3>1
      <4>2. QuotesBefore(t, q) % 2 = 0
        BY <2>1, <3>1, QuotesType
      <4> HIDE DEF q
      <4>3. q = 1 \/ t[q - 1] \in {d, Newline, Quote}
        BY <4>1, <4>2 DEF Quoting
      <4> QED BY <3>1, <4>1, <4>3
    <3> QED BY <2>1, <2>2, <2>3, <2>4, <2>8, <3>1, <3>2, DelimiterFits, NewlineFits, PlainFits
  <2>9. CASE Closed(t, d, f, s)
    <3>1. ~b /\ c \in {d, Newline}
      BY <2>9 DEF Closed
    <3> QED BY <2>1, <2>2, <2>3, <2>4, <2>9, <3>1, DelimiterFits, NewlineFits
  <2> QED BY <2>2, <2>5, <2>6, <2>7, <2>8, <2>9 DEF Phase
<1> QED BY <1>1, <1>2

\* What the parser ends with: it has read the text, or stands in front of a last
\* quote inside quotes.
LEMMA ParseFits ==
  ASSUME NEW t \in Seq(Chars), NEW d, IsDelimiter(d), Quoting(t, d),
         NEW s, s = Parse(t, d, FALSE)
  PROVE  /\ Parsing(t, s) /\ Fits(t, d, s)
         /\ \/ s.pos = Len(t)
            \/ s.quote_escape /\ s.pos + 1 = Len(t) /\ t[s.pos + 1] = Quote
<1> DEFINE g == States(t, d)
           L == Len(t)
           Still(n) == \/ g[n].pos = L
                       \/ g[n].quote_escape /\ g[n].pos + 1 = L /\ t[g[n].pos + 1] = Quote
           K == {n \in Nat : n <= L => /\ Fits(t, d, g[n])
                                       /\ \/ n <= g[n].pos
                                          \/ Still(n) /\ Round(t, d, g[n]) = g[n]}
<1>1. /\ L \in Nat /\ g[0] = FreshParser(FALSE) /\ s = g[L]
      /\ \A n \in 0..(L - 1) : g[n + 1] = Round(t, d, g[n])
      /\ \A n \in 0..L : Parsing(t, g[n])
  <2>1. L \in Nat
    OBVIOUS
  <2>2. /\ g[0] = FreshParser(FALSE) /\ Parse(t, d, FALSE) = g[L]
        /\ \A n \in 0..(L - 1) : g[n + 1] = Round(t, d, g[n])
        /\ \A n \in 0..L : Parsing(t, g[n])
    BY StatesAre, Zenon
  <2> QED BY <2>1, <2>2, Zenon
<1> HIDE DEF g
<1>2. 0 \in K
  <2> DEFINE v == FreshParser(FALSE)
             none == << >>
  <2>1. /\ v.pos = 0 /\ v.row_start = 0 /\ v.field_start = Uninitialized /\ v.field_length = 0
        /\ ~v.quote_escape /\ ~v.double_quote /\ v.current_row = << >> /\ v.rows = << >>
    BY DEF FreshParser
  <2>2. UnquotedRows(none) = none /\ UnquotedRow(none) = none
    BY DEF UnquotedRows, UnquotedRow
  <2>3. SubSeq(t, 0 + 1, 0) = none
    OBVIOUS
  <2>4. Writing(t, d, 0, none, none, none)
    <3>1. Sofar(t, d)[0] = <<Blank>>
      BY SofarIs
    <3>2. <<Blank>> = Append(none, Append(none, none))
      BY DEF Blank
    <3>3. none \in Seq(Row) /\ none \in Row /\ none \in Seq(Chars)
      BY DEF Row
    <3> HIDE DEF none
    <3> QED BY <3>1, <3>2, <3>3 DEF Writing
  <2>5. ~Inside(t, 0)
    BY InsideSteps
  <2> HIDE DEF v, none
  <2>6. Common(t, d, 0, none, none, v)
    <3>1. Writing(t, d, v.pos, none, none, SubSeq(t, 0 + 1, v.pos))
      BY <2>1, <2>3, <2>4, Zenon
    <3> QED BY <2>1, <2>2, <3>1 DEF Common, none
  <2>7. Phase(t, d, 0, none, v)
    BY <2>1, <2>5 DEF Phase, Between
  <2>8. Fits(t, d, v)
    BY <2>6, <2>7, Zenon DEF Fits
  <2>9. g[0] = v
    BY <1>1, Zenon DEF v
  <2> QED BY <2>1, <2>8, <2>9
<1>3. ASSUME NEW n \in Nat, n \in K PROVE n + 1 \in K
  <2> SUFFICES ASSUME n + 1 <= L
               PROVE  /\ Fits(t, d, g[n + 1])
                      /\ \/ n + 1 <= g[n + 1].pos
                         \/ Still(n + 1) /\ Round(t, d, g[n + 1]) = g[n + 1]
    OBVIOUS
  <2>1. n \in 0..(L - 1) /\ n \in 0..L /\ n + 1 \in 0..L /\ n <= L
    BY <1>1
  <2>2. g[n + 1] = Round(t, d, g[n]) /\ Parsing(t, g[n]) /\ Parsing(t, g[n + 1])
    BY <1>1, <2>1
  <2>3. /\ Fits(t, d, g[n])
        /\ n <= g[n].pos \/ (Still(n) /\ Round(t, d, g[n]) = g[n])
    BY <1>3, <2>1
  <2> HIDE DEF K
  <2>4. Fits(t, d, g[n + 1])
    BY <2>2, <2>3, RoundFits
  <2>5. CASE Round(t, d, g[n]) = g[n] /\ Still(n)
    BY <2>2, <2>4, <2>5
  <2>6. CASE ~(Round(t, d, g[n]) = g[n] /\ Still(n))
    <3> HIDE DEF Still
    <3>1. n <= g[n].pos
      BY <2>3, <2>6
    <3>2. \/ Round(t, d, g[n]) = g[n] /\ Still(n)
          \/ Round(t, d, g[n]).pos > g[n].pos
      BY <2>2, RoundMoves DEF Still
    <3>3. g[n + 1].pos > g[n].pos /\ g[n].pos \in Nat /\ g[n + 1].pos \in Nat
      BY <2>2, <2>6, <3>2 DEF Parsing, IsParser
    <3> QED BY <2>4, <3>1, <3>3
  <2> QED BY <2>5, <2>6
<1>4. Nat \subseteq K
  <2> HIDE DEF K
  <2> QED BY <1>2, <1>3, Induction
<1>5. Fits(t, d, g[L]) /\ (L <= g[L].pos \/ Still(L))
  BY <1>1, <1>4
<1>6. Parsing(t, g[L]) /\ g[L].pos \in Nat /\ g[L].pos <= L
  BY <1>1 DEF Parsing, IsParser
<1>7. Still(L)
  BY <1>1, <1>5, <1>6
<1> QED BY <1>1, <1>5, <1>6, <1>7

\* The records a text has, written as they are.
Begun(t, d) == IF Last(Written(t, d)) = Blank THEN Front(Written(t, d)) ELSE Written(t, d)

LEMMA RecordsAre ==
  ASSUME NEW t, NEW d
  PROVE  Records(t, d) = UnquotedRows(Begun(t, d))
BY DEF Records, Begun, UnquotedRows, UnquotedRow

\* What is written ends with the record in hand.
LEMMA BegunIs ==
  ASSUME NEW t \in Seq(Chars), NEW d, NEW before, NEW cur, NEW w,
         Writing(t, d, Len(t), before, cur, w)
  PROVE  /\ cur = << >> /\ w = << >> => Begun(t, d) = before
         /\ cur # << >> \/ w # << >> => Begun(t, d) = Append(before, Append(cur, w))
<1> DEFINE record == Append(cur, w)
<1>1. before \in Seq(Row) /\ cur \in Row /\ w \in Seq(Chars)
      /\ Written(t, d) = Append(before, record)
  BY SofarIs DEF Writing
<1>2. record \in Row /\ Front(record) = cur /\ Last(record) = w
  BY <1>1, FrontAndLast DEF Row
<1>3. Blank = Append(<< >>, << >>)
  BY DEF Blank
<1>4. record = Blank <=> cur = << >> /\ w = << >>
  <2> DEFINE none == << >>
  <2>1. none \in Seq(Chars) /\ none \in Seq(Seq(Chars)) /\ cur \in Seq(Seq(Chars))
    BY <1>1 DEF Row
  <2> HIDE DEF none
  <2>2. Front(Append(none, none)) = none /\ Last(Append(none, none)) = none
    BY <2>1, FrontAndLast
  <2>3. record = Append(none, none) <=> cur = none /\ w = none
    BY <1>2, <2>2
  <2> QED BY <1>3, <2>3 DEF none
<1> HIDE DEF record
<1>5. Front(Written(t, d)) = before /\ Last(Written(t, d)) = record
  BY <1>1, <1>2, FrontAndLast
<1>6. /\ cur = << >> /\ w = << >> => Begun(t, d) = before
      /\ cur # << >> \/ w # << >> => Begun(t, d) = Append(before, record)
  BY <1>1, <1>4, <1>5 DEF Begun
<1> QED BY <1>6 DEF record

\* The text of a field joins the row in hand.
LEMMA FieldPushed ==
  ASSUME NEW t \in Seq(Chars), NEW s, Parsing(t, s), NEW u, u = PushField(t, s)
  PROVE  \E x \in Seq(Chars) : u.current_row = Append(s.current_row, x)
<1> DEFINE from == s.row_start + (IF s.field_start = Uninitialized THEN 0 ELSE s.field_start)
           field == GetField(SubSeq(t, from + 1, from + s.field_length), s.double_quote)
<1>1. u = [s EXCEPT !.current_row = Append(@, field), !.field_start = Uninitialized,
                    !.field_length = 0, !.double_quote = FALSE]
  BY DEF PushField
<1>2. field \in Seq(Chars)
  <2>1. from \in Nat /\ s.field_length \in Nat /\ from + s.field_length <= Len(t)
    BY DEF Parsing, IsParser, Uninitialized
  <2> HIDE DEF from
  <2>2. SubSeq(t, from + 1, from + s.field_length) \in Seq(Chars)
    BY <2>1, PartOf
  <2> QED BY <2>2, GetFieldType
<1> HIDE DEF field
<1> QED BY <1>1, <1>2 DEF Parsing, IsParser, ParserFields

\* The end of the file ends the field and the row in hand, if there are any.
LEMMA EndFeedIs ==
  ASSUME NEW t \in Seq(Chars), t # << >>, NEW d, IsDelimiter(d), NEW s, Parsing(t, s),
         NEW u, u = PushField(t, s)
  PROVE  /\ s.field_length > 0 \/ t[Len(t)] \in {d, Quote} =>
              EndFeed(t, d, s).rows = Append(s.rows, u.current_row)
         /\ s.field_length = 0 /\ t[Len(t)] \notin {d, Quote} /\ s.current_row = << >> =>
              EndFeed(t, d, s).rows = s.rows
<1> DEFINE c == Last(t)
           pushes == \/ s.field_length > 0
                     \/ t # << >> /\ ParseFlag(c, d) \in {"DELIMITER", "QUOTE"}
           v == IF pushes THEN u ELSE s
           e == EndFeed(t, d, s)
<1>1. e = IF v.current_row # << >> THEN PushRow(v) ELSE v
  BY DEF EndFeed
<1>2. c = t[Len(t)]
  BY DEF Last
<1>3. ParseFlag(c, d) \in {"DELIMITER", "QUOTE"} <=> c \in {d, Quote}
  <2>1. d # Newline /\ d # Quote /\ Quote # Newline
    BY CharsAssumption DEF IsDelimiter
  <2> QED BY <2>1 DEF ParseFlag
<1>4. IsParser(s) /\ s.field_length \in Nat
  BY DEF Parsing, IsParser
<1>5. u.rows = s.rows /\ DOMAIN u = ParserFields /\ IsParser(u)
  BY <1>4, PushFieldIs, PushFieldParses
<1>6. u.current_row # << >>
  <2>1. PICK x \in Seq(Chars) : u.current_row = Append(s.current_row, x)
    BY FieldPushed
  <2>2. Len(u.current_row) = Len(s.current_row) + 1 /\ Len(s.current_row) \in Nat
    BY <1>4, <2>1 DEF IsParser, Row
  <2> QED BY <2>2
<1> HIDE DEF c
<1>7. CASE s.field_length > 0 \/ t[Len(t)] \in {d, Quote}
  <2>1. pushes
    BY <1>2, <1>3, <1>7
  <2>2. e = PushRow(u)
    BY <1>1, <1>6, <2>1
  <2>3. e.rows = Append(s.rows, u.current_row)
    BY <1>5, <2>2 DEF PushRow, ParserFields
  <2>4. t[Len(t)] \in {d, Quote} \/ s.field_length # 0
    BY <1>4, <1>7
  <2> QED BY <2>3, <2>4
<1>8. CASE ~(s.field_length > 0 \/ t[Len(t)] \in {d, Quote})
  <2>1. ~pushes
    BY <1>2, <1>3, <1>8
  <2>2. s.current_row = << >> => e = s
    BY <1>1, <2>1
  <2> QED BY <1>8, <2>2
<1> QED BY <1>7, <1>8

\* The rows the parser finds, against what is written.
LEMMA ParsedIs ==
  ASSUME NEW t \in Seq(Chars), t # << >>, NEW d, IsDelimiter(d), Quoting(t, d)
  PROVE  \E before, cur, w, x :
           /\ Writing(t, d, Len(t), before, cur, w) /\ x \in Seq(Chars)
           /\ cur = << >> /\ w = << >> => ParsedOf(t, d) = UnquotedRows(before)
           /\ cur # << >> \/ w # << >> =>
                ParsedOf(t, d) = Append(UnquotedRows(before), Append(UnquotedRow(cur), x))
           /\ ~Inside(t, Len(t)) => x = Unquoted(w)
<1> DEFINE s == Parse(t, d, FALSE)
           u == PushField(t, s)
           L == Len(t)
           parsed == ParsedOf(t, d)
<1>1. parsed = EndFeed(t, d, s).rows
  BY DEF ParsedOf
<1>2. /\ Parsing(t, s) /\ Fits(t, d, s)
      /\ s.pos = L \/ (s.quote_escape /\ s.pos + 1 = L /\ t[s.pos + 1] = Quote)
  BY ParseFits
<1> HIDE DEF s
<1>3. PICK f, before, cur : Common(t, d, f, before, cur, s) /\ Phase(t, d, f, cur, s)
  BY <1>2 DEF Fits
<1>4. /\ L \in Nat \ {0} /\ f \in Nat /\ s.pos \in Nat /\ f <= s.pos /\ s.pos <= L
      /\ IsParser(s) /\ cur \in Row /\ before \in Seq(Row)
      /\ s.current_row = UnquotedRow(cur) /\ s.rows = UnquotedRows(before)
      /\ s.field_length \in Nat /\ s.row_start \in Nat
      /\ Writing(t, d, s.pos, before, cur, SubSeq(t, f + 1, s.pos))
  BY <1>2, <1>3 DEF Common, Writing, Parsing, IsParser
<1>5. /\ s.field_length > 0 \/ t[L] \in {d, Quote} => parsed = Append(s.rows, u.current_row)
      /\ s.field_length = 0 /\ t[L] = Newline /\ s.current_row = << >> => parsed = s.rows
  <2>1. t[L] = Newline => t[L] \notin {d, Quote}
    BY CharsAssumption DEF IsDelimiter
  <2> QED BY <1>1, <1>2, <2>1, EndFeedIs
<1>6. \E x \in Seq(Chars) : u.current_row = Append(s.current_row, x)
  BY <1>2, FieldPushed
<1> HIDE DEF u, parsed
<1>7. CASE s.pos = L /\ Between(t, d, f, cur, s)
  <2> DEFINE w == SubSeq(t, f + 1, s.pos)
             none == << >>
  <2>1. w = none /\ none \in Seq(Chars) /\ Unquoted(none) = none
    BY <1>4, <1>7 DEF Between, Unquoted
  <2>2. Writing(t, d, L, before, cur, none)
    <3> HIDE DEF none
    <3> QED BY <1>4, <1>7, <2>1
  <2>3. f = L /\ f # 0 /\ s.field_length = 0
    BY <1>4, <1>7 DEF Between
  <2>4. CASE t[f] = d /\ cur # << >>
    <3>1. parsed = Append(s.rows, u.current_row)
      BY <1>5, <2>3, <2>4
    <3>2. u.current_row = UnquotedRow(Append(cur, w))
      BY <1>2, <1>3, <1>7, PushFits DEF u
    <3>3. UnquotedRow(Append(cur, none)) = Append(UnquotedRow(cur), none)
      BY <1>4, <2>1, UnquotedRowIs
    <3>4. parsed = Append(UnquotedRows(before), Append(UnquotedRow(cur), none))
      BY <1>4, <2>1, <3>1, <3>2, <3>3
    <3> HIDE DEF none
    <3> QED BY <2>1, <2>2, <2>4, <3>4 DEF parsed
  <2>5. CASE t[f] = Newline /\ cur = << >>
    <3>1. s.current_row = none
      BY <1>4, <2>5 DEF UnquotedRow
    <3>2. parsed = UnquotedRows(before)
      BY <1>4, <1>5, <2>3, <2>5, <3>1
    <3> HIDE DEF none
    <3> QED BY <2>1, <2>2, <2>5, <3>2 DEF parsed, none
  <2> QED BY <1>7, <2>3, <2>4, <2>5 DEF Between
<1>8. CASE s.pos = L /\ Bare(t, d, f, s)
  <2> DEFINE w == SubSeq(t, f + 1, s.pos)
  <2>1. s.field_length > 0 /\ f < L
    BY <1>4, <1>8 DEF Bare
  <2>2. parsed = Append(s.rows, u.current_row)
    BY <1>5, <2>1
  <2>3. u.current_row = UnquotedRow(Append(cur, w))
    BY <1>2, <1>3, <1>8, PushFits DEF u
  <2>4. w \in Seq(Chars) /\ w # << >>
    <3>1. w \in Seq(Chars) /\ Len(w) = s.pos - f
      BY <1>4, FieldIs
    <3>2. s.pos - f > 0
      BY <1>4, <1>8, <2>1
    <3> HIDE DEF w
    <3> QED BY <3>1, <3>2
  <2>5. Writing(t, d, L, before, cur, w)
    BY <1>4, <1>8
  <2> HIDE DEF w
  <2>6. UnquotedRow(Append(cur, w)) = Append(UnquotedRow(cur), Unquoted(w)) /\ Unquoted(w) \in Seq(Chars)
    BY <1>4, <2>4, UnquotedRowIs, UnquotedType
  <2>7. parsed = Append(UnquotedRows(before), Append(UnquotedRow(cur), Unquoted(w)))
    BY <1>4, <2>2, <2>3, <2>6
  <2> QED BY <2>4, <2>5, <2>6, <2>7 DEF parsed
<1>9. CASE s.pos = L /\ (Quoted(t, f, s) \/ Opened(t, f, s))
  <2> DEFINE w == SubSeq(t, f + 1, s.pos)
  <2>1. f < s.pos /\ Inside(t, L)
    BY <1>4, <1>9 DEF Quoted, Opened
  <2>2. s.field_length > 0 \/ t[L] \in {d, Quote}
    <3>1. CASE Quoted(t, f, s)
      BY <1>4, <1>9, <3>1 DEF Quoted
    <3>2. CASE Opened(t, f, s)
      <4>1. t[L] = Quote
        BY <3>2 DEF Opened
      <4> QED BY <4>1
    <3> QED BY <1>9, <3>1, <3>2
  <2>3. parsed = Append(s.rows, u.current_row)
    BY <1>5, <2>2
  <2>4. w \in Seq(Chars) /\ w # << >>
    <3>1. w \in Seq(Chars) /\ Len(w) = s.pos - f
      BY <1>4, FieldIs
    <3>2. s.pos - f > 0
      BY <1>4, <2>1
    <3> HIDE DEF w
    <3> QED BY <3>1, <3>2
  <2>5. Writing(t, d, L, before, cur, w)
    BY <1>4, <1>9
  <2> HIDE DEF w
  <2>6. PICK x \in Seq(Chars) : u.current_row = Append(s.current_row, x)
    BY <1>6
  <2>7. parsed = Append(UnquotedRows(before), Append(UnquotedRow(cur), x))
    BY <1>4, <2>3, <2>6
  <2> QED BY <2>1, <2>4, <2>5, <2>7 DEF parsed
<1>10. CASE s.pos # L
  <2> DEFINE p == s.pos
             w == SubSeq(t, f + 1, p + 1)
  <2>1. s.quote_escape /\ p + 1 = L /\ t[p + 1] = Quote
    BY <1>2, <1>10
  <2>2. Quoted(t, f, s)
    BY <1>3, <1>10, <2>1 DEF Phase, Between, Bare, Closed, Opened
  <2>3. /\ p \in Nat /\ L \in Nat /\ f < p /\ p < L /\ s.field_start # Uninitialized
        /\ s.row_start + s.field_start = f + 1 /\ f + 1 + s.field_length = p
        /\ Inside(t, p) /\ t[f + 1] = Quote
        /\ ~s.double_quote => \A k \in (f + 1)..(p - 1) : t[k + 1] # Quote
    BY <1>4, <2>1, <2>2 DEF Quoted
  <2>4. w \in Seq(Chars) /\ Len(w) = p + 1 - f /\ \A i \in 1..(p + 1 - f) : w[i] = t[f + i]
    <3> DEFINE q == p + 1
    <3>1. q \in Nat /\ f <= q /\ q <= L
      BY <1>4, <2>3
    <3> HIDE DEF q
    <3>2. SubSeq(t, f + 1, q) \in Seq(Chars) /\ Len(SubSeq(t, f + 1, q)) = q - f
          /\ \A i \in 1..(q - f) : SubSeq(t, f + 1, q)[i] = t[f + i]
      BY <1>4, <3>1, FieldIs
    <3>3. w = SubSeq(t, f + 1, q)
      BY Zenon DEF q
    <3>4. q = p + 1
      BY Zenon DEF q
    <3> HIDE DEF w, p
    <3>5. q - f = p + 1 - f
      BY <1>4, <2>3, <3>4
    <3> QED BY <3>2, <3>3, <3>5
  <2>5. Writing(t, d, L, before, cur, w)
    <3> DEFINE a == SubSeq(t, f + 1, p)
    <3>1. Writing(t, d, p, before, cur, a)
      BY <1>4
    <3>2. Append(a, t[p + 1]) = w
      <4>1. f <= p
        BY <1>4
      <4> HIDE DEF p
      <4> QED BY <1>4, <2>3, <4>1, OneLonger
    <3> HIDE DEF a, w
    <3>3. Writing(t, d, p + 1, before, cur, Append(a, t[p + 1]))
      BY <1>4, <2>3, <3>1, WritingStep
    <3> QED BY <2>1, <3>2, <3>3
  <2>6. parsed = Append(s.rows, u.current_row)
    BY <1>5, <2>1
  <2>7. Len(w) >= 2 /\ w[1] = Quote
    <3> HIDE DEF p, w
    <3> QED BY <1>4, <2>3, <2>4
  <2>8. ~s.double_quote => \A i \in 2..(Len(w) - 1) : w[i] # Quote
    <3> SUFFICES ASSUME ~s.double_quote, NEW i \in 2..(Len(w) - 1) PROVE w[i] # Quote
      OBVIOUS
    <3>1. f + i - 1 \in (f + 1)..(p - 1) /\ f + i - 1 + 1 = f + i /\ i \in 1..(p + 1 - f)
      <4> HIDE DEF p, w
      <4> QED BY <1>4, <2>3, <2>4
    <3> QED BY <2>3, <2>4, <3>1
  <2>9. u.current_row = Append(s.current_row, GetField(SubSeq(t, f + 1 + 1, p), s.double_quote))
    <3>1. u.current_row = Append(s.current_row,
            GetField(SubSeq(t, s.row_start + s.field_start + 1,
                            s.row_start + s.field_start + s.field_length), s.double_quote))
      BY <1>4, <2>3, PushFieldIs DEF u
    <3>2. s.row_start + s.field_start + 1 = f + 1 + 1 /\ s.row_start + s.field_start + s.field_length = p
      BY <1>4, <2>3
    <3> HIDE DEF p
    <3> QED BY <3>1, <3>2
  <2>10. SubSeq(t, f + 1 + 1, p) = SubSeq(w, 2, Len(w) - 1)
    <3> DEFINE n == Len(w) - 2
               a == SubSeq(t, f + 1 + 1, p)
               b == SubSeq(w, 1 + 1, Len(w) - 1)
    <3>1. /\ n \in Nat /\ n = p - f - 1 /\ f + 1 \in Nat /\ f + 1 <= p /\ p <= L /\ p - (f + 1) = n
          /\ 1 <= Len(w) - 1 /\ Len(w) - 1 \in Nat /\ Len(w) - 1 <= Len(w) /\ (Len(w) - 1) - 1 = n
      <4> HIDE DEF p, w
      <4> QED BY <1>4, <2>3, <2>4, <2>7
    <3> HIDE DEF n, p, w
    <3>2. a \in Seq(Chars) /\ Len(a) = n /\ \A i \in 1..n : a[i] = t[f + 1 + i]
      BY SMTT(20), <1>4, <2>3, <3>1, FieldIs
    <3>3. b \in Seq(Chars) /\ Len(b) = n /\ \A i \in 1..n : b[i] = w[1 + i]
      BY <2>4, <3>1, FieldIs
    <3>4. \A i \in 1..n : 1 + i \in 1..(p + 1 - f) /\ f + (1 + i) = f + 1 + i
      BY <1>4, <2>3, <3>1
    <3> HIDE DEF a, b
    <3>5. \A i \in 1..n : a[i] = b[i]
      BY <2>4, <3>2, <3>3, <3>4
    <3>6. a = b
      BY <3>2, <3>3, <3>5, SeqEqual
    <3>7. 1 + 1 = 2
      OBVIOUS
    <3> QED BY <3>6, <3>7 DEF a, b
  <2> HIDE DEF w, p
  <2>11. GetField(SubSeq(w, 2, Len(w) - 1), s.double_quote) = Unquoted(w)
    <3>1. s.double_quote \in BOOLEAN
      BY <1>4 DEF IsParser
    <3> QED BY <2>4, <2>7, <2>8, <3>1, QuotedField
  <2>12. parsed = Append(UnquotedRows(before), Append(UnquotedRow(cur), Unquoted(w)))
    BY <1>4, <2>6, <2>9, <2>10, <2>11
  <2>13. Unquoted(w) \in Seq(Chars) /\ w # << >>
    BY <2>4, <2>7, UnquotedType
  <2> QED BY <2>5, <2>12, <2>13 DEF parsed
<1>11. ~(s.pos = L /\ Closed(t, d, f, s))
  BY DEF Closed
<1> QED BY <1>3, <1>7, <1>8, <1>9, <1>10, <1>11 DEF Phase, parsed

\* Of a text that quotes properly the parser finds the records.
THEOREM ParsesRecords ==
  ASSUME NEW t \in Seq(Chars), t # << >>, NEW d, IsDelimiter(d), WellFormed(t, d)
  PROVE  ParsedOf(t, d) = Records(t, d)
<1>1. Quoting(t, d) /\ ~Inside(t, Len(t))
  <2>1. Quoting(t, d) /\ QuotesBefore(t, Len(t) + 1) % 2 = 0
    BY DEF WellFormed
  <2> QED BY <2>1, QuotesType
<1>2. PICK before, cur, w, x :
        /\ Writing(t, d, Len(t), before, cur, w) /\ x \in Seq(Chars)
        /\ cur = << >> /\ w = << >> => ParsedOf(t, d) = UnquotedRows(before)
        /\ cur # << >> \/ w # << >> =>
             ParsedOf(t, d) = Append(UnquotedRows(before), Append(UnquotedRow(cur), x))
        /\ ~Inside(t, Len(t)) => x = Unquoted(w)
  BY <1>1, ParsedIs
<1>3. before \in Seq(Row) /\ cur \in Row /\ w \in Seq(Chars) /\ Append(cur, w) \in Row
  BY <1>2 DEF Writing, Row
<1>4. UnquotedRows(Append(before, Append(cur, w))) =
        Append(UnquotedRows(before), Append(UnquotedRow(cur), x))
  <2>1. UnquotedRow(Append(cur, w)) = Append(UnquotedRow(cur), Unquoted(w))
    BY <1>3, UnquotedRowIs
  <2>2. x = Unquoted(w)
    BY <1>1, <1>2
  <2> QED BY <1>3, <2>1, <2>2, UnquotedRowsIs
<1>5. /\ cur = << >> /\ w = << >> => Begun(t, d) = before
      /\ cur # << >> \/ w # << >> => Begun(t, d) = Append(before, Append(cur, w))
  BY <1>2, BegunIs
<1>6. ParsedOf(t, d) = UnquotedRows(Begun(t, d))
  BY <1>2, <1>4, <1>5
<1> QED BY <1>6, RecordsAre

\* Even of one that breaks off inside quotes it finds all, each as wide as it is.
LEMMA ParsesWidths ==
  ASSUME NEW t \in Seq(Chars), t # << >>, NEW d, IsDelimiter(d), Quoting(t, d)
  PROVE  /\ Begun(t, d) \in Seq(Row) /\ ParsedOf(t, d) \in Seq(Row)
         /\ Len(ParsedOf(t, d)) = Len(Begun(t, d))
         /\ \A n \in 1..Len(Begun(t, d)) : Len(ParsedOf(t, d)[n]) = Len(Begun(t, d)[n])
<1> DEFINE parsed == ParsedOf(t, d)
           begun == Begun(t, d)
<1>1. PICK before, cur, w, x :
        /\ Writing(t, d, Len(t), before, cur, w) /\ x \in Seq(Chars)
        /\ cur = << >> /\ w = << >> => parsed = UnquotedRows(before)
        /\ cur # << >> \/ w # << >> =>
             parsed = Append(UnquotedRows(before), Append(UnquotedRow(cur), x))
  BY ParsedIs
<1>2. before \in Seq(Row) /\ cur \in Row /\ w \in Seq(Chars) /\ Append(cur, w) \in Row
  BY <1>1 DEF Writing, Row
<1>3. /\ cur = << >> /\ w = << >> => begun = before
      /\ cur # << >> \/ w # << >> => begun = Append(before, Append(cur, w))
  BY <1>1, BegunIs
<1> HIDE DEF parsed, begun
<1> DEFINE rows == UnquotedRows(before)
           row == UnquotedRow(cur)
<1>4. /\ rows \in Seq(Row) /\ Len(rows) = Len(before) /\ Len(before) \in Nat
      /\ \A n \in 1..Len(before) : rows[n] = UnquotedRow(before[n])
  BY <1>2, UnquotedRowsIs
<1>5. \A r \in Row : UnquotedRow(r) \in Row /\ Len(UnquotedRow(r)) = Len(r)
  BY UnquotedRowIs
<1>6. \A n \in 1..Len(before) : Len(rows[n]) = Len(before[n])
  BY <1>2, <1>4, <1>5
<1>7. row \in Seq(Seq(Chars)) /\ cur \in Seq(Seq(Chars)) /\ Len(row) = Len(cur) /\ x \in Seq(Chars)
  BY <1>1, <1>2, <1>5 DEF Row
<1> HIDE DEF rows, row
<1>8. CASE cur = << >> /\ w = << >>
  <2>1. parsed = rows /\ begun = before
    BY <1>1, <1>3, <1>8 DEF rows
  <2> QED BY <1>2, <1>4, <1>6, <2>1 DEF parsed, begun
<1>9. CASE cur # << >> \/ w # << >>
  <2> DEFINE a == Append(row, x)
             b == Append(cur, w)
  <2>1. parsed = Append(rows, a) /\ begun = Append(before, b)
    BY <1>1, <1>3, <1>9 DEF rows, row
  <2>2. a \in Row /\ b \in Row /\ Len(a) = Len(b)
    BY <1>2, <1>7 DEF Row
  <2> HIDE DEF a, b
  <2>3. parsed \in Seq(Row) /\ begun \in Seq(Row) /\ Len(parsed) = Len(begun)
        /\ Len(begun) = Len(before) + 1
    BY <1>2, <1>4, <2>1, <2>2
  <2>4. \A n \in 1..(Len(before) + 1) : n \in 1..Len(before) \/ n = Len(before) + 1
    BY <1>4
  <2>5. \A n \in 1..Len(before) : parsed[n] = rows[n] /\ begun[n] = before[n]
    BY <1>2, <1>4, <2>1, <2>2
  <2>6. parsed[Len(before) + 1] = a /\ begun[Len(before) + 1] = b
    BY <1>2, <1>4, <2>1, <2>2
  <2>7. \A n \in 1..Len(begun) : Len(parsed[n]) = Len(begun[n])
    BY <1>6, <2>2, <2>3, <2>4, <2>5, <2>6
  <2> QED BY <2>3, <2>7 DEF parsed, begun
<1> QED BY <1>8, <1>9

-----------------------------------------------------------------------------
(* What is written is not lost *)

\* From a to b records have been added and the last of a continued.
Grows(a, b) ==
  /\ a \in Seq(Row) /\ a # << >> /\ b \in Seq(Row)
  /\ Len(a) <= Len(b)
  /\ \A n \in 1..(Len(a) - 1) : b[n] = a[n]
  /\ Len(a[Len(a)]) <= Len(b[Len(a)])
  /\ b[Len(a)] = Blank => a[Len(a)] = Blank
  /\ (\A n \in 1..Len(a) : Len(a[n]) > 0) => \A n \in 1..Len(b) : Len(b[n]) > 0

LEMMA GrowsOn ==
  ASSUME NEW a, NEW b, NEW c, Grows(a, b), Grows(b, c)
  PROVE  Grows(a, c)
<1>1. /\ a \in Seq(Row) /\ a # << >> /\ b \in Seq(Row) /\ c \in Seq(Row)
      /\ Len(a) \in Nat \ {0} /\ Len(b) \in Nat /\ Len(c) \in Nat
      /\ Len(a) <= Len(b) /\ Len(b) <= Len(c)
  BY DEF Grows
<1>2. \A n \in 1..(Len(a) - 1) : b[n] = a[n] /\ n \in 1..(Len(b) - 1)
  BY <1>1 DEF Grows
<1>3. \A n \in 1..(Len(b) - 1) : c[n] = b[n]
  BY DEF Grows
<1>4. \A n \in 1..(Len(a) - 1) : c[n] = a[n]
  BY <1>2, <1>3
<1>5. \A n \in 1..Len(a) : Len(a[n]) \in Nat /\ Len(b[n]) \in Nat /\ Len(c[n]) \in Nat
  <2>1. \A n \in 1..Len(a) : n \in 1..Len(b) /\ n \in 1..Len(c)
    BY <1>1
  <2>2. \A n \in 1..Len(a) : a[n] \in Row /\ b[n] \in Row /\ c[n] \in Row
    BY <1>1, <2>1
  <2> QED BY <2>2 DEF Row
<1>6. /\ Len(a[Len(a)]) <= Len(b[Len(a)])
      /\ b[Len(a)] = Blank => a[Len(a)] = Blank
      /\ Len(b[Len(b)]) <= Len(c[Len(b)])
      /\ c[Len(b)] = Blank => b[Len(b)] = Blank
  BY DEF Grows
<1>7. Len(a[Len(a)]) <= Len(c[Len(a)]) /\ (c[Len(a)] = Blank => a[Len(a)] = Blank)
  <2>1. CASE Len(a) = Len(b)
    <3>1. Len(b[Len(a)]) <= Len(c[Len(a)]) /\ (c[Len(a)] = Blank => b[Len(a)] = Blank)
      BY <1>6, <2>1
    <3>2. Len(a) \in 1..Len(a)
      BY <1>1
    <3> QED BY <1>5, <1>6, <3>1, <3>2
  <2>2. CASE Len(a) # Len(b)
    <3>1. Len(a) \in 1..(Len(b) - 1)
      BY <1>1, <2>2
    <3>2. c[Len(a)] = b[Len(a)]
      BY <1>3, <3>1
    <3> QED BY <1>6, <3>2
  <2> QED BY <2>1, <2>2
<1>8. (\A n \in 1..Len(a) : Len(a[n]) > 0) => \A n \in 1..Len(c) : Len(c[n]) > 0
  BY DEF Grows
<1>9. Len(a) <= Len(c)
  BY <1>1
<1> QED BY <1>1, <1>4, <1>7, <1>8, <1>9 DEF Grows

\* What has been written, as a sequence of records.
LEMMA WritingIs ==
  ASSUME NEW t, NEW d, NEW p, NEW before, NEW cur, NEW w, Writing(t, d, p, before, cur, w),
         NEW g, g = Sofar(t, d)[p]
  PROVE  /\ before \in Seq(Row) /\ cur \in Row /\ w \in Seq(Chars)
         /\ g = Append(before, Append(cur, w))
         /\ g \in Seq(Row) /\ g # << >> /\ Len(before) \in Nat /\ Len(g) = Len(before) + 1
         /\ \A n \in 1..Len(before) : g[n] = before[n]
         /\ g[Len(g)] = Append(cur, w) /\ Len(g[Len(g)]) = Len(cur) + 1 /\ Len(cur) \in Nat
         /\ g[Len(g)] = Blank <=> cur = << >> /\ w = << >>
<1> DEFINE record == Append(cur, w)
<1>1. before \in Seq(Row) /\ cur \in Row /\ w \in Seq(Chars) /\ g = Append(before, record)
  BY DEF Writing
<1>2. record \in Row /\ Front(record) = cur /\ Last(record) = w
      /\ Len(record) = Len(cur) + 1 /\ Len(cur) \in Nat
  BY <1>1, FrontAndLast DEF Row
<1>3. record = Blank <=> cur = << >> /\ w = << >>
  <2> DEFINE none == << >>
  <2>1. none \in Seq(Chars) /\ none \in Seq(Seq(Chars)) /\ cur \in Seq(Seq(Chars))
    BY <1>1 DEF Row
  <2> HIDE DEF none
  <2>2. Front(Append(none, none)) = none /\ Last(Append(none, none)) = none
    BY <2>1, FrontAndLast
  <2>3. record = Append(none, none) <=> cur = none /\ w = none
    BY <1>2, <2>2
  <2>4. Blank = Append(<< >>, << >>)
    BY DEF Blank
  <2> QED BY <2>3, <2>4 DEF none
<1> HIDE DEF record
<1>4. /\ g \in Seq(Row) /\ g # << >> /\ Len(before) \in Nat /\ Len(g) = Len(before) + 1
      /\ \A n \in 1..Len(before) : g[n] = before[n]
      /\ g[Len(g)] = record
  BY <1>1, <1>2
<1> QED BY <1>1, <1>2, <1>3, <1>4 DEF record

LEMMA WritingAll ==
  ASSUME NEW t \in Seq(Chars), NEW d, IsDelimiter(d)
  PROVE  \A p \in 0..Len(t) : \E before, cur, w : Writing(t, d, p, before, cur, w)
<1> DEFINE L == Len(t)
           K == {p \in Nat : p <= L => \E before, cur, w : Writing(t, d, p, before, cur, w)}
<1>1. L \in Nat
  OBVIOUS
<1>2. 0 \in K
  <2> DEFINE none == << >>
  <2>1. Sofar(t, d)[0] = <<Blank>>
    BY SofarIs
  <2>2. <<Blank>> = Append(none, Append(none, none))
    BY DEF Blank
  <2>3. none \in Seq(Row) /\ none \in Row /\ none \in Seq(Chars)
    BY DEF Row
  <2> HIDE DEF none
  <2>4. Writing(t, d, 0, none, none, none)
    BY <2>1, <2>2, <2>3 DEF Writing
  <2> QED BY <2>4
<1>3. ASSUME NEW p \in Nat, p \in K PROVE p + 1 \in K
  <2> SUFFICES ASSUME p + 1 <= L PROVE \E before, cur, w : Writing(t, d, p + 1, before, cur, w)
    OBVIOUS
  <2>1. p < Len(t) /\ p <= L
    BY <1>1
  <2>2. PICK before, cur, w : Writing(t, d, p, before, cur, w)
    BY <1>3, <2>1
  <2> HIDE DEF K
  <2> DEFINE none == << >>
             c == t[p + 1]
  <2>3. /\ Inside(t, p) \/ c \notin {d, Newline} => Writing(t, d, p + 1, before, cur, Append(w, c))
        /\ ~Inside(t, p) /\ c = d => Writing(t, d, p + 1, before, Append(cur, w), none)
        /\ ~Inside(t, p) /\ c = Newline =>
             IF before # << >> /\ cur = << >> /\ w = << >>
             THEN Writing(t, d, p + 1, before, cur, w)
             ELSE Writing(t, d, p + 1, Append(before, Append(cur, w)), none, none)
    BY <2>1, <2>2, WritingStep
  <2> HIDE DEF none, c
  <2> QED BY <2>3
<1>4. Nat \subseteq K
  <2> HIDE DEF K
  <2> QED BY <1>2, <1>3, Induction
<1> QED BY <1>1, <1>4

\* One more character.  A line end begins a record, unless it follows another.
LEMMA GrowsStep ==
  ASSUME NEW t \in Seq(Chars), NEW d, IsDelimiter(d), NEW p \in Nat, p < Len(t),
         NEW a, a = Sofar(t, d)[p], NEW b, b = Sofar(t, d)[p + 1]
  PROVE  /\ Grows(a, b)
         /\ t[p + 1] # Newline => b[Len(b)] # Blank
         /\ t[p + 1] = Newline /\ ~Inside(t, p) /\ (Len(a) = 1 \/ a[Len(a)] # Blank) =>
              Len(b) = Len(a) + 1
<1> DEFINE c == t[p + 1]
           none == << >>
<1>1. p \in 0..Len(t) /\ p + 1 \in 0..Len(t) /\ c \in Chars
  OBVIOUS
<1>2. PICK before, cur, w : Writing(t, d, p, before, cur, w)
  BY <1>1, WritingAll
<1>3. /\ before \in Seq(Row) /\ cur \in Row /\ w \in Seq(Chars)
      /\ a \in Seq(Row) /\ a # << >> /\ Len(before) \in Nat /\ Len(a) = Len(before) + 1
      /\ \A n \in 1..Len(before) : a[n] = before[n]
      /\ a[Len(a)] = Append(cur, w) /\ Len(a[Len(a)]) = Len(cur) + 1 /\ Len(cur) \in Nat
      /\ a[Len(a)] = Blank <=> cur = << >> /\ w = << >>
      /\ a = Append(before, Append(cur, w))
  BY SMTT(20), <1>2, WritingIs
<1>4. /\ Inside(t, p) \/ c \notin {d, Newline} => Writing(t, d, p + 1, before, cur, Append(w, c))
      /\ ~Inside(t, p) /\ c = d => Writing(t, d, p + 1, before, Append(cur, w), none)
      /\ ~Inside(t, p) /\ c = Newline =>
           IF before # << >> /\ cur = << >> /\ w = << >>
           THEN Writing(t, d, p + 1, before, cur, w)
           ELSE Writing(t, d, p + 1, Append(before, Append(cur, w)), none, none)
  BY <1>2, WritingStep
<1>5. \A e, f, x : Writing(t, d, p + 1, e, f, x) =>
        /\ b \in Seq(Row) /\ b # << >> /\ Len(e) \in Nat /\ Len(b) = Len(e) + 1
        /\ \A n \in 1..Len(e) : b[n] = e[n]
        /\ Len(b[Len(b)]) = Len(f) + 1 /\ Len(f) \in Nat
        /\ b[Len(b)] = Blank <=> f = << >> /\ x = << >>
        /\ b = Append(e, Append(f, x))
  <2> SUFFICES ASSUME NEW e, NEW f, NEW x, Writing(t, d, p + 1, e, f, x)
               PROVE  /\ b \in Seq(Row) /\ b # << >> /\ Len(e) \in Nat /\ Len(b) = Len(e) + 1
                      /\ \A n \in 1..Len(e) : b[n] = e[n]
                      /\ Len(b[Len(b)]) = Len(f) + 1 /\ Len(f) \in Nat
                      /\ b[Len(b)] = Blank <=> f = << >> /\ x = << >>
                      /\ b = Append(e, Append(f, x))
    OBVIOUS
  <2> DEFINE r == p + 1
  <2>1. Writing(t, d, r, e, f, x) /\ b = Sofar(t, d)[r]
    OBVIOUS
  <2> HIDE DEF r
  <2> QED BY SMTT(20), <2>1, WritingIs
<1>6. before = << >> <=> Len(a) = 1
  BY <1>3
<1>7. d # Newline
  BY DEF IsDelimiter
<1> HIDE DEF c, none
<1>8. CASE Inside(t, p) \/ c \notin {d, Newline}
  <2> DEFINE x == Append(w, c)
  <2>1. Writing(t, d, p + 1, before, cur, x)
    BY <1>4, <1>8
  <2>2. x # << >>
    BY <1>1, <1>3
  <2> HIDE DEF x
  <2>3. /\ b \in Seq(Row) /\ Len(b) = Len(before) + 1
        /\ \A n \in 1..Len(before) : b[n] = before[n]
        /\ Len(b[Len(b)]) = Len(cur) + 1 /\ b[Len(b)] # Blank
    BY <1>5, <2>1, <2>2
  <2>4. Grows(a, b)
    <3>1. Len(b) = Len(a) /\ Len(a) - 1 = Len(before)
      BY <1>3, <2>3
    <3>2. \A n \in 1..Len(b) : n \in 1..Len(before) \/ n = Len(b)
      BY <1>3, <2>3
    <3>3. \A n \in 1..Len(b) : n # Len(b) => b[n] = a[n]
      BY <1>3, <2>3, <3>2
    <3>4. Len(a[Len(a)]) <= Len(b[Len(a)]) /\ b[Len(a)] # Blank /\ Len(b[Len(b)]) > 0
      BY <1>3, <2>3, <3>1
    <3>5. (\A n \in 1..Len(a) : Len(a[n]) > 0) => \A n \in 1..Len(b) : Len(b[n]) > 0
      BY <3>1, <3>3, <3>4
    <3>6. \A n \in 1..(Len(a) - 1) : b[n] = a[n]
      BY <1>3, <2>3, <3>1
    <3>7. Len(a) <= Len(b)
      BY <1>3, <3>1
    <3> QED BY <1>3, <2>3, <3>4, <3>5, <3>6, <3>7 DEF Grows
  <2> QED BY <1>8, <2>3, <2>4 DEF c
<1>9. CASE ~Inside(t, p) /\ c = d
  <2> DEFINE f == Append(cur, w)
  <2>1. Writing(t, d, p + 1, before, f, none)
    BY <1>4, <1>9
  <2>2. Len(f) = Len(cur) + 1 /\ f # << >>
    <3>1. cur \in Seq(Seq(Chars)) /\ w \in Seq(Chars)
      BY <1>3 DEF Row
    <3>2. Len(f) = Len(cur) + 1 /\ Len(cur) \in Nat
      BY <3>1
    <3> HIDE DEF f
    <3> QED BY <3>2
  <2> HIDE DEF f
  <2>3. /\ b \in Seq(Row) /\ Len(b) = Len(before) + 1
        /\ \A n \in 1..Len(before) : b[n] = before[n]
        /\ Len(b[Len(b)]) = Len(cur) + 2 /\ b[Len(b)] # Blank
    BY SMTT(20), <1>3, <1>5, <2>1, <2>2
  <2>4. Grows(a, b)
    <3>1. Len(b) = Len(a) /\ Len(a) - 1 = Len(before)
      BY <1>3, <2>3
    <3>2. \A n \in 1..Len(b) : n \in 1..Len(before) \/ n = Len(b)
      BY <1>3, <2>3
    <3>3. \A n \in 1..Len(b) : n # Len(b) => b[n] = a[n]
      BY <1>3, <2>3, <3>2
    <3>4. Len(a[Len(a)]) <= Len(b[Len(a)]) /\ b[Len(a)] # Blank /\ Len(b[Len(b)]) > 0
      BY <1>3, <2>3, <3>1
    <3>5. (\A n \in 1..Len(a) : Len(a[n]) > 0) => \A n \in 1..Len(b) : Len(b[n]) > 0
      BY <3>1, <3>3, <3>4
    <3>6. \A n \in 1..(Len(a) - 1) : b[n] = a[n]
      BY <1>3, <2>3, <3>1
    <3>7. Len(a) <= Len(b)
      BY <1>3, <3>1
    <3> QED BY <1>3, <2>3, <3>4, <3>5, <3>6, <3>7 DEF Grows
  <2> QED BY <1>7, <1>9, <2>3, <2>4 DEF c
<1>10. CASE ~Inside(t, p) /\ c = Newline /\ before # << >> /\ cur = << >> /\ w = << >>
  <2>1. Writing(t, d, p + 1, before, cur, w)
    BY <1>4, <1>10
  <2>2. b = a
    BY <1>3, <1>5, <2>1
  <2>3. Grows(a, b)
    <3>1. Len(a) \in 1..Len(a) /\ Len(a[Len(a)]) \in Nat
      BY <1>3
    <3> QED BY <1>3, <2>2, <3>1 DEF Grows
  <2> QED BY <1>3, <1>6, <1>10, <2>3 DEF c
<1>11. CASE ~Inside(t, p) /\ c = Newline /\ ~(before # << >> /\ cur = << >> /\ w = << >>)
  <2>1. Writing(t, d, p + 1, a, none, none)
    BY <1>3, <1>4, <1>11
  <2>2. /\ b \in Seq(Row) /\ Len(b) = Len(a) + 1 /\ Len(a) \in Nat \ {0}
        /\ \A n \in 1..Len(a) : b[n] = a[n]
        /\ Len(b[Len(b)]) > 0
    <3>1. /\ b \in Seq(Row) /\ Len(b) = Len(a) + 1
          /\ \A n \in 1..Len(a) : b[n] = a[n]
          /\ Len(b[Len(b)]) = Len(none) + 1 /\ Len(none) \in Nat
      BY <1>5, <2>1
    <3>2. Len(a) \in Nat \ {0}
      BY <1>3
    <3>3. Len(b[Len(b)]) > 0
      BY <3>1
    <3> QED BY <3>1, <3>2, <3>3
  <2>3. Grows(a, b)
    <3>1. \A n \in 1..Len(b) : n \in 1..Len(a) \/ n = Len(b)
      BY <2>2
    <3>2. (\A n \in 1..Len(a) : Len(a[n]) > 0) => \A n \in 1..Len(b) : Len(b[n]) > 0
      BY <2>2, <3>1
    <3>3. \A n \in 1..(Len(a) - 1) : n \in 1..Len(a)
      BY <2>2
    <3>4. b[Len(a)] = a[Len(a)] /\ Len(a[Len(a)]) \in Nat
      <4>1. Len(a) \in 1..Len(a)
        BY <2>2
      <4>2. Len(a[Len(a)]) \in Nat
        BY <1>3
      <4> QED BY <2>2, <4>1, <4>2
    <3>5. Len(a) <= Len(b) /\ \A n \in 1..(Len(a) - 1) : b[n] = a[n]
      BY <2>2, <3>3
    <3>6. a \in Seq(Row) /\ a # << >> /\ Len(a[Len(a)]) <= Len(b[Len(a)])
      BY SMTT(20), <1>3, <3>4
    <3> QED BY <2>2, <3>2, <3>4, <3>5, <3>6 DEF Grows
  <2> QED BY <1>11, <2>2, <2>3 DEF c
<1> QED BY <1>8, <1>9, <1>10, <1>11

LEMMA Growth ==
  ASSUME NEW t \in Seq(Chars), NEW d, IsDelimiter(d), NEW p \in Nat, NEW q \in Nat,
         p <= q, q <= Len(t)
  PROVE  Grows(Sofar(t, d)[p], Sofar(t, d)[q])
<1> DEFINE g == Sofar(t, d)
           L == Len(t)
           K == {n \in Nat : p + n <= L => Grows(g[p], g[p + n])}
<1>1. L \in Nat /\ \A n \in Nat : n < L => Grows(g[n], g[n + 1])
  BY GrowsStep
<1>2. 0 \in K
  <2>1. PICK before, cur, w : Writing(t, d, p, before, cur, w)
    BY WritingAll
  <2> DEFINE a == g[p]
  <2>2. /\ a \in Seq(Row) /\ a # << >> /\ Len(a) \in Nat /\ Len(a[Len(a)]) \in Nat
    <3>1. /\ a \in Seq(Row) /\ a # << >> /\ Len(before) \in Nat /\ Len(a) = Len(before) + 1
          /\ Len(a[Len(a)]) = Len(cur) + 1 /\ Len(cur) \in Nat
      BY <2>1, WritingIs
    <3> QED BY <3>1
  <2> HIDE DEF a
  <2>3. Grows(a, a)
    BY <2>2 DEF Grows
  <2>4. p + 0 = p
    OBVIOUS
  <2> QED BY <2>3, <2>4 DEF a
<1> HIDE DEF g
<1>3. ASSUME NEW n \in Nat, n \in K PROVE n + 1 \in K
  <2> SUFFICES ASSUME p + (n + 1) <= L PROVE Grows(g[p], g[p + (n + 1)])
    OBVIOUS
  <2>1. p + n \in Nat /\ p + n < L /\ p + n <= L /\ p + (n + 1) = (p + n) + 1
    BY <1>1
  <2>2. Grows(g[p], g[p + n]) /\ Grows(g[p + n], g[p + (n + 1)])
    BY <1>1, <1>3, <2>1
  <2> QED BY <2>2, GrowsOn
<1>4. Nat \subseteq K
  <2> HIDE DEF K
  <2> QED BY <1>2, <1>3, Induction
<1>5. q - p \in Nat /\ p + (q - p) = q
  OBVIOUS
<1>6. p + (q - p) <= L => Grows(g[p], g[p + (q - p)])
  <2> DEFINE n == q - p
  <2>1. n \in Nat
    BY <1>5
  <2> HIDE DEF n
  <2>2. p + n <= L => Grows(g[p], g[p + n])
    BY <1>4, <2>1
  <2> QED BY <2>2 DEF n
<1> QED BY <1>5, <1>6 DEF g

\* The head of a text reads as it does in the text.
LEMMA HeadIs ==
  ASSUME NEW t \in Seq(Chars), NEW d, IsDelimiter(d), NEW h \in Seq(Chars), Len(h) <= Len(t),
         \A i \in 1..Len(h) : h[i] = t[i]
  PROVE  /\ \A p \in 0..Len(h) : Inside(h, p) <=> Inside(t, p)
         /\ Quoting(t, d) => Quoting(h, d)
         /\ \A p \in 0..Len(h) : Sofar(h, d)[p] = Sofar(t, d)[p]
<1> DEFINE H == Len(h)
<1>1. Len(h) = H /\ H \in Nat /\ H <= Len(t) /\ \A i \in 1..H : h[i] = t[i]
  OBVIOUS
<1>2. h \in Seq(Chars)
  OBVIOUS
<1> HIDE DEF H
<1>3. \A p \in 1..(H + 1) : QuotesBefore(h, p) = QuotesBefore(t, p)
  <2> SUFFICES ASSUME NEW p \in 1..(H + 1) PROVE QuotesBefore(h, p) = QuotesBefore(t, p)
    OBVIOUS
  <2>1. \A q \in 1..(p - 1) : q \in 1..H
    BY <1>1
  <2>2. {q \in 1..(p - 1) : h[q] = Quote} = {q \in 1..(p - 1) : t[q] = Quote}
    BY <1>1, <2>1, Zenon
  <2> QED BY <2>2, Zenon DEF QuotesBefore
<1>4. \A p \in 0..H : Inside(h, p) <=> Inside(t, p)
  <2> SUFFICES ASSUME NEW p \in 0..H PROVE Inside(h, p) <=> Inside(t, p)
    OBVIOUS
  <2>1. p + 1 \in 1..(H + 1)
    BY <1>1
  <2>2. QuotesBefore(h, p + 1) = QuotesBefore(t, p + 1)
    BY <1>3, <2>1
  <2> QED BY <2>2, Zenon DEF Inside
<1>5. Quoting(t, d) => Quoting(h, d)
  <2> SUFFICES ASSUME Quoting(t, d), NEW p \in 1..H, h[p] = Quote
               PROVE  IF QuotesBefore(h, p) % 2 = 0
                      THEN p = 1 \/ h[p - 1] \in {d, Newline, Quote}
                      ELSE p = Len(h) \/ h[p + 1] \in {d, Newline, Quote}
    BY <1>1, <1>2 DEF Quoting
  <2> DEFINE even == QuotesBefore(t, p) % 2 = 0
  <2>1. p \in 1..Len(t) /\ p \in 1..(H + 1)
    BY <1>1
  <2>2. t[p] = Quote /\ (QuotesBefore(h, p) % 2 = 0 <=> even)
    BY <1>1, <1>3, <2>1
  <2>3. IF even THEN p = 1 \/ t[p - 1] \in {d, Newline, Quote}
        ELSE p = Len(t) \/ t[p + 1] \in {d, Newline, Quote}
    BY <2>1, <2>2 DEF Quoting
  <2>4. p # 1 => p - 1 \in 1..H
    BY <1>1
  <2>5. p # H => p + 1 \in 1..H /\ p # Len(t)
    BY <1>1
  <2> HIDE DEF even
  <2> QED BY <1>1, <2>2, <2>3, <2>4, <2>5
<1> DEFINE ends(x) == Outside(x, {Newline})
           cuts(x) == Outside(x, {d})
           K == {p \in Nat : p <= H => Sofar(h, d)[p] = Sofar(t, d)[p]}
<1>6. 0 \in K
  <2>1. Sofar(h, d)[0] = <<Blank>>
    BY <1>2, SofarIs
  <2>2. Sofar(t, d)[0] = <<Blank>>
    BY SofarIs
  <2> QED BY <2>1, <2>2
<1>7. ASSUME NEW p \in Nat, p \in K PROVE p + 1 \in K
  <2> SUFFICES ASSUME p + 1 <= H PROVE Sofar(h, d)[p + 1] = Sofar(t, d)[p + 1]
    OBVIOUS
  <2> DEFINE r == p + 1
             old == Sofar(t, d)[p]
  <2>1. /\ p \in 0..(Len(t) - 1) /\ p \in 0..(Len(h) - 1) /\ r \in 1..H /\ p \in 0..H
        /\ p < Len(t) /\ p < Len(h) /\ p <= H
    BY <1>1
  <2>2. Sofar(h, d)[p] = old
    BY <1>7, <2>1
  <2> HIDE DEF K
  <2>3. Sofar(h, d)[r] = Write(Sofar(h, d)[p], h, r, ends(h), cuts(h))
    BY <1>2, <2>1, SofarIs
  <2>4. Sofar(t, d)[r] = Write(old, t, r, ends(t), cuts(t))
    BY <2>1, SofarIs
  <2>5. h[r] = t[r] /\ (Inside(h, p) <=> Inside(t, p))
    BY <1>1, <1>4, <2>1
  <2>6. \A C : r \in Outside(h, C) <=> r \in Outside(t, C)
    <3> SUFFICES ASSUME NEW C PROVE r \in Outside(h, C) <=> r \in Outside(t, C)
      OBVIOUS
    <3>1. r \in Outside(h, C) <=> p < Len(h) /\ h[r] \in C /\ ~Inside(h, p)
      BY <1>2, OutsideIs
    <3>2. r \in Outside(t, C) <=> p < Len(t) /\ t[r] \in C /\ ~Inside(t, p)
      BY OutsideIs
    <3> QED BY <2>1, <2>5, <3>1, <3>2
  <2>7. (r \in ends(h) <=> r \in ends(t)) /\ (r \in cuts(h) <=> r \in cuts(t))
    BY <2>6
  <2> HIDE DEF r, ends, cuts, old
  <2>8. Write(old, h, r, ends(h), cuts(h)) = Write(old, t, r, ends(t), cuts(t))
    BY <2>5, <2>7, Zenon DEF Write
  <2>9. Sofar(h, d)[r] = Sofar(t, d)[r]
    BY <2>2, <2>3, <2>4, <2>8
  <2> QED BY <2>9 DEF r
<1>8. Nat \subseteq K
  <2> HIDE DEF K
  <2> QED BY <1>6, <1>7, Induction
<1>9. \A p \in 0..H : Sofar(h, d)[p] = Sofar(t, d)[p]
  BY <1>1, <1>8
<1> QED BY <1>4, <1>5, <1>9 DEF H

-----------------------------------------------------------------------------
(* A table shows its delimiter *)

\* No newline is inside quotes.
Lines(t) == \A p \in 0..(Len(t) - 1) : t[p + 1] = Newline => ~Inside(t, p)

\* What a parser with a delimiter that does not occur has found: rows of one
\* field, and no more of them than records have ended.
Merged(t, d, s) ==
  /\ s.current_row = << >>
  /\ \A n \in 1..Len(s.rows) : Len(s.rows[n]) = 1
  /\ Len(s.rows) + 1 <= Len(Sofar(t, d)[s.row_start])
  /\ s.row_start # 0 => t[s.row_start] = Newline
  /\ s.row_start \in {0, Len(t)} \/ t[s.row_start + 1] # Newline
  /\ s.pos \in {0, Len(t)} \/ t[s.pos] # Newline \/ t[s.pos + 1] # Newline

\* A line end ends a record as well.
LEMMA NewlineMerges ==
  ASSUME NEW t \in Seq(Chars), Lines(t), NEW d, IsDelimiter(d), NEW e, IsDelimiter(e),
         NEW s, Parsing(t, s), Merged(t, d, s), s.pos < Len(t), t[s.pos + 1] = Newline
  PROVE  Merged(t, d, AtNewline(t, e, s))
<1> DEFINE p == s.pos
           r == s.row_start
           u == PushField(t, s)
           v == AtNewline(t, e, s)
           Q == {q \in p..Len(t) : q = Len(t) \/ ~(ParseFlag(t[q + 1], e) = "NEWLINE")}
           g == Min(Q)
           sofar == Sofar(t, d)
<1>1. /\ p \in Nat /\ p < Len(t) /\ r \in Nat /\ r <= p /\ Len(t) \in Nat
      /\ IsParser(s) /\ s.rows \in Seq(Row) /\ s.current_row = << >>
      /\ p + 1 \in Nat /\ p + 1 <= Len(t) /\ p <= Len(t)
  BY DEF Merged, Parsing, IsParser
<1>2. \E x \in Seq(Chars) : u.current_row = Append(s.current_row, x)
  BY FieldPushed
<1>3. u.current_row \in Row /\ Len(u.current_row) = 1
  BY <1>1, <1>2 DEF Row
<1>4. u.rows = s.rows /\ DOMAIN u = ParserFields
  BY <1>1, PushFieldIs
<1>5. v = [PushRow(u) EXCEPT !.pos = g, !.row_start = g, !.current_row = << >>]
  BY DEF AtNewline, RunEnd
<1>6. \A c : (ParseFlag(c, e) = "NEWLINE") <=> (c = Newline)
  <2>1. e # Newline /\ e # Quote /\ Quote # Newline
    BY CharsAssumption DEF IsDelimiter
  <2> QED BY <2>1 DEF ParseFlag
<1>7. /\ p + 1 <= g /\ g <= Len(t) /\ g \in Nat /\ t[g] = Newline
      /\ g = Len(t) \/ t[g + 1] # Newline
  <2>1. Q \subseteq p..Len(t) /\ Len(t) \in Q
    BY <1>1
  <2>2. p \notin Q
    BY <1>1, <1>6
  <2>3. g \in Q /\ g \in p..Len(t) /\ \A k \in p..(g - 1) : k \notin Q
    <3>1. Len(t) \in Nat /\ p <= Len(t)
      BY <1>1
    <3> HIDE DEF Q, p
    <3> QED BY <1>1, <2>1, <3>1, RunIs
  <2>4. g # p
    <3> HIDE DEF Q, g
    <3> QED BY <2>2, <2>3
  <2>5. g = Len(t) \/ t[g + 1] # Newline
    <3> HIDE DEF g
    <3> QED BY <2>3, <1>6
  <2>6. t[g] = Newline
    <3> HIDE DEF g
    <3>1. g - 1 \in p..(g - 1) /\ g - 1 \in p..Len(t) /\ g - 1 # Len(t) /\ (g - 1) + 1 = g
      BY <1>1, <2>3, <2>4
    <3>2. g - 1 \notin Q
      BY <2>3, <3>1
    <3> QED BY <1>6, <3>1, <3>2
  <2> HIDE DEF g, Q
  <2> QED BY <1>1, <2>3, <2>4, <2>5, <2>6
<1> HIDE DEF u, v, g
<1>8. PushRow(u) = [u EXCEPT !.rows = Append(@, u.current_row)]
  BY DEF PushRow
<1>9. /\ v.pos = g /\ v.row_start = g /\ v.rows = Append(s.rows, u.current_row)
      /\ v.current_row = << >>
  BY <1>4, <1>5, <1>8 DEF ParserFields
<1>10. Len(v.rows) = Len(s.rows) + 1 /\ Len(s.rows) \in Nat
       /\ \A n \in 1..Len(v.rows) : Len(v.rows[n]) = 1
  <2>1. \A n \in 1..Len(s.rows) : Len(s.rows[n]) = 1
    BY DEF Merged
  <2>2. Len(v.rows) = Len(s.rows) + 1 /\ Len(s.rows) \in Nat
        /\ v.rows[Len(s.rows) + 1] = u.current_row
        /\ \A n \in 1..Len(s.rows) : v.rows[n] = s.rows[n]
    BY <1>1, <1>3, <1>9
  <2>3. \A n \in 1..Len(v.rows) : n \in 1..Len(s.rows) \/ n = Len(s.rows) + 1
    BY <2>2
  <2> QED BY <1>3, <2>1, <2>2, <2>3
<1>11. Len(sofar[p + 1]) = Len(sofar[p]) + 1
  <2> DEFINE a == sofar[p]
             b == sofar[p + 1]
  <2>1. t[p + 1] = Newline /\ ~Inside(t, p)
    <3>1. p \in 0..(Len(t) - 1)
      BY <1>1
    <3> QED BY <3>1 DEF Lines
  <2>2. Len(a) = 1 \/ a[Len(a)] # Blank
    <3>1. CASE p = 0
      <4>1. a = <<Blank>>
        BY <3>1, SofarIs
      <4> HIDE DEF a
      <4> QED BY <4>1
    <3>2. CASE p # 0
      <4> DEFINE k == p - 1
      <4>1. k \in Nat /\ k + 1 = p /\ k < Len(t)
        BY <1>1, <3>2
      <4>2. t[p] # Newline
        BY <1>1, <2>1, <3>2 DEF Merged
      <4> HIDE DEF k, p
      <4>3. t[k + 1] # Newline => sofar[k + 1][Len(sofar[k + 1])] # Blank
        BY <4>1, GrowsStep
      <4> QED BY <4>1, <4>2, <4>3
    <3> QED BY <3>1, <3>2
  <2>3. t[p + 1] = Newline /\ ~Inside(t, p) /\ (Len(a) = 1 \/ a[Len(a)] # Blank) =>
          Len(b) = Len(a) + 1
    <3> HIDE DEF p
    <3> QED BY <1>1, GrowsStep
  <2> QED BY <2>1, <2>2, <2>3
<1>12. Len(v.rows) + 1 <= Len(sofar[g])
  <2> DEFINE q == p + 1
  <2>1. Grows(sofar[r], sofar[p])
    <3> HIDE DEF p, r
    <3> QED BY <1>1, Growth
  <2>2. q \in Nat /\ q <= g
    BY <1>1, <1>7
  <2>3. Grows(sofar[q], sofar[g])
    <3> HIDE DEF q
    <3> QED BY <1>7, <2>2, Growth
  <2>4. \A a, b : Grows(a, b) => Len(a) \in Nat /\ Len(b) \in Nat /\ Len(a) <= Len(b)
    BY DEF Grows
  <2> DEFINE lr == Len(sofar[r])
             lp == Len(sofar[p])
             lq == Len(sofar[q])
             lg == Len(sofar[g])
  <2>5. lr \in Nat /\ lp \in Nat /\ lq \in Nat /\ lg \in Nat /\ lr <= lp /\ lq <= lg
    BY <2>1, <2>3, <2>4
  <2>6. lq = lp + 1
    BY <1>11
  <2>7. Len(s.rows) + 1 <= lr
    BY DEF Merged
  <2> HIDE DEF lr, lp, lq, lg
  <2>8. Len(v.rows) + 1 <= lg
    BY <1>10, <2>5, <2>6, <2>7
  <2> QED BY <2>8 DEF lg
<1> QED BY <1>7, <1>9, <1>10, <1>12 DEF Merged, v

\* So does every other round: it leaves rows alone.
LEMMA RoundMerges ==
  ASSUME NEW t \in Seq(Chars), Lines(t), NEW d, IsDelimiter(d), NEW e, IsDelimiter(e),
         \A p \in 1..Len(t) : t[p] # e,
         NEW s, Parsing(t, s), Merged(t, d, s)
  PROVE  Merged(t, d, Round(t, e, s))
<1>1. CASE s.pos = Len(t)
  BY <1>1 DEF Round
<1>2. CASE s.pos # Len(t)
  <2> DEFINE p == s.pos
             c == t[p + 1]
             b == s.quote_escape
             flag == CompoundParseFlag(c, e, b)
             v == Round(t, e, s)
             Q == {q \in p..Len(t) :
                     q = Len(t) \/ ~(CompoundParseFlag(t[q + 1], e, b) = "NOT_SPECIAL")}
             g == Min(Q)
  <2>1. p < Len(t) /\ b \in BOOLEAN /\ p \in Nat /\ Len(t) \in Nat /\ IsParser(s)
        /\ p + 1 \in 1..Len(t) /\ Quote # Newline
    BY <1>2, CharsAssumption DEF Parsing, IsParser
  <2>2. /\ flag = "NEWLINE" => v = AtNewline(t, e, s)
        /\ flag = "NOT_SPECIAL" => v = AtPlain(t, e, s)
        /\ flag = "QUOTE" => v = AtQuote(t, s)
        /\ flag = "QUOTE_ESCAPE_QUOTE" => v = AtQuoteInQuotes(t, e, s)
    BY <1>2 DEF Round
  <2>3. \A x, y : y \in BOOLEAN =>
          /\ ~y => /\ CompoundParseFlag(x, e, y) = "DELIMITER" <=> x = e
                   /\ CompoundParseFlag(x, e, y) = "NEWLINE" <=> x = Newline
                   /\ CompoundParseFlag(x, e, y) = "QUOTE" <=> x = Quote
                   /\ CompoundParseFlag(x, e, y) = "NOT_SPECIAL" <=> x \notin {e, Newline, Quote}
          /\ y => /\ CompoundParseFlag(x, e, y) = "NOT_SPECIAL" <=> x # Quote
                  /\ CompoundParseFlag(x, e, y) = "QUOTE_ESCAPE_QUOTE" <=> x = Quote
    BY FlagIs
  <2> HIDE DEF v
  <2>4. ASSUME /\ v.current_row = s.current_row /\ v.rows = s.rows /\ v.row_start = s.row_start
               /\ v.pos \in {0, Len(t)} \/ t[v.pos] # Newline \/ t[v.pos + 1] # Newline
        PROVE  Merged(t, d, v)
    BY <2>4 DEF Merged
  <2>5. CASE ~b /\ c = Newline
    <3>1. flag = "NEWLINE"
      <4> HIDE DEF b, c
      <4> QED BY <2>1, <2>3, <2>5
    <3>2. Merged(t, d, AtNewline(t, e, s))
      BY <2>1, <2>5, NewlineMerges
    <3> QED BY <2>2, <3>1, <3>2 DEF v
  <2>6. CASE ~b /\ c = Quote
    <3>1. flag = "QUOTE"
      <4> HIDE DEF b, c
      <4> QED BY <2>1, <2>3, <2>6
    <3>2. v = AtQuote(t, s)
      BY <2>2, <3>1
    <3>3. v.current_row = s.current_row /\ v.rows = s.rows /\ v.row_start = s.row_start
          /\ v.pos = p + 1
      BY <2>1, <3>2 DEF AtQuote, IsParser, ParserFields
    <3>4. t[v.pos] # Newline
      BY <2>1, <2>6, <3>3
    <3> QED BY <2>4, <3>3, <3>4 DEF v
  <2>7. CASE (~b /\ c \notin {Newline, Quote}) \/ (b /\ c # Quote)
    <3>1. flag = "NOT_SPECIAL"
      <4>1. c # e
        BY <2>1
      <4> HIDE DEF b, c
      <4> QED BY <2>1, <2>3, <2>7, <4>1
    <3> DEFINE start == IF s.field_start = Uninitialized THEN p - s.row_start ELSE s.field_start
    <3>2. AtPlain(t, e, s) = [s EXCEPT !.field_start = start, !.pos = g,
                                       !.field_length = g - (start + s.row_start)]
      BY DEF AtPlain, RunEnd
    <3> HIDE DEF g, start
    <3>3. v.current_row = s.current_row /\ v.rows = s.rows /\ v.row_start = s.row_start
          /\ v.pos = g
      BY <2>1, <2>2, <3>1, <3>2 DEF IsParser, ParserFields
    <3>4. /\ g \in p..Len(t) /\ p < g
          /\ \A k \in p..(g - 1) : CompoundParseFlag(t[k + 1], e, b) = "NOT_SPECIAL"
          /\ g = Len(t) \/ CompoundParseFlag(t[g + 1], e, b) # "NOT_SPECIAL"
      <4>1. Q \subseteq p..Len(t) /\ Len(t) \in Q
        BY <2>1
      <4>2. p \notin Q
        BY <2>1, <3>1
      <4>3. g \in Q /\ g \in p..Len(t) /\ \A k \in p..(g - 1) : k \notin Q
        <5>1. Len(t) \in Nat /\ p <= Len(t)
          BY <2>1
        <5> HIDE DEF Q, p
        <5> QED BY <2>1, <4>1, <5>1, RunIs DEF g
      <4>4. \A k \in p..(g - 1) : CompoundParseFlag(t[k + 1], e, b) = "NOT_SPECIAL"
        <5>1. \A k \in p..(g - 1) : k \in p..Len(t) /\ k # Len(t)
          BY <2>1, <4>3
        <5> QED BY <4>3, <5>1
      <4>5. g = Len(t) \/ CompoundParseFlag(t[g + 1], e, b) # "NOT_SPECIAL"
        BY <4>3
      <4>6. g # p
        <5> HIDE DEF Q
        <5> QED BY <4>2, <4>3
      <4> HIDE DEF Q
      <4> QED BY <2>1, <4>3, <4>4, <4>5, <4>6
    <3>5. g = Len(t) \/ t[g] # Newline \/ t[g + 1] # Newline
      <4>1. CASE b
        <5>1. g # Len(t) => t[g + 1] = Quote
          <6> HIDE DEF b
          <6> QED BY <2>1, <2>3, <3>4, <4>1
        <5> QED BY <2>1, <5>1
      <4>2. CASE ~b
        <5>1. g - 1 \in p..(g - 1) /\ (g - 1) + 1 = g
          BY <2>1, <3>4
        <5>2. CompoundParseFlag(t[g], e, b) = "NOT_SPECIAL"
          BY <3>4, <5>1
        <5>3. t[g] # Newline
          <6> HIDE DEF b
          <6> QED BY <2>1, <2>3, <4>2, <5>2
        <5> QED BY <5>3
      <4> QED BY <4>1, <4>2
    <3> QED BY <2>4, <3>3, <3>5 DEF v
  <2>8. CASE b /\ c = Quote
    <3>1. flag = "QUOTE_ESCAPE_QUOTE"
      <4> HIDE DEF b, c
      <4> QED BY <2>1, <2>3, <2>8
    <3>2. v = AtQuoteInQuotes(t, e, s)
      BY <2>2, <3>1
    <3>3. CASE v = s
      BY <3>3 DEF v
    <3>4. CASE v # s
      <4>1. /\ v.current_row = s.current_row /\ v.rows = s.rows /\ v.row_start = s.row_start
            /\ \/ v.pos = p + 1
               \/ v.pos = p + 2 /\ ParseFlag(t[p + 2], e) = "QUOTE"
        BY <2>1, <3>2, <3>4 DEF AtQuoteInQuotes, IsParser, ParserFields
      <4>2. t[v.pos] # Newline
        <5>1. CASE v.pos = p + 1
          BY <2>1, <2>8, <5>1
        <5>2. CASE v.pos = p + 2 /\ ParseFlag(t[p + 2], e) = "QUOTE"
          <6>1. t[p + 2] = Quote
            BY <5>2 DEF ParseFlag
          <6> QED BY <2>1, <5>2, <6>1
        <5> QED BY <4>1, <5>1, <5>2
      <4> QED BY <2>4, <4>1, <4>2 DEF v
    <3> QED BY <3>3, <3>4
  <2> QED BY <2>5, <2>6, <2>7, <2>8
<1> QED BY <1>1, <1>2

LEMMA ParseMerges ==
  ASSUME NEW t \in Seq(Chars), Lines(t), NEW d, IsDelimiter(d), NEW e, IsDelimiter(e),
         \A p \in 1..Len(t) : t[p] # e
  PROVE  LET s == Parse(t, e, FALSE) IN Parsing(t, s) /\ Merged(t, d, s)
<1> DEFINE g == States(t, e)
           L == Len(t)
           K == {n \in Nat : n <= L => Merged(t, d, g[n])}
<1>1. /\ L \in Nat /\ g[0] = FreshParser(FALSE) /\ Parse(t, e, FALSE) = g[L]
      /\ \A n \in 0..(L - 1) : g[n + 1] = Round(t, e, g[n])
      /\ \A n \in 0..L : Parsing(t, g[n])
  <2>1. L \in Nat
    OBVIOUS
  <2>2. /\ g[0] = FreshParser(FALSE) /\ Parse(t, e, FALSE) = g[L]
        /\ \A n \in 0..(L - 1) : g[n + 1] = Round(t, e, g[n])
        /\ \A n \in 0..L : Parsing(t, g[n])
    BY StatesAre, Zenon
  <2> QED BY <2>1, <2>2, Zenon
<1> HIDE DEF g
<1>2. 0 \in K
  <2> DEFINE v == FreshParser(FALSE)
  <2>1. v.pos = 0 /\ v.row_start = 0 /\ v.current_row = << >> /\ v.rows = << >>
    BY DEF FreshParser
  <2>2. Sofar(t, d)[0] = <<Blank>>
    BY SofarIs
  <2> HIDE DEF v
  <2>3. Len(v.rows) = 0 /\ Len(Sofar(t, d)[v.row_start]) = 1
    BY <2>1, <2>2
  <2>4. Merged(t, d, v)
    BY <2>1, <2>3 DEF Merged
  <2>5. g[0] = v
    BY <1>1, Zenon DEF v
  <2> QED BY <2>4, <2>5
<1>3. ASSUME NEW n \in Nat, n \in K PROVE n + 1 \in K
  <2> SUFFICES ASSUME n + 1 <= L PROVE Merged(t, d, g[n + 1])
    OBVIOUS
  <2>1. n \in 0..(L - 1) /\ n \in 0..L /\ n <= L
    BY <1>1
  <2>2. g[n + 1] = Round(t, e, g[n]) /\ Parsing(t, g[n]) /\ Merged(t, d, g[n])
    BY <1>1, <1>3, <2>1
  <2>3. Merged(t, d, Round(t, e, g[n]))
    BY <2>2, RoundMerges
  <2> QED BY <2>2, <2>3
<1>4. Nat \subseteq K
  <2> HIDE DEF K
  <2> QED BY <1>2, <1>3, Induction
<1>5. L \in 0..L /\ L <= L
  BY <1>1
<1>6. Parsing(t, g[L]) /\ Merged(t, d, g[L])
  BY <1>1, <1>4, <1>5
<1> QED BY <1>1, <1>6, Zenon

\* How many records have been begun.
Count(a) == IF a[Len(a)] = Blank THEN Len(a) - 1 ELSE Len(a)

LEMMA CountGrows ==
  ASSUME NEW a, NEW b, Grows(a, b)
  PROVE  /\ Len(a) \in Nat \ {0} /\ Len(b) \in Nat \ {0} /\ Len(a) <= Len(b)
         /\ Count(a) \in Nat /\ Count(b) \in Nat /\ Count(a) <= Count(b)
<1>1. /\ Len(a) \in Nat \ {0} /\ Len(b) \in Nat \ {0} /\ Len(a) <= Len(b)
      /\ b[Len(a)] = Blank => a[Len(a)] = Blank
  BY DEF Grows
<1>2. CASE Len(a) = Len(b)
  BY <1>1, <1>2 DEF Count
<1>3. CASE Len(a) # Len(b)
  BY <1>1, <1>3 DEF Count
<1> QED BY <1>1, <1>2, <1>3

\* The first character begins a record, and so does one that ends none.
LEMMA CountNext ==
  ASSUME NEW t \in Seq(Chars), NEW d, IsDelimiter(d), NEW r \in Nat, r < Len(t),
         r = 0 \/ t[r + 1] # Newline
  PROVE  Len(Sofar(t, d)[r]) <= Count(Sofar(t, d)[r + 1])
<1> DEFINE a == Sofar(t, d)[r]
           b == Sofar(t, d)[r + 1]
<1>1. /\ Grows(a, b)
      /\ t[r + 1] # Newline => b[Len(b)] # Blank
      /\ t[r + 1] = Newline /\ ~Inside(t, r) /\ (Len(a) = 1 \/ a[Len(a)] # Blank) =>
           Len(b) = Len(a) + 1
  BY GrowsStep
<1>2. Len(a) \in Nat /\ Len(b) \in Nat /\ Len(a) <= Len(b)
  BY <1>1, CountGrows
<1>3. CASE t[r + 1] # Newline
  BY <1>1, <1>2, <1>3 DEF Count
<1>4. CASE t[r + 1] = Newline
  <2>1. r = 0
    BY <1>4
  <2>2. a = <<Blank>>
    BY <2>1, SofarIs
  <2>3. ~Inside(t, r)
    BY <2>1, InsideSteps
  <2>4. Len(a) = 1
    <3> HIDE DEF a
    <3> QED BY <2>2
  <2>5. Len(b) = Len(a) + 1
    BY <1>1, <1>4, <2>3, <2>4
  <2> HIDE DEF a, b
  <2> QED BY <1>2, <2>5 DEF Count, a, b
<1> QED BY <1>3, <1>4

LEMMA CountIs ==
  ASSUME NEW t \in Seq(Chars), NEW d, IsDelimiter(d)
  PROVE  LET g == Sofar(t, d)[Len(t)]
         IN /\ Begun(t, d) \in Seq(Row) /\ Len(Begun(t, d)) = Count(g)
            /\ \A n \in 1..Count(g) : Begun(t, d)[n] = g[n]
<1> DEFINE g == Sofar(t, d)[Len(t)]
<1>1. PICK before, cur, w : Writing(t, d, Len(t), before, cur, w)
  <2>1. Len(t) \in 0..Len(t)
    OBVIOUS
  <2> QED BY <2>1, WritingAll
<1>2. /\ before \in Seq(Row)
      /\ g = Append(before, Append(cur, w))
      /\ g \in Seq(Row) /\ g # << >> /\ Len(before) \in Nat /\ Len(g) = Len(before) + 1
      /\ \A n \in 1..Len(before) : g[n] = before[n]
      /\ g[Len(g)] = Blank <=> cur = << >> /\ w = << >>
  BY <1>1, WritingIs
<1>3. /\ cur = << >> /\ w = << >> => Begun(t, d) = before
      /\ cur # << >> \/ w # << >> => Begun(t, d) = Append(before, Append(cur, w))
  BY <1>1, BegunIs
<1> HIDE DEF g
<1>4. CASE g[Len(g)] = Blank
  <2>1. Begun(t, d) = before /\ Count(g) = Len(before)
    BY <1>2, <1>3, <1>4 DEF Count
  <2> QED BY <1>2, <2>1 DEF g
<1>5. CASE g[Len(g)] # Blank
  <2>1. Begun(t, d) = g /\ Count(g) = Len(g)
    BY <1>2, <1>3, <1>5 DEF Count
  <2> QED BY <1>2, <2>1 DEF g
<1> QED BY <1>4, <1>5

\* A delimiter that does not occur finds rows of one field, and no more of them
\* than there are records.
LEMMA MergedRows ==
  ASSUME NEW t \in Seq(Chars), t # << >>, Lines(t), NEW d, IsDelimiter(d), NEW e, IsDelimiter(e),
         \A p \in 1..Len(t) : t[p] # e
  PROVE  /\ ParsedOf(t, e) \in Seq(Row) /\ Len(ParsedOf(t, e)) <= Len(Begun(t, d))
         /\ \A n \in 1..Len(ParsedOf(t, e)) : Len(ParsedOf(t, e)[n]) = 1
<1> DEFINE s == Parse(t, e, FALSE)
           u == PushField(t, s)
           rows == ParsedOf(t, e)
           sofar == Sofar(t, d)
           L == Len(t)
           r == s.row_start
<1>1. Parsing(t, s) /\ Merged(t, d, s)
  BY ParseMerges
<1>2. rows = EndFeed(t, e, s).rows /\ rows \in Seq(Row)
  BY ParsedType DEF ParsedOf
<1> HIDE DEF s, rows
<1>3. /\ L \in Nat \ {0} /\ r \in Nat /\ r <= L /\ s.rows \in Seq(Row) /\ s.current_row = << >>
      /\ s.field_length \in Nat /\ s.pos \in Nat /\ s.pos <= L
  BY <1>1 DEF Parsing, IsParser, Merged
<1>4. /\ s.field_length > 0 \/ t[L] \in {e, Quote} => rows = Append(s.rows, u.current_row)
      /\ s.field_length = 0 /\ t[L] \notin {e, Quote} /\ s.current_row = << >> => rows = s.rows
  BY <1>1, <1>2, EndFeedIs
<1>5. u.current_row \in Row /\ Len(u.current_row) = 1
  <2>1. PICK x \in Seq(Chars) : u.current_row = Append(s.current_row, x)
    BY <1>1, FieldPushed
  <2> HIDE DEF u
  <2> QED BY <1>3, <2>1 DEF Row
<1> HIDE DEF u
<1> DEFINE begun == Len(Begun(t, d))
           had == Len(sofar[r])
           total == Len(sofar[L])
<1>6. /\ begun = Count(sofar[L]) /\ begun \in Nat /\ had \in Nat /\ total \in Nat
      /\ had <= total /\ total - 1 <= begun
  <2>1. begun = Count(sofar[L])
    BY CountIs
  <2>2. Grows(sofar[r], sofar[L])
    <3> HIDE DEF r, L
    <3> QED BY <1>3, Growth DEF L
  <2>3. Count(sofar[L]) \in Nat /\ had \in Nat /\ total \in Nat /\ had <= total
    BY <2>2, CountGrows
  <2>4. total - 1 <= Count(sofar[L])
    BY <2>3 DEF Count
  <2> HIDE DEF begun, had, total
  <2> QED BY <2>1, <2>3, <2>4
<1>7. /\ Len(s.rows) + 1 <= had /\ Len(s.rows) \in Nat
      /\ \A n \in 1..Len(s.rows) : Len(s.rows[n]) = 1
  BY <1>1, <1>3 DEF Merged
<1>8. CASE s.field_length > 0 \/ t[L] \in {e, Quote}
  <2>1. rows = Append(s.rows, u.current_row)
    BY <1>4, <1>8
  <2>2. Len(rows) = Len(s.rows) + 1 /\ rows[Len(s.rows) + 1] = u.current_row
        /\ \A n \in 1..Len(s.rows) : rows[n] = s.rows[n]
    BY <1>3, <1>5, <2>1
  <2>3. \A n \in 1..Len(rows) : n \in 1..Len(s.rows) \/ n = Len(s.rows) + 1
    BY <1>7, <2>2
  <2>4. \A n \in 1..Len(rows) : Len(rows[n]) = 1
    BY <1>5, <1>7, <2>2, <2>3
  <2>5. r < L
    <3> SUFFICES ASSUME r = L PROVE FALSE
      BY <1>3
    <3>1. t[L] = Newline
      BY <1>1, <1>3 DEF Merged
    <3>2. s.field_length > 0
      BY <1>8, <3>1, CharsAssumption DEF IsDelimiter
    <3>3. s.field_start # Uninitialized /\ s.row_start + s.field_start + s.field_length <= s.pos
          /\ s.field_start \in Nat
      BY <1>1, <3>2 DEF Parsing, IsParser
    <3> QED BY <1>3, <3>2, <3>3
  <2>6. had <= Count(sofar[r + 1])
    <3>1. r = 0 \/ t[r + 1] # Newline
      BY <1>1, <1>3, <2>5 DEF Merged
    <3> HIDE DEF r
    <3> QED BY <1>3, <2>5, <3>1, CountNext
  <2>7. Count(sofar[r + 1]) <= begun /\ Count(sofar[r + 1]) \in Nat
    <3> DEFINE q == r + 1
    <3>1. q \in Nat /\ q <= L
      BY <1>3, <2>5
    <3> HIDE DEF q
    <3>2. Grows(sofar[q], sofar[L])
      BY <1>3, <3>1, Growth
    <3> HIDE DEF begun
    <3>3. Count(sofar[q]) \in Nat /\ Count(sofar[q]) <= Count(sofar[L])
      BY <3>2, CountGrows
    <3> QED BY <1>6, <3>3 DEF q
  <2> HIDE DEF had, begun
  <2>8. Len(rows) <= begun
    BY <1>6, <1>7, <2>2, <2>6, <2>7
  <2> QED BY <1>2, <2>4, <2>8 DEF begun, rows
<1>9. CASE ~(s.field_length > 0 \/ t[L] \in {e, Quote})
  <2>1. rows = s.rows
    BY <1>3, <1>4, <1>9
  <2> HIDE DEF had, begun, total
  <2>2. Len(rows) <= begun
    BY <1>6, <1>7, <2>1
  <2> QED BY <1>2, <1>7, <2>1, <2>2 DEF begun, rows
<1> QED BY <1>8, <1>9

LEMMA MaxIs ==
  ASSUME NEW S, S \subseteq Int, NEW m \in S, \A x \in S : m >= x
  PROVE  Max(S) = m
<1>1. \E x \in S : \A y \in S : x >= y
  OBVIOUS
<1>2. Max(S) \in S /\ \A y \in S : Max(S) >= y
  BY <1>1 DEF Max
<1>3. \A x \in S : (\A y \in S : x >= y) => x = m
  OBVIOUS
<1> QED BY <1>2, <1>3

LEMMA MinIs ==
  ASSUME NEW S, S \subseteq Int, NEW m \in S, \A x \in S : m <= x
  PROVE  Min(S) = m
<1>1. \E x \in S : \A y \in S : x <= y
  OBVIOUS
<1>2. Min(S) \in S /\ \A y \in S : Min(S) <= y
  BY <1>1 DEF Min
<1>3. \A x \in S : (\A y \in S : x <= y) => x = m
  OBVIOUS
<1> QED BY <1>2, <1>3

\* The score of rows that are all as wide, and the first of them.
LEMMA SameWidths ==
  ASSUME NEW rows \in Seq(Row), Len(rows) # 0, NEW W \in Nat \ {0},
         \A k \in 1..Len(rows) : Len(rows[k]) = W
  PROVE  Score(rows) = W * Len(rows) /\ Score(rows) >= Len(rows) /\ HeaderRows(rows) = {0}
<1> DEFINE n == Len(rows)
           k == W * n
<1>1. n \in Nat \ {0} /\ DOMAIN rows = 1..n
  OBVIOUS
<1>2. Widths(rows) = {W}
  BY <1>1 DEF Widths
<1>3. {i \in DOMAIN rows : Len(rows[i]) = W} = 1..n
  BY <1>1
<1>4. Tally(rows, W) = n
  <2>1. Cardinality(1..n) = n
    <3> HIDE DEF n
    <3> QED BY <1>1, FS_Interval
  <2> QED BY <1>3, <2>1 DEF Tally
<1>5. {w * Tally(rows, w) : w \in Widths(rows)} \cup {0} = {k, 0}
  BY <1>2, <1>4
<1>6. k \in Int /\ k >= n /\ k >= 0
  <2>1. \A a, b \in Nat : a # 0 => a * b \in Nat /\ a * b >= b
    OBVIOUS
  <2> HIDE DEF n
  <2> QED BY <1>1, <2>1
<1> HIDE DEF k
<1>7. Max({k, 0}) = k
  <2>1. {k, 0} \subseteq Int /\ k \in {k, 0} /\ \A x \in {k, 0} : k >= x
    BY <1>6
  <2> QED BY <2>1, MaxIs
<1>8. Score(rows) = k
  BY <1>5, <1>7 DEF Score
<1>9. Min(1..n) = 1
  <2>1. 1..n \subseteq Int /\ 1 \in 1..n /\ \A x \in 1..n : 1 <= x
    BY <1>1
  <2> HIDE DEF n
  <2> QED BY <2>1, MinIs
<1>10. {v \in Widths(rows) : v * Tally(rows, v) = Score(rows)} = {W}
  BY <1>2, <1>4, <1>8 DEF k
<1>11. HeaderRows(rows) = {Min(1..n) - 1}
  BY <1>3, <1>10, ZenonT(30) DEF HeaderRows
<1>12. HeaderRows(rows) = {0}
  <2>1. 1 - 1 = 0
    OBVIOUS
  <2> QED BY <1>9, <1>11, <2>1
<1> QED BY <1>6, <1>8, <1>12 DEF k

\* The same if the last is narrower than the others.
LEMMA LastNarrow ==
  ASSUME NEW rows \in Seq(Row), Len(rows) > 1, NEW W \in Nat, NEW v \in 1..(W - 1),
         \A k \in 1..(Len(rows) - 1) : Len(rows[k]) = W, Len(rows[Len(rows)]) = v
  PROVE  Score(rows) >= Len(rows) /\ HeaderRows(rows) = {0}
<1> DEFINE n == Len(rows)
           m == n - 1
           k == W * m
<1>1. n \in Nat /\ n > 1 /\ m \in Nat \ {0} /\ n = m + 1 /\ DOMAIN rows = 1..n
      /\ v \in Nat /\ v < W /\ v # W
  OBVIOUS
<1>2. \A i \in 1..n : i \in 1..m \/ i = n
  <2> HIDE DEF m, n
  <2> QED BY <1>1
<1>3. \A i \in 1..m : i \in 1..n /\ i # n /\ Len(rows[i]) = W
  <2>1. \A i \in 1..m : Len(rows[i]) = W
    OBVIOUS
  <2> HIDE DEF m, n
  <2> QED BY <1>1, <2>1
<1>4. Widths(rows) = {W, v}
  <2>1. 1 \in 1..m /\ n \in 1..n
    BY <1>1
  <2>2. Len(rows[1]) = W /\ 1 \in 1..n
    BY <1>3, <2>1
  <2> HIDE DEF n, m
  <2> QED BY <1>1, <1>2, <1>3, <2>1, <2>2 DEF Widths, n
<1>5. {i \in DOMAIN rows : Len(rows[i]) = W} = 1..m /\ {i \in DOMAIN rows : Len(rows[i]) = v} = {n}
  <2>1. n \in 1..n /\ Len(rows[n]) = v
    BY <1>1
  <2> HIDE DEF n, m
  <2> QED BY <1>1, <1>2, <1>3, <2>1
<1>6. Tally(rows, W) = m /\ Tally(rows, v) = 1
  <2>1. Cardinality(1..m) = m
    <3> HIDE DEF m
    <3> QED BY <1>1, FS_Interval
  <2>2. Cardinality({n}) = 1
    BY FS_Singleton
  <2> QED BY <1>5, <2>1, <2>2 DEF Tally
<1>7. {w * Tally(rows, w) : w \in Widths(rows)} \cup {0} = {k, v, 0}
  <2>1. v * 1 = v
    BY <1>1
  <2> HIDE DEF m
  <2> QED BY <1>4, <1>6, <2>1
<1>8. k \in Int /\ k >= n /\ k > v
  <2>1. \A a, b \in Nat : a >= 2 /\ b # 0 => a * b \in Nat /\ a * b >= 2 * b /\ a * b >= a
    OBVIOUS
  <2>2. W >= 2 /\ m # 0 /\ 2 * m >= m + 1
    BY <1>1
  <2> HIDE DEF m, n
  <2>3. W * m \in Nat /\ W * m >= 2 * m /\ W * m >= W
    BY <1>1, <2>1, <2>2
  <2>4. k \in Nat /\ k >= 2 * m /\ k >= W
    BY <2>3
  <2> HIDE DEF k
  <2> QED BY <1>1, <2>2, <2>4
<1> HIDE DEF k
<1>9. Max({k, v, 0}) = k
  <2>1. {k, v, 0} \subseteq Int /\ k \in {k, v, 0} /\ \A x \in {k, v, 0} : k >= x
    BY <1>1, <1>8
  <2> QED BY <2>1, MaxIs
<1>10. Score(rows) = k
  BY <1>7, <1>9 DEF Score
<1>11. Min(1..m) = 1
  <2>1. 1..m \subseteq Int /\ 1 \in 1..m /\ \A x \in 1..m : 1 <= x
    BY <1>1
  <2> HIDE DEF m
  <2> QED BY <2>1, MinIs
<1>12. {w \in Widths(rows) : w * Tally(rows, w) = Score(rows)} = {W}
  <2>1. v * 1 = v /\ v # k
    BY <1>1, <1>8
  <2> HIDE DEF m
  <2> QED BY <1>4, <1>6, <1>10, <2>1 DEF k
<1>13. HeaderRows(rows) = {Min(1..m) - 1}
  <2>1. {i \in DOMAIN rows : Len(rows[i]) = W} = 1..m
    BY <1>5
  <2> HIDE DEF m
  <2> QED BY <1>12, <2>1, Zenon DEF HeaderRows
<1>14. HeaderRows(rows) = {0}
  <2>1. 1 - 1 = 0
    OBVIOUS
  <2> QED BY <1>11, <1>13, <2>1
<1> QED BY <1>8, <1>10, <1>14

LEMMA PrefixIs ==
  ASSUME NEW t \in Seq(Chars), NEW H \in Nat, H <= Len(t)
  PROVE  /\ SubSeq(t, 1, H) \in Seq(Chars) /\ Len(SubSeq(t, 1, H)) = H
         /\ \A i \in 1..H : SubSeq(t, 1, H)[i] = t[i]
<1> DEFINE h == SubSeq(t, 1, H)
<1>1. Len(h) = H /\ \A i \in 1..H : h[i] = t[i]
  OBVIOUS
<1>2. h \in Seq(Chars)
  <2>1. \A i \in 1..H : t[i] \in Chars
    OBVIOUS
  <2> QED OBVIOUS
<1> QED BY <1>1, <1>2

\* The head of a table whose records are all as wide has rows as wide, and maybe
\* a last one that is not complete.
LEMMA HeadScore ==
  ASSUME NEW t \in Seq(Chars), NEW d, IsDelimiter(d), Quoting(t, d),
         \A n \in DOMAIN Records(t, d) : Len(Records(t, d)[n]) = Len(Records(t, d)[1]),
         NEW h \in Seq(Chars), h # << >>, Len(h) <= Len(t), \A i \in 1..Len(h) : h[i] = t[i],
         NEW rows, rows = ParsedOf(h, d)
  PROVE  /\ rows \in Seq(Row) /\ Len(rows) = Len(Begun(h, d)) /\ Len(rows) # 0
         /\ Score(rows) >= Len(rows) /\ HeaderRows(rows) = {0}
<1> DEFINE L == Len(t)
           H == Len(h)
           a == Sofar(t, d)[H]
           b == Sofar(t, d)[L]
           n == Len(rows)
           total == Count(b)
           W == Len(b[1])
           begun == Begun(h, d)
           whole == Begun(t, d)
<1>1. /\ Quoting(h, d) /\ Sofar(h, d)[Len(h)] = a
      /\ L \in Nat \ {0} /\ H \in Nat \ {0} /\ H <= L
  <2>1. /\ Quoting(t, d) => Quoting(h, d)
        /\ \A p \in 0..H : Sofar(h, d)[p] = Sofar(t, d)[p]
    BY HeadIs
  <2>2. L \in Nat \ {0} /\ H \in Nat \ {0} /\ H <= L /\ H \in 0..H
    OBVIOUS
  <2> QED BY <2>1, <2>2
<1>2. /\ begun \in Seq(Row) /\ rows \in Seq(Row) /\ n = Len(begun)
      /\ \A k \in 1..Len(begun) : Len(rows[k]) = Len(begun[k])
  BY <1>1, ParsesWidths
<1>3. Len(begun) = Count(a) /\ \A k \in 1..Count(a) : begun[k] = a[k]
  <2> DEFINE c == Sofar(h, d)[Len(h)]
  <2>1. Len(begun) = Count(c) /\ \A k \in 1..Count(c) : begun[k] = c[k]
    BY <1>1, CountIs
  <2>2. c = a
    BY <1>1
  <2> HIDE DEF c, begun, a
  <2> QED BY <2>1, <2>2
<1>4. whole \in Seq(Row) /\ Len(whole) = total /\ \A k \in 1..total : whole[k] = b[k]
  BY CountIs
<1>5. Grows(a, b)
  <2> HIDE DEF L, H
  <2> QED BY <1>1, Growth DEF L
<1>6. /\ Len(a) \in Nat \ {0} /\ Len(b) \in Nat \ {0} /\ Len(a) <= Len(b)
      /\ n \in Nat /\ total \in Nat /\ n <= total /\ n = Count(a)
  BY <1>2, <1>3, <1>5, CountGrows
<1>7. n # 0
  <2>1. Len(Sofar(t, d)[0]) <= Count(Sofar(t, d)[0 + 1])
    <3>1. 0 < Len(t)
      BY <1>1
    <3> QED BY <3>1, CountNext
  <2>2. Sofar(t, d)[0] = <<Blank>>
    BY SofarIs
  <2>3. Len(Sofar(t, d)[0]) = 1
    BY <2>2
  <2>4. Grows(Sofar(t, d)[1], a)
    <3>1. 1 <= H /\ H \in Nat
      BY <1>1
    <3> HIDE DEF H
    <3> QED BY <1>1, <3>1, Growth DEF L
  <2>5. Count(Sofar(t, d)[1]) <= Count(a) /\ Count(Sofar(t, d)[1]) \in Nat
    BY <2>4, CountGrows
  <2>6. 0 + 1 = 1
    OBVIOUS
  <2> HIDE DEF a, n
  <2> QED BY <1>6, <2>1, <2>3, <2>5, <2>6
<1> HIDE DEF L, begun, whole, total, n
<1>8. \A k \in 1..total : Len(b[k]) = W
  <2> DEFINE found == Records(t, d)
  <2>1. found = UnquotedRows(whole)
    BY RecordsAre DEF whole
  <2>2. found \in Seq(Row) /\ Len(found) = total
        /\ \A k \in 1..total : found[k] = UnquotedRow(whole[k])
    BY <1>4, <2>1, UnquotedRowsIs
  <2>3. \A k \in 1..total : Len(found[k]) = Len(b[k])
    <3> SUFFICES ASSUME NEW k \in 1..total PROVE Len(found[k]) = Len(b[k])
      OBVIOUS
    <3>1. whole[k] \in Row /\ whole[k] = b[k]
      BY <1>4
    <3> HIDE DEF found, b
    <3> QED BY <2>2, <3>1, UnquotedRowIs
  <2>4. \A k \in DOMAIN found : Len(found[k]) = Len(found[1])
    OBVIOUS
  <2>5. DOMAIN found = 1..total
    BY <2>2
  <2>6. 1 \in 1..total
    BY <1>6, <1>7
  <2> HIDE DEF found, b
  <2> QED BY <2>3, <2>4, <2>5, <2>6
<1>9. \A k \in 1..n : Len(rows[k]) = Len(a[k])
  <2> HIDE DEF a
  <2> QED BY <1>2, <1>3, <1>6 DEF n
<1>10. \A k \in 1..n : Len(a[k]) > 0 /\ Len(a[k]) \in Nat
  <2>1. Grows(Sofar(t, d)[0], a)
    <3>1. 0 <= H /\ H \in Nat
      BY <1>1
    <3> HIDE DEF H
    <3> QED BY <1>1, <3>1, Growth DEF L
  <2>2. Sofar(t, d)[0] = <<Blank>>
    BY SofarIs
  <2>3. Len(<<Blank>>) = 1 /\ \A k \in 1..1 : <<Blank>>[k] = Blank
    OBVIOUS
  <2>4. Len(Blank) = 1
    BY DEF Blank
  <2> DEFINE e == <<Blank>>
  <2>5. \A k \in 1..Len(e) : Len(e[k]) > 0
    <3>1. Len(e) = 1 /\ e[1] = Blank
      BY <2>3
    <3> HIDE DEF e
    <3> SUFFICES ASSUME NEW k \in 1..Len(e) PROVE Len(e[k]) > 0
      OBVIOUS
    <3>2. e[k] = Blank
      BY <3>1
    <3>3. Len(e[k]) = 1
      BY <2>4, <3>2
    <3> QED BY <3>3
  <2>6. Grows(e, a)
    BY <2>1, <2>2
  <2> HIDE DEF a, e
  <2>7. \A k \in 1..Len(a) : Len(a[k]) > 0
    BY <2>5, <2>6 DEF Grows
  <2>8. a \in Seq(Row)
    BY <2>6 DEF Grows
  <2>9. n <= Len(a)
    BY <1>6 DEF Count
  <2>10. \A k \in 1..n : k \in 1..Len(a)
    BY <1>6, <2>9
  <2> QED BY <2>7, <2>8, <2>10 DEF Row
<1>11. \A k \in 1..n : k <= total /\ k \in 1..total
  BY <1>6
<1>12. \A k \in 1..(Len(a) - 1) : b[k] = a[k]
  BY <1>5 DEF Grows
<1>13. Len(a[Len(a)]) <= Len(b[Len(a)])
  BY <1>5 DEF Grows
<1> HIDE DEF a, b
<1>14. W \in Nat \ {0}
  <2>1. 1 \in 1..n
    BY <1>6, <1>7
  <2>2. CASE Len(a) = 1
    <3>1. Len(a[1]) <= W /\ Len(a[1]) > 0 /\ Len(a[1]) \in Nat
      BY <1>10, <1>13, <2>1, <2>2
    <3>2. b \in Seq(Row)
      BY <1>5 DEF Grows
    <3>3. W \in Nat
      BY <1>6, <3>2 DEF Row
    <3> HIDE DEF W
    <3> QED BY <3>1, <3>3
  <2>3. CASE Len(a) # 1
    <3> DEFINE l == Len(a)
    <3>1. 1 \in 1..(l - 1)
      <4>1. l \in Nat \ {0} /\ l # 1
        BY <1>6, <2>3
      <4> HIDE DEF l
      <4> QED BY <4>1
    <3>2. W = Len(a[1])
      BY <1>12, <3>1
    <3> QED BY <1>10, <2>1, <3>2
  <2> QED BY <2>2, <2>3
<1> HIDE DEF W
<1>15. CASE n = Len(a) /\ Len(a[n]) # W
  <2>1. \A k \in 1..(n - 1) : k \in 1..n /\ k \in 1..(Len(a) - 1)
    BY <1>6, <1>15
  <2>2. \A k \in 1..(n - 1) : Len(rows[k]) = W
    BY <1>8, <1>9, <1>11, <1>12, <2>1
  <2>3. n \in 1..n
    BY <1>6, <1>7
  <2>4. Len(a[n]) <= W
    BY <1>8, <1>11, <1>13, <1>15, <2>3
  <2>5. Len(a[n]) \in 1..(W - 1)
    BY <1>10, <1>14, <1>15, <2>3, <2>4
  <2>6. Len(rows[n]) = Len(a[n])
    BY <1>9, <2>3
  <2>7. CASE n > 1
    <3>1. Score(rows) >= Len(rows) /\ HeaderRows(rows) = {0}
      BY <1>2, <1>14, <2>2, <2>5, <2>6, <2>7, LastNarrow DEF n
    <3> QED BY <1>2, <1>7, <3>1 DEF n, begun
  <2>8. CASE n = 1
    <3> DEFINE v == Len(a[n])
    <3>1. v \in Nat \ {0} /\ \A k \in 1..n : Len(rows[k]) = v
      BY <1>14, <2>5, <2>6, <2>8
    <3> HIDE DEF v
    <3>2. Score(rows) >= Len(rows) /\ HeaderRows(rows) = {0}
      BY <1>2, <1>7, <3>1, SameWidths DEF n
    <3> QED BY <1>2, <1>7, <3>2 DEF n, begun
  <2> QED BY <1>6, <1>7, <2>7, <2>8
<1>16. CASE ~(n = Len(a) /\ Len(a[n]) # W)
  <2>1. \A k \in 1..n : k \in 1..(Len(a) - 1) \/ (k = Len(a) /\ k = n)
    BY <1>6 DEF Count
  <2>2. \A k \in 1..n : Len(rows[k]) = W
    <3> SUFFICES ASSUME NEW k \in 1..n PROVE Len(rows[k]) = W
      OBVIOUS
    <3>1. CASE k \in 1..(Len(a) - 1)
      BY <1>8, <1>9, <1>11, <1>12, <3>1
    <3>2. CASE k = Len(a) /\ k = n
      BY <1>9, <1>16, <3>2
    <3> QED BY <2>1, <3>1, <3>2
  <2>3. Score(rows) >= Len(rows) /\ HeaderRows(rows) = {0}
    BY <1>2, <1>7, <1>14, <2>2, SameWidths DEF n
  <2> QED BY <1>2, <1>7, <2>3 DEF n, begun
<1> QED BY <1>15, <1>16

\* Of a regular table every reader guesses the delimiter and the header.
LEMMA GuessIs ==
  ASSUME NEW t \in Seq(Chars), t # << >>, WellFormed(t, Delims[1]), Regular(t, Delims[1])
  PROVE  GuessFormat(t) = {[delim |-> Delims[1], header |-> 0]}
<1> DEFINE d == Delims[1]
           N == Len(Delims)
           H == Min({Len(t), HeadSize})
           h == SubSeq(t, 1, H)
           rows(e) == ParsedOf(h, e)
           score == [i \in DOMAIN Delims |-> Score(HeadRows(t, Delims[i]))]
           Q == {i \in DOMAIN Delims : \A j \in DOMAIN Delims : score[j] <= score[i]}
<1>1. /\ N \in Nat \ {0} /\ DOMAIN Delims = 1..N
      /\ \A i \in 1..N : Delims[i] \in ToSet(Delims) /\ IsDelimiter(Delims[i])
  <2>1. N \in Nat \ {0} /\ DOMAIN Delims = 1..N /\ \A i \in 1..N : Delims[i] \in ToSet(Delims)
    BY DelimsAssumption DEF ToSet
  <2> QED BY <2>1, CharsAssumption DEF IsDelimiter
<1> HIDE DEF N
<1>2. 1 \in 1..N /\ IsDelimiter(d)
  BY <1>1
<1>3. H \in Nat \ {0} /\ H <= Len(t)
  <2>1. Len(t) \in Nat \ {0} /\ HeadSize \in Nat \ {0}
    BY SizesAssumption
  <2> QED BY <2>1, MinOfPair
<1>4. \A e : HeadRows(t, e) = rows(e)
  BY DEF HeadRows, ParsedOf
<1> HIDE DEF H
<1>5. /\ h \in Seq(Chars) /\ Len(h) = H /\ \A i \in 1..H : h[i] = t[i]
      /\ \A p \in 0..H : Inside(h, p) <=> Inside(t, p)
  <2>1. h \in Seq(Chars) /\ Len(h) = H /\ \A i \in 1..H : h[i] = t[i]
    BY <1>3, PrefixIs
  <2> HIDE DEF h
  <2> QED BY <1>2, <1>3, <2>1, HeadIs
<1>6. Quoting(t, d)
  BY DEF WellFormed
<1>7. /\ rows(d) \in Seq(Row) /\ Len(rows(d)) = Len(Begun(h, d)) /\ Len(rows(d)) # 0
      /\ Score(rows(d)) >= Len(rows(d)) /\ HeaderRows(rows(d)) = {0}
  <2>1. \A n \in DOMAIN Records(t, d) : Len(Records(t, d)[n]) = Len(Records(t, d)[1])
    BY DEF Regular
  <2>2. h # << >> /\ Len(h) <= Len(t) /\ \A i \in 1..Len(h) : h[i] = t[i]
    BY <1>3, <1>5
  <2> DEFINE r == rows(d)
  <2>3. r = ParsedOf(h, d)
    OBVIOUS
  <2> HIDE DEF r, h
  <2> QED BY <1>2, <1>5, <1>6, <2>1, <2>2, <2>3, HeadScore DEF r
<1>8. Lines(h)
  <2> SUFFICES ASSUME NEW p \in 0..(H - 1), h[p + 1] = Newline PROVE ~Inside(h, p)
    BY <1>5 DEF Lines
  <2>1. p \in Nat /\ p + 1 \in 1..H /\ p \in 0..H /\ p + 1 \in DOMAIN t
    BY <1>3
  <2>2. t[p + 1] = Newline
    BY <1>5, <2>1
  <2>3. Outside(t, {Newline}) = {q \in DOMAIN t : t[q] = Newline}
    BY DEF Regular
  <2>4. p + 1 \in Outside(t, {Newline})
    BY <2>1, <2>2, <2>3
  <2>5. ~Inside(t, p)
    BY <2>1, <2>4, OutsideIs
  <2> QED BY <1>5, <2>1, <2>5
<1>9. ASSUME NEW e, e \in ToSet(Delims), IsDelimiter(e), e # d
      PROVE  Score(rows(e)) \in Int /\ Score(rows(e)) <= Len(rows(d))
  <2>1. \A p \in 1..Len(h) : h[p] # e
    <3>1. \A p \in 1..H : h[p] \in ToSet(t)
      <4>1. \A p \in 1..H : p \in DOMAIN t
        BY <1>3
      <4> QED BY <1>5, <4>1 DEF ToSet
    <3>2. e \notin ToSet(t)
      BY <1>9 DEF Regular
    <3> QED BY <1>5, <3>1, <3>2
  <2>2. h # << >>
    BY <1>3, <1>5
  <2> DEFINE r == rows(e)
             m == Len(r)
  <2>3. r \in Seq(Row) /\ m <= Len(Begun(h, d)) /\ \A k \in 1..m : Len(r[k]) = 1
    BY ZenonT(30), <1>2, <1>5, <1>8, <1>9, <2>1, <2>2, MergedRows
  <2>4. m \in Nat
    BY <2>3
  <2>5. Score(r) = m
    <3>1. CASE m = 0
      <4>1. Widths(r) = {}
        BY <2>3, <3>1 DEF Widths
      <4>2. {w * Tally(r, w) : w \in Widths(r)} \cup {0} = {0}
        BY <4>1
      <4>3. Max({0}) = 0
        BY MaxIs
      <4> QED BY <3>1, <4>2, <4>3 DEF Score
    <3>2. CASE m # 0
      <4>1. Score(r) = 1 * Len(r)
        <5> DEFINE one == 1
        <5>1. one \in Nat \ {0} /\ \A k \in 1..Len(r) : Len(r[k]) = one
          BY <2>3
        <5> HIDE DEF r, one
        <5>2. Score(r) = one * Len(r)
          BY <2>3, <3>2, <5>1, SameWidths
        <5> QED BY <5>2 DEF one
      <4> HIDE DEF r
      <4> QED BY <2>4, <4>1
    <3> QED BY <3>1, <3>2
  <2> HIDE DEF r
  <2> QED BY <1>7, <2>3, <2>4, <2>5 DEF r
<1> HIDE DEF rows
<1>10. Score(rows(d)) \in Int /\ Score(rows(d)) > 0 /\ Len(rows(d)) \in Nat
  <2>1. Score(rows(d)) \in Int
    BY <1>7, ScoreType
  <2>2. Len(rows(d)) \in Nat \ {0}
    BY <1>7
  <2> QED BY <1>7, <2>1, <2>2
<1>11. \A j \in 1..N : score[j] <= score[1]
  <2> SUFFICES ASSUME NEW j \in 1..N PROVE Score(rows(Delims[j])) <= Score(rows(d))
    BY <1>1, <1>2, <1>4
  <2>1. CASE Delims[j] = d
    BY <1>10, <2>1
  <2>2. CASE Delims[j] # d
    <3>1. Score(rows(Delims[j])) \in Int /\ Score(rows(Delims[j])) <= Len(rows(d))
      BY <1>1, <1>9, <2>2
    <3> QED BY <1>7, <1>10, <3>1
  <2> QED BY <2>1, <2>2
<1>12. score[1] = Score(rows(d)) /\ score[1] # 0
  BY <1>1, <1>2, <1>4, <1>10
<1> HIDE DEF score
<1>13. Min(Q) = 1
  <2>1. 1 \in Q /\ Q \subseteq Int /\ \A x \in Q : 1 <= x
    BY <1>1, <1>2, <1>11
  <2> HIDE DEF Q
  <2> QED BY <2>1, MinIs
<1>14. GuessFormat(t) =
         IF score[Min(Q)] = 0 THEN {[delim |-> Delims[1], header |-> 0]}
         ELSE {[delim |-> Delims[Min(Q)], header |-> k] : k \in HeaderRows(HeadRows(t, Delims[Min(Q)]))}
  BY DEF GuessFormat, score
<1> HIDE DEF Q
<1>15. GuessFormat(t) = {[delim |-> Delims[1], header |-> k] : k \in HeaderRows(HeadRows(t, Delims[1]))}
  BY <1>12, <1>13, <1>14
<1>16. HeaderRows(HeadRows(t, Delims[1])) = {0}
  BY <1>4, <1>7
<1> QED BY <1>15, <1>16

\* Every reader splits at the delimiter of its table and takes the first record
\* for the header, whether it is told or guesses.
THEOREM FormatKnown == \A t \in Files : Formats(t) = {[delim |-> Delims[1], header |-> 0]}
<1> SUFFICES ASSUME NEW t \in Files PROVE Formats(t) = {[delim |-> Delims[1], header |-> 0]}
  OBVIOUS
<1>1. t \in Seq(Chars) /\ t # << >> /\ WellFormed(t, Delims[1])
  BY FilesAssumption
<1>2. Regular(t, Delims[1]) => GuessFormat(t) = {[delim |-> Delims[1], header |-> 0]}
  BY <1>1, GuessIs
<1> QED BY <1>2, Zenon DEF Formats

-----------------------------------------------------------------------------
(* The rows of the abstract stream *)

LEMMA StreamSelected == \A s, positions : Stream!Selected(s, positions) = Selected(s, positions)
BY Zenon DEF Stream!Selected, Selected

LEMMA StreamQuotes == \A t, p : Stream!QuotesBefore(t, p) = QuotesBefore(t, p)
<1>1. \A S : Stream!Cardinality(S) = Cardinality(S)
  BY Zenon DEF Stream!Cardinality, Cardinality
<1> QED BY <1>1, Zenon DEF Stream!QuotesBefore, QuotesBefore

LEMMA StreamOutside == \A t, chars : Stream!Outside(t, chars) = Outside(t, chars)
BY StreamQuotes DEF Stream!Outside, Outside

LEMMA StreamUnquoted == \A field : Stream!Unquoted(field) = Unquoted(field)
<1> SUFFICES ASSUME NEW w PROVE Stream!Unquoted(w) = Unquoted(w)
  OBVIOUS
<1> DEFINE inner == SubSeq(w, 2, Len(w) - 1)
           P == {i \in DOMAIN inner : inner[i] = Quote => QuotesBefore(inner, i) % 2 = 0}
           Q == {i \in DOMAIN inner : inner[i] = Quote => Stream!QuotesBefore(inner, i) % 2 = 0}
<1>1. P = Q
  BY StreamQuotes
<1>2. Unquoted(w) = IF w # << >> /\ w[1] = Quote THEN Selected(inner, P) ELSE w
  BY Zenon DEF Unquoted
<1>3. Stream!Unquoted(w) = IF w # << >> /\ w[1] = Quote THEN Stream!Selected(inner, Q) ELSE w
  BY Zenon DEF Stream!Unquoted
<1> QED BY <1>1, <1>2, <1>3, StreamSelected, Zenon

LEMMA StreamWritten == \A t, d : Stream!Written(t, d) = Written(t, d)
<1> SUFFICES ASSUME NEW t, NEW d PROVE Stream!Written(t, d) = Written(t, d)
  OBVIOUS
<1>1. Stream!Outside(t, {Newline}) = Outside(t, {Newline}) /\ Stream!Outside(t, {d}) = Outside(t, {d})
  BY StreamOutside
<1> DEFINE W(ends, cuts) ==
             LET upto[p \in 0..Len(t)] ==
                   IF p = 0 THEN <<Blank>> ELSE Write(upto[p - 1], t, p, ends, cuts)
             IN upto[Len(t)]
<1>2. Written(t, d) = W(Outside(t, {Newline}), Outside(t, {d}))
  BY Zenon DEF Written
<1>3. Stream!Written(t, d) = W(Stream!Outside(t, {Newline}), Stream!Outside(t, {d}))
  BY Zenon DEF Stream!Written, Stream!Write, Write, Stream!Blank, Blank, Stream!Last, Last,
               Stream!Front, Front
<1> HIDE DEF W
<1> QED BY <1>1, <1>2, <1>3, Zenon

LEMMA StreamRecords == \A t, d : Stream!Records(t, d) = Records(t, d)
BY StreamWritten, StreamUnquoted
   DEF Stream!Records, Records, Stream!Blank, Blank, Stream!Last, Last, Stream!Front, Front

-----------------------------------------------------------------------------
(* A loaded table holds its file *)

\* The format is known from the start.
Known == text \in Files /\ format = [delim |-> Delims[1], header |-> 0]

LEMMA KnownInit == Init => Known
BY FormatKnown DEF Init, Known

LEMMA KnownNext == Known /\ [Next]_vars => Known'
<1>1. [Next]_vars => UNCHANGED <<text, format>>
  BY DEF Next, Worker, Main, Announce, Crash, Map, ParseOn, ChunkEnds, FileEnds, Feed, TrimHeader,
         Kill, Constructed, Begin, BeginReads, BeginJoined, DropRow, ReadRow, SeesNone,
         SeesWaitable, SeesIdle, SeesEof, SeesMore, Go, Wait, Restart, Destroy, Terminating, vars
<1> QED BY <1>1 DEF Known

LEMMA KnownFile ==
  ASSUME Known
  PROVE  /\ text \in Seq(Chars) /\ text # << >> /\ WellFormed(text, format.delim)
         /\ format.delim = Delims[1] /\ format.header = 0 /\ IsDelimiter(format.delim)
<1>1. format.delim = Delims[1] /\ format.header = 0
  BY DEF Known
<1>2. Delims[1] \in ToSet(Delims)
  <2>1. Delims \in Seq(Chars) /\ Delims # << >>
    BY DelimsAssumption
  <2>2. 1 \in DOMAIN Delims
    BY <2>1
  <2> QED BY <2>2 DEF ToSet
<1>3. IsDelimiter(Delims[1])
  BY <1>2, CharsAssumption DEF IsDelimiter
<1> QED BY <1>1, <1>3, FilesAssumption DEF Known

\* What the parser finds is what the file says.
LEMMA ParsedRecords == Known => Parsed = Records(text, format.delim) /\ Parsed \in Seq(Row)
BY KnownFile, ParsesRecords, ParsedType DEF Parsed

\* The stream's rows are those the loop is to be handed.
LEMMA RowsAre ==
  ASSUME Known
  PROVE  /\ Stream!Rows = Selected(Parsed, Kept)
         /\ Stream!Rows # << >> => Len(Parsed) > 1
<1>1. Parsed = Records(text, format.delim) /\ Parsed \in Seq(Row) /\ format.header = 0
  BY ParsedRecords, KnownFile
<1> DEFINE P(s) == {n \in DOMAIN s : n = 2 \/ (n > 2 /\ Len(s[n]) = Len(s[1]))}
<1>2. Stream!Rows = Selected(Parsed, P(Parsed))
  <2>1. Stream!Rows = Stream!Selected(Parsed, P(Parsed))
    BY <1>1, StreamRecords, Zenon DEF Stream!Rows, Stream!Owed
  <2> QED BY <2>1, StreamSelected
<1>3. P(Parsed) = Kept
  <2>1. format.header + 2 = 2 /\ format.header + 1 = 1
    BY <1>1
  <2> QED BY <2>1, Zenon DEF Kept
<1>4. Len(Parsed) \in Nat /\ DOMAIN Parsed = 1..Len(Parsed)
  BY <1>1
<1>5. ASSUME ~(Len(Parsed) > 1) PROVE Stream!Rows = << >>
  <2>1. \A n \in 1..Len(Parsed) : n \notin Kept
    BY <1>1, <1>4, <1>5 DEF Kept
  <2>2. Selection(Parsed, Kept)[Len(Parsed)] = << >>
    BY <1>1, <1>4, <2>1, NoneSelected
  <2> QED BY ZenonT(30), <1>1, <1>2, <1>3, <2>2, SelectionIs
<1> QED BY <1>2, <1>3, <1>5

\* A loaded table holds its file: under each ID the first row that has it,
\* under each number the row at that place.
THEOREM TableWholeAlways == LoadSpec => []TableWhole
<1>1. LoadInit => Known
  BY KnownInit DEF LoadInit
<1>2. Known /\ [LoadNext]_all => Known'
  BY LoadStep, KnownNext
<1>3. Known /\ TableFilled => TableWhole
  <2> SUFFICES ASSUME Known, TableFilled, main = "destroyed", Usual PROVE TableWhole
    BY DEF TableWhole
  <2>1. Stream!Rows = Selected(Parsed, Kept) /\ Len(Parsed) > 1 /\ format.header = 0
    BY RowsAre, KnownFile DEF Usual
  <2>2. Len(Parsed) > format.header + 1
    BY <2>1
  <2>3. Holds(Stream!Rows)
    BY <2>1, <2>2 DEF TableFilled, Usual
  <2> QED BY <2>3, Zenon DEF TableWhole, Holds
<1> QED BY <1>1, <1>2, <1>3, TableFilledAlways, PTL DEF LoadSpec

-----------------------------------------------------------------------------
(* What a second worker finds *)

\* The end of the file moves no row; the text of a last field is as it should be.
LEMMA EndFeedLeaves ==
  ASSUME NEW t \in Seq(Chars), t # << >>, NEW d, IsDelimiter(d), NEW s, Parsing(t, s)
  PROVE  /\ EndFeed(t, d, s).row_start = s.row_start
         /\ s.field_length > 0 \/ t[Len(t)] \in {d, Quote} => ~EndFeed(t, d, s).double_quote
         /\ ~(s.field_length > 0 \/ t[Len(t)] \in {d, Quote}) =>
              EndFeed(t, d, s).double_quote = s.double_quote
<1> DEFINE u == PushField(t, s)
           c == Last(t)
           pushes == \/ s.field_length > 0
                     \/ t # << >> /\ ParseFlag(c, d) \in {"DELIMITER", "QUOTE"}
           v == IF pushes THEN u ELSE s
           e == EndFeed(t, d, s)
<1>1. e = IF v.current_row # << >> THEN PushRow(v) ELSE v
  BY DEF EndFeed
<1>2. c = t[Len(t)]
  BY DEF Last
<1>3. ParseFlag(c, d) \in {"DELIMITER", "QUOTE"} <=> c \in {d, Quote}
  <2>1. d # Newline /\ d # Quote /\ Quote # Newline
    BY CharsAssumption DEF IsDelimiter
  <2> QED BY <2>1 DEF ParseFlag
<1>4. IsParser(s)
  BY DEF Parsing
<1>5. u.row_start = s.row_start /\ ~u.double_quote /\ DOMAIN u = ParserFields
  BY <1>4, PushFieldIs
<1>6. pushes <=> s.field_length > 0 \/ t[Len(t)] \in {d, Quote}
  BY <1>2, <1>3
<1>7. v.row_start = s.row_start /\ (pushes => ~v.double_quote)
      /\ (~pushes => v.double_quote = s.double_quote) /\ DOMAIN v = ParserFields
  BY <1>4, <1>5 DEF IsParser
<1> HIDE DEF v, pushes
<1>8. e.row_start = v.row_start /\ e.double_quote = v.double_quote
  BY <1>1, <1>7 DEF PushRow, ParserFields
<1> QED BY <1>6, <1>7, <1>8

\* Of a file with a single record either all is read again, and then it has no
\* line end, or nothing is.
LEMMA RestIs ==
  ASSUME NEW t \in Seq(Chars), t # << >>, NEW d, IsDelimiter(d), WellFormed(t, d),
         ~(Len(ParsedOf(t, d)) > 1), NEW e, e = EndFeed(t, d, Parse(t, d, FALSE))
  PROVE  /\ \/ e.row_start = 0 /\ t[Len(t)] # Newline
            \/ e.row_start = Len(t)
         /\ ~e.double_quote
<1> DEFINE s == Parse(t, d, FALSE)
           u == PushField(t, s)
           L == Len(t)
           pushes == s.field_length > 0 \/ t[L] \in {d, Quote}
           parsed == ParsedOf(t, d)
<1>1. Quoting(t, d) /\ ~Inside(t, L)
  <2>1. Quoting(t, d) /\ QuotesBefore(t, Len(t) + 1) % 2 = 0
    BY DEF WellFormed
  <2> QED BY <2>1, QuotesType
<1>2. /\ Parsing(t, s) /\ Fits(t, d, s)
      /\ s.pos = L \/ (s.pos + 1 = L /\ t[s.pos + 1] = Quote)
  BY <1>1, ParseFits
<1>3. e = EndFeed(t, d, s) /\ parsed = EndFeed(t, d, s).rows /\ u = PushField(t, s)
  BY DEF ParsedOf
<1> HIDE DEF s, u, parsed
<1>4. /\ e.row_start = s.row_start
      /\ pushes => ~e.double_quote
      /\ ~pushes => e.double_quote = s.double_quote
      /\ pushes => parsed = Append(s.rows, u.current_row)
  <2>1. /\ EndFeed(t, d, s).row_start = s.row_start
        /\ pushes => ~EndFeed(t, d, s).double_quote
        /\ ~pushes => EndFeed(t, d, s).double_quote = s.double_quote
    BY <1>2, EndFeedLeaves
  <2>2. pushes => EndFeed(t, d, s).rows = Append(s.rows, u.current_row)
    BY <1>2, <1>3, EndFeedIs
  <2> QED BY <1>3, <2>1, <2>2
<1>5. IsParser(u) /\ IsParser(s)
  BY <1>2, <1>3, PushFieldParses DEF Parsing
<1>6. PICK f, before, cur : Common(t, d, f, before, cur, s) /\ Phase(t, d, f, cur, s)
  BY <1>2 DEF Fits
<1>7. /\ L \in Nat \ {0} /\ s.pos \in Nat /\ s.field_length \in Nat /\ f \in Nat /\ s.row_start \in Nat
      /\ s.rows \in Seq(Row) /\ u.current_row \in Row /\ before \in Seq(Row)
      /\ s.rows = UnquotedRows(before) /\ (before = << >> <=> s.row_start = 0)
      /\ s.pos <= L /\ f <= s.pos /\ (cur = << >> => f = s.row_start)
  BY <1>2, <1>5, <1>6 DEF Common, Writing, IsParser, Parsing
<1>8. d # Newline /\ d # Quote /\ Quote # Newline
  BY CharsAssumption DEF IsDelimiter
<1>9. CASE pushes
  <2>1. Len(parsed) = Len(s.rows) + 1 /\ Len(s.rows) \in Nat
    BY <1>4, <1>7, <1>9
  <2>2. Len(s.rows) = 0
    BY <2>1 DEF parsed
  <2>3. Len(before) = 0
    BY <1>7, <2>2, UnquotedRowsIs
  <2>4. s.row_start = 0
    <3>1. before = << >>
      BY <1>7, <2>3
    <3> QED BY <1>7, <3>1
  <2>5. t[L] # Newline
    <3>1. CASE t[L] \in {d, Quote}
      BY <1>8, <3>1
    <3>2. CASE t[L] \notin {d, Quote}
      <4>1. s.pos = L /\ s.field_length > 0
        BY <1>2, <1>9, <3>2
      <4>2. Bare(t, d, f, s)
        BY <1>1, <1>6, <1>7, <4>1 DEF Phase, Between, Quoted, Opened, Closed
      <4> QED BY <4>1, <4>2 DEF Bare
    <3> QED BY <3>1, <3>2
  <2> QED BY <1>4, <1>9, <2>4, <2>5
<1>10. CASE ~pushes
  <2>1. s.pos = L /\ s.field_length = 0 /\ t[L] # d
    BY <1>2, <1>7, <1>10
  <2>2. Between(t, d, f, cur, s)
    <3>1. ~Bare(t, d, f, s)
      BY <1>7, <2>1 DEF Bare
    <3> QED BY <1>1, <1>6, <1>7, <2>1, <3>1 DEF Phase, Quoted, Opened, Closed
  <2>3. f = L /\ cur = << >> /\ ~s.double_quote
    BY <1>7, <2>1, <2>2 DEF Between
  <2> QED BY <1>4, <1>7, <1>10, <2>3
<1> QED BY <1>9, <1>10

\* Where the first worker leaves a file that has no row to hand out.
Rested == /\ parser.double_quote = FALSE
          /\ \/ mmap_pos = 0 /\ Last(text) # Newline
             \/ mmap_pos = Len(text)

NothingInHand == /\ mmap_pos = Len(text) /\ length = 0
                 /\ records = << >> /\ parser = FreshParser(FALSE)

\* The second worker, which begin() starts, finds nothing or the single record
\* once more.
Refilled ==
  /\ delivered = << >>
  /\ worker \in {"start", "map"} => Rested /\ records = << >>
  /\ worker \in {"parse", "feed"} => NothingInHand \/ (FileInHand /\ Last(text) # Newline)
  /\ worker = "feed" => Stopped
  /\ worker \in {"trim", "kill", "done"} =>
       records = << >> \/ (records = Parsed /\ Last(text) # Newline)

Rereading ==
  NoChunk /\ Running /\ ~(Len(Parsed) > 1) =>
    /\ main = "construct" /\ worker \in {"trim", "kill", "done"} => Rested
    /\ main = "begin" => Rested /\ records = << >> /\ delivered = << >>
    /\ main = "begin_join" => Refilled
    /\ main \notin {"construct", "begin", "begin_join"} => records = << >>

LEMMA RereadingInit == Init => Rereading
BY DEF Init, Rereading

\* What the end of the file leaves when there is no row to hand out.
LEMMA FeedRests ==
  ASSUME Known, Typed, ~(Len(Parsed) > 1), FileInHand, Stopped, Feed
  PROVE  records' = Parsed /\ Rested'
<1> DEFINE d == format.delim
           s == Parse(text, d, FALSE)
           e == EndFeed(text, d, s)
<1>1. /\ text \in Seq(Chars) /\ text # << >> /\ WellFormed(text, d) /\ IsDelimiter(d)
      /\ Len(text) \in Nat
  BY KnownFile
<1>2. records' = Parsed /\ mmap_pos' = s.row_start /\ parser'.double_quote = e.double_quote
  BY FeedInHand
<1>3. UNCHANGED text
  BY DEF Feed
<1>4. Parsing(text, s)
  BY <1>1, ParseParses
<1>5. /\ \/ e.row_start = 0 /\ text[Len(text)] # Newline
         \/ e.row_start = Len(text)
      /\ ~e.double_quote
  <2>1. ~(Len(ParsedOf(text, d)) > 1)
    BY DEF Parsed
  <2> QED BY <1>1, <2>1, RestIs
<1> HIDE DEF s, d
<1>6. e.row_start = s.row_start /\ e.double_quote \in BOOLEAN
  BY <1>1, <1>4, EndFeedLeaves, EndFeedParses DEF IsParser
<1> HIDE DEF e
<1>7. Last(text) = text[Len(text)]
  BY DEF Last
<1> QED BY <1>2, <1>3, <1>5, <1>6, <1>7 DEF Rested

LEMMA RereadingWorker ==
  ASSUME Known, Typed, Signalled, Single, Reading, Rereading, Running, Worker
  PROVE  Rereading'
<1> USE DEF Running, chunk, header
<1> SUFFICES ASSUME NoChunk', main' # "aborted", ~(Len(Parsed') > 1)
             PROVE  /\ main' = "construct" /\ worker' \in {"trim", "kill", "done"} => Rested'
                    /\ main' = "begin" => Rested' /\ records' = << >> /\ delivered' = << >>
                    /\ main' = "begin_join" => Refilled'
                    /\ main' \notin {"construct", "begin", "begin_join"} => records' = << >>
  BY DEF Rereading
<1>1. UNCHANGED <<text, format, delivered>> /\ NoChunk
  BY DEF Worker, Announce, Crash, Map, ParseOn, ChunkEnds, FileEnds, Feed, TrimHeader, Kill,
     NoChunk
<1>2. main' = main
  BY DEF Worker, Announce, Crash, Map, ParseOn, ChunkEnds, FileEnds, Feed, TrimHeader, Kill
<1>3. worker # "none" /\ worker # "done"
  BY DEF Worker, Announce, Crash, Map, ParseOn, ChunkEnds, FileEnds, Feed, TrimHeader, Kill
<1>4. Parsed' = Parsed /\ ~(Len(Parsed) > 1)
  BY <1>1 DEF Parsed
<1>5. main \in {"construct", "begin_join"}
  BY <1>1, <1>2, <1>3 DEF Single
<1>6. TypeOK /\ text \in Seq(Chars) /\ Len(text) \in Nat /\ text # << >>
  BY FilesAssumption DEF Typed, TypeOK
<1>7. CASE main = "construct"
  <2>1. Filled
    BY <1>1, <1>7 DEF Reading
  <2>2. worker \in {"trim", "kill"} => Rested
    BY <1>1, <1>4, <1>7 DEF Rereading
  <2>3. SUFFICES ASSUME worker' \in {"trim", "kill", "done"} PROVE Rested'
    BY <1>2, <1>7
  <2>4. CASE Feed
    BY <1>4, <2>1, <2>4, FeedRests DEF Feed, Filled
  <2>5. CASE TrimHeader \/ Kill
    BY <1>1, <2>2, <2>5 DEF TrimHeader, Kill, Rested
  <2>6. CASE ChunkEnds
    BY <1>1, <2>6 DEF ChunkEnds
  <2> QED BY <2>3, <2>4, <2>5, <2>6
          DEF Worker, Announce, Crash, Map, ParseOn, FileEnds
<1>8. CASE main = "begin_join"
  <2>1. Refilled /\ header_trimmed
    BY <1>1, <1>4, <1>8 DEF Rereading, Signalled
  <2>2. SUFFICES Refilled'
    BY <1>2, <1>8
  <2>3. CASE Announce
    BY <1>1, <2>1, <2>3 DEF Announce, Refilled, Rested
  <2>4. CASE Crash
    BY <2>4 DEF Crash
  <2>5. CASE Map
    <3>1. Rested /\ records = << >> /\ worker' = "parse" /\ UNCHANGED records
      BY <2>1, <2>5 DEF Map, Refilled
    <3>2. CASE mmap_pos = 0 /\ Last(text) # Newline
      <4>1. FileInHand'
        BY <1>1, <1>6, <2>5, <3>1, <3>2, MapInHand DEF Rested
      <4> QED BY <1>1, <2>1, <3>1, <3>2, <4>1 DEF Refilled
    <3>3. CASE mmap_pos = Len(text)
      <4>1. length' = 0
        <5>1. length' = Min({Len(text) - mmap_pos, Chunk}) /\ Chunk \in Nat \ {0}
          BY <2>5, SizesAssumption DEF Map
        <5>2. Len(text) - mmap_pos = 0 /\ 0 < Chunk
          BY <1>6, <3>3, <5>1
        <5> QED BY <5>1, <5>2, MinOfPair
      <4>2. mmap_pos' = Len(text)
        BY <1>6, <2>5, <3>3, <4>1 DEF Map
      <4>3. parser' = FreshParser(FALSE)
        BY <2>5, <3>1 DEF Map, Rested, FreshParser
      <4> QED BY <1>1, <2>1, <3>1, <4>1, <4>2, <4>3 DEF Refilled, NothingInHand
    <3> QED BY <3>1, <3>2, <3>3 DEF Rested
  <2>6. ASSUME NothingInHand PROVE Data = << >> /\ Stopped
    <3>1. mmap_pos - length + 1 = Len(text) + 1 /\ mmap_pos = Len(text) /\ parser.pos = 0
      BY <1>6, <2>6 DEF NothingInHand, FreshParser
    <3>2. SubSeq(text, Len(text) + 1, Len(text)) = << >>
      BY <1>6, SubSeqEmpty
    <3>3. Data = << >>
      BY <3>1, <3>2 DEF Data
    <3>4. parser.pos = Len(Data)
      BY <3>1, <3>3
    <3> QED BY <3>3, <3>4 DEF Stopped, Round
  <2>7. CASE ParseOn
    <3>1. FileInHand /\ Last(text) # Newline
      BY <2>1, <2>6, <2>7 DEF ParseOn, Refilled
    <3>2. FileInHand'
      BY <2>7, <3>1, RoundInHand
    <3> QED BY <1>1, <2>1, <2>7, <3>1, <3>2 DEF ParseOn, Refilled
  <2>8. CASE ChunkEnds
    BY <1>1, <2>8 DEF ChunkEnds
  <2>9. CASE FileEnds
    <3>1. Stopped' /\ worker = "parse" /\ worker' = "feed"
      BY <2>9 DEF FileEnds, Stopped, Data
    <3>2. (FileInHand => FileInHand') /\ (NothingInHand => NothingInHand')
      BY <2>9 DEF FileEnds, FileInHand, NothingInHand
    <3> QED BY <1>1, <2>1, <3>1, <3>2 DEF Refilled
  <2>10. CASE Feed
    <3>1. worker = "feed" /\ worker' = "trim" /\ Stopped
      BY <2>1, <2>10 DEF Feed, Refilled
    <3>2. CASE FileInHand /\ Last(text) # Newline
      <4>1. records' = Parsed
        BY <1>4, <2>10, <3>1, <3>2, FeedRests
      <4> QED BY <1>1, <1>4, <2>1, <3>1, <3>2, <4>1 DEF Refilled
    <3>3. CASE NothingInHand
      <4>1. Data = << >> /\ parser = FreshParser(FALSE) /\ records = << >>
        BY <2>6, <3>3 DEF NothingInHand
      <4>2. EndFeed(Data, format.delim, parser) = parser /\ parser.rows = << >>
        BY <4>1 DEF EndFeed, FreshParser
      <4>3. records' = << >>
        BY <2>10, <4>1, <4>2 DEF Feed, Pushed
      <4> QED BY <1>1, <2>1, <3>1, <4>3 DEF Refilled
    <3> QED BY <2>1, <3>1, <3>2, <3>3 DEF Refilled
  <2>11. CASE TrimHeader
    <3>1. UNCHANGED records /\ worker = "trim" /\ worker' = "kill"
      BY <2>1, <2>11 DEF TrimHeader
    <3> QED BY <1>1, <1>4, <2>1, <3>1 DEF Refilled
  <2>12. CASE Kill
    BY <1>1, <1>4, <2>1, <2>12 DEF Kill, Refilled
  <2> QED BY <2>3, <2>4, <2>5, <2>7, <2>8, <2>9, <2>10, <2>11, <2>12 DEF Worker
<1> QED BY <1>5, <1>7, <1>8

LEMMA RereadingMain ==
  ASSUME Known, Typed, Signalled, Single, Reading, Rereading, Running, Main
  PROVE  Rereading'
<1> USE DEF Running, chunk, header
<1> SUFFICES ASSUME NoChunk', main' # "aborted", ~(Len(Parsed') > 1)
             PROVE  /\ main' = "construct" /\ worker' \in {"trim", "kill", "done"} => Rested'
                    /\ main' = "begin" => Rested' /\ records' = << >> /\ delivered' = << >>
                    /\ main' = "begin_join" => Refilled'
                    /\ main' \notin {"construct", "begin", "begin_join"} => records' = << >>
  BY DEF Rereading
<1>1. UNCHANGED <<text, format, mmap_pos, length, parser>> /\ NoChunk
  BY DEF Main, Constructed, Begin, BeginReads, BeginJoined, DropRow, ReadRow, SeesNone,
     SeesWaitable, SeesIdle, SeesEof, SeesMore, Go, Wait, Restart, Destroy, NoChunk
<1>2. Parsed' = Parsed /\ ~(Len(Parsed) > 1) /\ Rested' = Rested
  BY <1>1 DEF Parsed, Rested
<1>3. Parsed \in Seq(Row) /\ Len(Parsed) \in Nat /\ format.header = 0
  BY ParsedRecords, KnownFile
<1>4. /\ main = "construct" /\ worker \in {"trim", "kill", "done"} => Rested
      /\ main = "begin" => Rested /\ records = << >> /\ delivered = << >>
      /\ main = "begin_join" => Refilled
      /\ main \notin {"construct", "begin", "begin_join"} => records = << >>
  BY <1>1, <1>2 DEF Rereading
<1>5. CASE Constructed
  <2>1. Filled /\ worker = "done" /\ main' = "begin" /\ Rested /\ UNCHANGED <<records, delivered>>
    BY <1>1, <1>4, <1>5 DEF Constructed, Join, Reading
  <2>2. records = SubSeq(Parsed, format.header + 2, Len(Parsed)) /\ delivered = << >>
    BY <2>1 DEF Filled
  <2>3. records = << >>
    BY <1>2, <1>3, <2>2, SubSeqEmpty
  <2> QED BY <1>2, <2>1, <2>2, <2>3
<1>6. CASE BeginReads
  BY <1>2, <1>4, <1>6 DEF BeginReads, Refilled
<1>7. CASE BeginJoined
  <2>1. Refilled /\ worker = "done" /\ main' \in {"end", "row"}
    BY <1>4, <1>7 DEF BeginJoined, Join
  <2>2. CASE records = << >>
    BY <1>7, <2>1, <2>2 DEF BeginJoined
  <2>3. CASE records # << >>
    <3>1. records = Parsed /\ records' = Tail(records)
      BY <1>7, <2>1, <2>3 DEF BeginJoined, Deliver, Refilled
    <3>2. Len(Parsed) = 1
      <4>1. \A q \in Seq(Row) : q # << >> => Len(q) > 0
        OBVIOUS
      <4>2. Len(Parsed) > 0
        BY <1>3, <2>3, <3>1, <4>1
      <4>3. \A n \in Nat : n > 0 /\ ~(n > 1) => n = 1
        OBVIOUS
      <4>4. ~(Len(Parsed) > 1)
        BY <1>2
      <4> QED BY <1>3, <4>2, <4>3, <4>4
    <3>3. Tail(Parsed) = << >>
      <4>1. Parsed # << >>
        BY <2>3, <3>1
      <4>2. Tail(Parsed) \in Seq(Row) /\ Len(Tail(Parsed)) = Len(Parsed) - 1
        BY <1>3, <4>1, HeadTailProperties
      <4>3. \A q \in Seq(Row) : Len(q) = 0 => q = << >>
        OBVIOUS
      <4>4. Len(Tail(Parsed)) = 0
        BY <3>2, <4>2
      <4> QED BY <4>2, <4>3, <4>4
    <3> QED BY <2>1, <3>1, <3>3
  <2> QED BY <2>2, <2>3
<1>8. CASE Begin \/ DropRow \/ ReadRow
  BY <1>4, <1>8 DEF Begin, DropRow, ReadRow
<1>9. CASE SeesNone \/ SeesWaitable \/ SeesIdle \/ SeesEof \/ SeesMore \/ Wait \/ Restart \/ Destroy
  BY <1>4, <1>9 DEF SeesNone, SeesWaitable, SeesIdle, SeesEof, SeesMore, Go, Wait, Restart, Destroy
<1> QED BY <1>5, <1>6, <1>7, <1>8, <1>9 DEF Main

LEMMA RereadingNext ==
  Known /\ Typed /\ Signalled /\ Single /\ Reading /\ Rereading /\ [Next]_vars => Rereading'
<1> SUFFICES ASSUME Known, Typed, Signalled, Single, Reading, Rereading, [Next]_vars
             PROVE  Rereading'
  OBVIOUS
<1>1. CASE UNCHANGED vars
  <2>1. UNCHANGED <<text, format, records, mmap_pos, length, parser, worker, main, delivered>>
    BY <1>1 DEF vars, chunk
  <2>2. /\ Parsed' = Parsed /\ NoChunk' = NoChunk /\ Stopped' = Stopped /\ Rested' = Rested
        /\ Running' = Running /\ FileInHand' = FileInHand /\ NothingInHand' = NothingInHand
    BY <2>1 DEF Parsed, NoChunk, Stopped, Data, Rested, Running, FileInHand, NothingInHand
  <2>3. Refilled' = Refilled
    BY <2>1, <2>2 DEF Refilled
  <2> QED BY <2>1, <2>2, <2>3 DEF Rereading
<1>2. CASE ~UNCHANGED vars
  <2>1. Running /\ (Worker \/ Main)
    BY <1>2 DEF Next, Terminating
  <2> QED BY <2>1, RereadingWorker, RereadingMain
<1> QED BY <1>1, <1>2

-----------------------------------------------------------------------------
(* The reader keeps the stream's promise *)

\* The next of the selected elements has its place among all of them.
LEMMA SelectedNext ==
  ASSUME NEW S, NEW s \in Seq(S), NEW P, NEW n \in 0..(Len(s) - 1), n + 1 \in P
  PROVE  /\ Len(Selection(s, P)[n]) < Len(Selected(s, P))
         /\ Selected(s, P)[Len(Selection(s, P)[n]) + 1] = s[n + 1]
<1> DEFINE g == Selection(s, P)
           L == Len(s)
<1>1. /\ g[0] = << >>
      /\ \A i \in 0..(L - 1) : g[i + 1] = IF i + 1 \in P THEN Append(g[i], s[i + 1]) ELSE g[i]
      /\ Selected(s, P) = g[L]
  BY SelectionIs
<1>2. L \in Nat /\ n \in Nat /\ n + 1 <= L /\ \A i \in 0..(L - 1) : s[i + 1] \in S
  OBVIOUS
<1> HIDE DEF g, L
<1> DEFINE J == {m \in Nat : m <= L => g[m] \in Seq(S)}
<1>3. 0 \in J
  <2>1. << >> \in Seq(S)
    OBVIOUS
  <2> QED BY <1>1, <2>1
<1>4. ASSUME NEW m \in Nat, m \in J PROVE m + 1 \in J
  <2> SUFFICES ASSUME m + 1 <= L PROVE g[m + 1] \in Seq(S)
    OBVIOUS
  <2>1. g[m] \in Seq(S) /\ m \in 0..(L - 1)
    BY <1>2, <1>4
  <2>2. CASE m + 1 \in P
    <3>1. g[m + 1] = Append(g[m], s[m + 1]) /\ s[m + 1] \in S
      BY <1>1, <1>2, <2>1, <2>2
    <3> QED BY <2>1, <3>1
  <2>3. CASE m + 1 \notin P
    BY <1>1, <2>1, <2>3
  <2> QED BY <2>2, <2>3
<1>5. Nat \subseteq J
  <2> HIDE DEF J
  <2> QED BY <1>3, <1>4, Induction
<1>6. \A m \in 0..L : g[m] \in Seq(S)
  BY <1>2, <1>5
<1> HIDE DEF J
<1> DEFINE k == Len(g[n])
           v == s[n + 1]
           K == {m \in Nat : n + 1 + m <= L => /\ k < Len(g[n + 1 + m])
                                               /\ g[n + 1 + m][k + 1] = v}
<1>7. k \in Nat /\ v \in S /\ g[n] \in Seq(S) /\ n \in 0..(L - 1)
  BY <1>2, <1>6
<1>8. 0 \in K
  <2>1. g[n + 1] = Append(g[n], v)
    BY <1>1, <1>7
  <2>2. k < Len(g[n + 1]) /\ g[n + 1][k + 1] = v
    BY <1>7, <2>1
  <2>3. n + 1 + 0 = n + 1
    BY <1>2
  <2> QED BY <2>2, <2>3
<1> HIDE DEF k, v
<1>9. ASSUME NEW m \in Nat, m \in K PROVE m + 1 \in K
  <2> SUFFICES ASSUME n + 1 + (m + 1) <= L
               PROVE  k < Len(g[n + 1 + (m + 1)]) /\ g[n + 1 + (m + 1)][k + 1] = v
    OBVIOUS
  <2> DEFINE p == n + 1 + m
  <2>1. p \in 0..(L - 1) /\ p \in 0..L /\ n + 1 + (m + 1) = p + 1 /\ p <= L
    BY <1>2, <1>7
  <2>2. k < Len(g[p]) /\ g[p][k + 1] = v
    BY <1>9, <2>1
  <2>3. g[p] \in Seq(S)
    BY <1>6, <2>1
  <2> HIDE DEF p
  <2>4. CASE p + 1 \in P
    <3>1. g[p + 1] = Append(g[p], s[p + 1]) /\ s[p + 1] \in S
      BY <1>1, <1>2, <2>1, <2>4
    <3>2. \A q \in Seq(S), x \in S : k < Len(q) => k < Len(Append(q, x)) /\ Append(q, x)[k + 1] = q[k + 1]
      BY <1>7
    <3>3. k < Len(g[p + 1]) /\ g[p + 1][k + 1] = v
      BY <2>2, <2>3, <3>1, <3>2
    <3> QED BY <2>1, <3>3
  <2>5. CASE p + 1 \notin P
    BY <1>1, <2>1, <2>2, <2>5
  <2> QED BY <2>4, <2>5
<1>10. Nat \subseteq K
  <2> HIDE DEF K
  <2> QED BY <1>8, <1>9, Induction
<1>11. k < Len(g[L]) /\ g[L][k + 1] = v
  <2>1. L - (n + 1) \in Nat /\ n + 1 + (L - (n + 1)) = L
    BY <1>2
  <2>2. L - (n + 1) \in K
    BY <1>10, <2>1
  <2> QED BY <1>2, <2>1, <2>2
<1> QED BY <1>1, <1>11 DEF g, k, v

\* The loop over the rows has come to its end, or the program has.
Over == main \in {"end", "destroyed", "aborted"}

\* A step that hands out nothing and ends nothing is none of the stream's.
LEMMA StreamStutters ==
  ASSUME UNCHANGED <<text, format, delivered>>, Over' <=> Over
  PROVE  UNCHANGED Stream!vars
<1>1. (main' \in {"end", "destroyed", "aborted"}) = (main \in {"end", "destroyed", "aborted"})
  BY DEF Over
<1> QED BY <1>1, Zenon DEF Stream!vars

LEMMA StreamDelivers ==
  ASSUME UNCHANGED <<text, format>>, ~Over, ~Over',
         Len(delivered) < Len(Stream!Rows),
         delivered' = Append(delivered, Stream!Rows[Len(delivered) + 1])
  PROVE  Stream!Deliver
<1>1. (main' \in {"end", "destroyed", "aborted"}) = (main \in {"end", "destroyed", "aborted"})
  BY DEF Over
<1>2. ~(main \in {"end", "destroyed", "aborted"}) /\ UNCHANGED <<text, format.delim>>
  BY DEF Over
<1> QED BY <1>1, <1>2, Zenon DEF Stream!Deliver

LEMMA StreamFinishes ==
  ASSUME UNCHANGED <<text, format, delivered>>, ~Over, Over', Len(delivered) >= Len(Stream!Rows)
  PROVE  Stream!Finish
<1>1. (main' \in {"end", "destroyed", "aborted"}) = TRUE
  BY DEF Over
<1>2. ~(main \in {"end", "destroyed", "aborted"}) /\ UNCHANGED <<text, format.delim, delivered>>
  BY DEF Over
<1> QED BY <1>1, <1>2, Zenon DEF Stream!Finish

LEMMA StreamRepeats ==
  ASSUME Known, UNCHANGED <<text, format>>, ~Over, ~Over', Stream!Rows = << >>,
         Last(text) # Newline, delivered = << >>, delivered' = Append(delivered, Last(Parsed))
  PROVE  Stream!Again
<1>1. (main' \in {"end", "destroyed", "aborted"}) = (main \in {"end", "destroyed", "aborted"})
  BY DEF Over
<1>2. ~(main \in {"end", "destroyed", "aborted"}) /\ UNCHANGED <<text, format.delim>>
  BY DEF Over
<1>3. Stream!Ragged
  <2>1. text # << >>
    BY KnownFile
  <2> QED BY <2>1, Zenon DEF Stream!Ragged, Stream!Last, Last
<1>4. Stream!Last(Stream!Records(text, format.delim)) = Last(Parsed)
  <2>1. Stream!Records(text, format.delim) = Parsed
    BY StreamRecords, ParsedRecords
  <2> QED BY <2>1, Zenon DEF Stream!Last, Last
<1> QED BY <1>1, <1>2, <1>3, <1>4, Zenon DEF Stream!Again

\* What the proofs about the rows rest on.
Followed == Known /\ Typed /\ Signalled /\ Single /\ Reading /\ Rereading

LEMMA FollowedInit == Init => Followed
BY KnownInit, TypedInit, SignalledInit, SingleInit, ReadingInit, RereadingInit DEF Followed

LEMMA FollowedNext == Followed /\ [Next]_vars => Followed'
BY KnownNext, TypedNext, SignalledNext, SingleNext, ReadingNext, RereadingNext DEF Followed

\* A worker hands out nothing; if it ends the program, nothing was owed.
LEMMA WorkerFollows ==
  ASSUME Followed, NoChunk, Running, Worker
  PROVE  Stream!Finish \/ UNCHANGED Stream!vars
<1>1. Known /\ Typed /\ Single /\ Reading /\ Rereading
  BY DEF Followed
<1>2. CASE Crash
  <2>1. UNCHANGED <<text, format, delivered>> /\ Over' /\ worker = "map" /\ mmap_pos = Len(text)
    BY <1>2 DEF Crash, Over, Unmappable
  <2>2. main \in {"construct", "begin_join"} /\ ~Over
    BY <1>1, <2>1 DEF Single, Running, Over
  <2>3. Len(delivered) >= Len(Stream!Rows)
    <3>1. CASE Len(Parsed) > 1
      <4>1. main = "construct"
        <5>1. format.header + 1 = 1
          BY <1>1, KnownFile
        <5> QED BY <1>1, <2>1, <2>2, <3>1, <5>1 DEF Reading, Handed
      <4>2. mmap_pos = 0
        BY <1>1, <2>1, <4>1 DEF Reading, Filled
      <4>3. text \in Seq(Chars) /\ text # << >>
        BY <1>1, KnownFile
      <4>4. \A q \in Seq(Chars) : Len(q) = 0 => q = << >>
        OBVIOUS
      <4> QED BY <2>1, <4>2, <4>3, <4>4
    <3>2. CASE ~(Len(Parsed) > 1)
      <4>1. Stream!Rows = << >>
        BY <1>1, <3>2, RowsAre
      <4>2. delivered \in Seq(Row)
        BY <1>1 DEF Typed, TypeOK
      <4> QED BY <4>1, <4>2
    <3> QED BY <3>1, <3>2
  <2> QED BY <2>1, <2>2, <2>3, StreamFinishes
<1>3. CASE ~Crash
  <2>1. UNCHANGED <<text, format, delivered, main>>
    BY <1>3 DEF Worker, Announce, Map, ParseOn, ChunkEnds, FileEnds, Feed, TrimHeader, Kill
  <2>2. Over' <=> Over
    BY <2>1 DEF Over
  <2> QED BY <2>1, <2>2, StreamStutters
<1> QED BY <1>2, <1>3

\* The loop is handed the next row it is owed.
LEMMA NextOwed ==
  ASSUME Followed, NoChunk, Running, Len(Parsed) > 1, main \in {"begin", "row"},
         records # << >>, main = "row" => Len(Head(records)) = n_cols
  PROVE  Len(delivered) < Len(Stream!Rows) /\ Head(records) = Stream!Rows[Len(delivered) + 1]
<1>1. Known /\ Typed /\ Reading /\ TypeOK
  BY DEF Followed, Typed
<1>2. format.header + 1 = 1 /\ format.header + 2 = 2 /\ Parsed \in Seq(Row)
  BY <1>1, KnownFile, ParsedRecords
<1>3. Handed
  BY <1>1, <1>2 DEF Reading
<1>4. PICK k \in 1..Len(Parsed) :
        /\ records = SubSeq(Parsed, k + 1, Len(Parsed))
        /\ delivered = Selection(Parsed, Kept)[k]
        /\ main = "begin" <=> k = 1
  BY <1>2, <1>3 DEF Handed
<1>5. k \in Nat /\ k >= 1 /\ k < Len(Parsed)
  <2>1. k \in Nat /\ k >= 1 /\ k <= Len(Parsed) /\ Len(Parsed) \in Nat
    BY <1>2, <1>4
  <2>2. k # Len(Parsed)
    <3> SUFFICES ASSUME k = Len(Parsed) PROVE FALSE
      OBVIOUS
    <3>1. k + 1 \in Int /\ Len(Parsed) \in Int /\ Len(Parsed) < k + 1
      BY <2>1
    <3>2. SubSeq(Parsed, k + 1, Len(Parsed)) = << >>
      BY <3>1, SubSeqEmpty
    <3> QED BY <1>4, <3>2
  <2> QED BY <2>1, <2>2
<1>6. Head(records) = Parsed[k + 1]
  BY <1>1, <1>4, <1>5, NextRow
<1>7. k + 1 \in Kept
  <2>1. k + 1 \in DOMAIN Parsed /\ n_cols = Len(Parsed[1])
    BY <1>2, <1>3, <1>4, <1>5 DEF Handed
  <2>2. CASE k = 1
    BY <1>2, <2>1, <2>2 DEF Kept
  <2>3. CASE k # 1
    <3>1. k + 1 > 2
      BY <1>5, <2>3
    <3>2. Len(Parsed[k + 1]) = Len(Parsed[1])
      BY <1>4, <1>6, <2>1, <2>3
    <3> QED BY <1>2, <2>1, <3>1, <3>2 DEF Kept
  <2> QED BY <2>2, <2>3
<1>8. k \in 0..(Len(Parsed) - 1)
  BY <1>2, <1>4, <1>5
<1>9. /\ Len(delivered) < Len(Selected(Parsed, Kept))
      /\ Selected(Parsed, Kept)[Len(delivered) + 1] = Parsed[k + 1]
  BY <1>2, <1>4, <1>7, <1>8, SelectedNext
<1> QED BY <1>1, <1>6, <1>9, RowsAre

\* The end of the loop finds nothing owed.
LEMMA NoneOwed ==
  ASSUME Followed, NoChunk, Running, main = "idle" \/ (main = "begin_join" /\ records = << >>)
  PROVE  Len(delivered) >= Len(Stream!Rows)
<1>1. Known /\ Typed /\ Reading /\ delivered \in Seq(Row)
  BY DEF Followed, Typed, TypeOK
<1>2. CASE Len(Parsed) > 1
  <2>1. format.header + 1 = 1 /\ Parsed \in Seq(Row)
    BY <1>1, KnownFile, ParsedRecords
  <2>2. Handed /\ main = "idle"
    BY <1>1, <1>2, <2>1 DEF Reading, Handed
  <2>3. delivered = Selection(Parsed, Kept)[Len(Parsed)]
    BY <2>2 DEF Handed
  <2>4. delivered = Stream!Rows
    BY <1>1, <2>1, <2>3, SelectionIs, RowsAre
  <2> QED BY <1>1, <2>4
<1>3. CASE ~(Len(Parsed) > 1)
  <2>1. Stream!Rows = << >>
    BY <1>1, <1>3, RowsAre
  <2> QED BY <1>1, <2>1
<1> QED BY <1>2, <1>3

LEMMA MainFollows ==
  ASSUME Followed, NoChunk, Running, Main
  PROVE  Stream!Next \/ UNCHANGED Stream!vars
<1>1. Known /\ Typed /\ Single /\ Reading /\ Rereading /\ delivered \in Seq(Row)
  BY DEF Followed, Typed, TypeOK
<1>2. UNCHANGED <<text, format>>
  BY DEF Main, Constructed, Begin, BeginReads, BeginJoined, DropRow, ReadRow, SeesNone,
     SeesWaitable, SeesIdle, SeesEof, SeesMore, Go, Wait, Restart, Destroy
<1>3. CASE Begin \/ ReadRow
  <2>1. /\ main \in {"begin", "row"} /\ records # << >> /\ ~Over /\ ~Over'
        /\ main = "row" => Len(Head(records)) = n_cols
        /\ delivered' = Append(delivered, Head(records))
    BY <1>3 DEF Begin, ReadRow, Deliver, Over
  <2>2. Len(Parsed) > 1
    BY <1>1, <2>1 DEF Rereading
  <2>3. Len(delivered) < Len(Stream!Rows) /\ Head(records) = Stream!Rows[Len(delivered) + 1]
    BY <2>1, <2>2, NextOwed
  <2>4. Stream!Deliver
    BY <1>2, <2>1, <2>3, StreamDelivers
  <2> QED BY <2>4 DEF Stream!Next
<1>4. CASE BeginJoined /\ records # << >>
  <2>1. /\ main = "begin_join" /\ worker = "done" /\ ~Over /\ ~Over'
        /\ delivered' = Append(delivered, Head(records))
    BY <1>4 DEF BeginJoined, Join, Deliver, Over
  <2>2. ~(Len(Parsed) > 1)
    <3>1. format.header + 1 = 1
      BY <1>1, KnownFile
    <3> QED BY <1>1, <2>1, <3>1 DEF Reading, Handed
  <2>3. records = Parsed /\ Last(text) # Newline /\ delivered = << >>
    BY <1>1, <1>4, <2>1, <2>2 DEF Rereading, Refilled
  <2>4. Stream!Rows = << >> /\ Parsed \in Seq(Row)
    BY <1>1, <2>2, RowsAre, ParsedRecords
  <2>5. Head(records) = Last(Parsed)
    <3>1. \A q \in Seq(Row) : q # << >> => Len(q) > 0
      OBVIOUS
    <3>2. Len(Parsed) \in Nat /\ Len(Parsed) > 0
      BY <1>4, <2>3, <2>4, <3>1
    <3>3. Len(Parsed) = 1
      <4>1. \A n \in Nat : n > 0 /\ ~(n > 1) => n = 1
        OBVIOUS
      <4> QED BY <2>2, <3>2, <4>1
    <3> QED BY <2>3, <2>4, <3>3 DEF Last
  <2>6. Stream!Again
    BY <1>1, <1>2, <2>1, <2>3, <2>4, <2>5, StreamRepeats
  <2> QED BY <2>6 DEF Stream!Next
<1>5. CASE SeesEof \/ (BeginJoined /\ records = << >>)
  <2>1. /\ main = "idle" \/ (main = "begin_join" /\ records = << >>)
        /\ UNCHANGED delivered /\ ~Over /\ Over'
    BY <1>5 DEF SeesEof, Go, BeginJoined, Over
  <2>2. Len(delivered) >= Len(Stream!Rows)
    BY <2>1, NoneOwed
  <2>3. Stream!Finish
    BY <1>2, <2>1, <2>2, StreamFinishes
  <2> QED BY <2>3 DEF Stream!Next
<1>6. CASE Constructed \/ BeginReads \/ DropRow \/ SeesNone \/ SeesWaitable \/ SeesIdle \/ SeesMore
           \/ Wait \/ Restart \/ Destroy
  <2>1. UNCHANGED delivered /\ (Over' <=> Over)
    BY <1>6 DEF Constructed, BeginReads, DropRow, SeesNone, SeesWaitable, SeesIdle, SeesMore, Go,
       Wait, Restart, Destroy, Over
  <2> QED BY <1>2, <2>1, StreamStutters
<1> QED BY <1>3, <1>4, <1>5, <1>6 DEF Main

\* A file read in one go is handed out as the abstract stream does it: every
\* row that is owed, in order, and the loop ends only when none is.
THEOREM ImplementsStream == Spec => (NoChunk => StreamSpec)
<1>1. Init => Followed /\ Stream!Init
  <2>1. Init => Stream!Init
    <3> SUFFICES ASSUME Init PROVE Stream!Init
      OBVIOUS
    <3>1. text \in Files /\ format.delim \in ToSet(Delims) /\ delivered = << >>
          /\ main = "construct"
      BY TypedInit DEF Init, Typed, TypeOK
    <3>2. (main \in {"end", "destroyed", "aborted"}) = FALSE
      BY <3>1
    <3> QED BY <3>1, <3>2, Zenon DEF Stream!Init, Stream!ToSet, ToSet
  <2> QED BY <2>1, FollowedInit
<1>2. Followed /\ [Next]_vars => Followed'
  BY FollowedNext
<1>3. Followed /\ NoChunk /\ [Next]_vars => NoChunk'
  <2> SUFFICES ASSUME Followed, NoChunk, [Next]_vars PROVE NoChunk'
    OBVIOUS
  <2>1. UNCHANGED text
    BY DEF Next, Worker, Main, Announce, Crash, Map, ParseOn, ChunkEnds, FileEnds, Feed, TrimHeader,
           Kill, Constructed, Begin, BeginReads, BeginJoined, DropRow, ReadRow, SeesNone,
           SeesWaitable, SeesIdle, SeesEof, SeesMore, Go, Wait, Restart, Destroy, Terminating, vars
  <2> QED BY <2>1 DEF NoChunk
<1>4. Followed /\ NoChunk /\ [Next]_vars => [Stream!Next]_(Stream!vars)
  <2> SUFFICES ASSUME Followed, NoChunk, [Next]_vars PROVE Stream!Next \/ UNCHANGED Stream!vars
    OBVIOUS
  <2>1. CASE UNCHANGED vars
    <3>1. UNCHANGED <<text, format, delivered>> /\ (Over' <=> Over)
      BY <2>1 DEF vars, Over
    <3> QED BY <3>1, StreamStutters
  <2>2. CASE ~UNCHANGED vars
    <3>1. Running /\ (Worker \/ Main)
      BY <2>2 DEF Next, Terminating
    <3>2. Stream!Finish => Stream!Next
      BY DEF Stream!Next
    <3> QED BY <3>1, <3>2, WorkerFollows, MainFollows
  <2> QED BY <2>1, <2>2
<1> QED BY <1>1, <1>2, <1>3, <1>4, PTL DEF Spec, StreamSpec, Stream!Spec
=============================================================================
