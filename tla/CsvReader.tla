------------------------------ MODULE CsvReader ------------------------------
(***************************************************************************)
(* The CSV reader of ffs/csv.c: it cuts the whole file into tokens first,  *)
(* and the program then takes them one by one, row by row, the position    *)
(* among the tokens and the row and column being counted separately.       *)
(*                                                                         *)
(* A file is a sequence of commas, newlines, quotes and other characters.  *)
(* A number with a fraction or an exponent stands as its text.             *)
(***************************************************************************)
EXTENDS Integers, Sequences, FiniteSets, FiniteSetsExt

N == INSTANCE Numbers

CONSTANTS
  Comma, Newline, Quote,
  OtherChars,        \* the other characters, NUL not among them
  SpaceChars,        \* what isspace takes
  Long,              \* as many as half the values of a long: 2^63
  Files,             \* [text, cells, breaks]: a file, the cells it was written from, or <<>>,
                     \* and where they end
  Garbage            \* what "index" and "cur_col", ints that nothing sets, may start as

ASSUME ConstantsAssumption ==
  /\ Cardinality({Comma, Newline, Quote}) = 3
  /\ {Comma, Newline, Quote} \cap OtherChars = {}
  /\ Newline \in SpaceChars /\ (SpaceChars \cup {Comma, Quote}) \cap N!NumberCharacters = {}
  /\ Long \in Nat \ {0}
  /\ \A file \in Files : file.text \in Seq({Comma, Newline, Quote} \cup OtherChars)
  /\ Garbage \subseteq Int /\ 0 \in Garbage

VARIABLES
  file,
  zeroed,   \* whether both started as 0
  index, line, col, cur_col, tokens,     \* the locals of csv_tokenize
  headers, row_index, column_index, token_index,   \* of the Csv
  got,                                   \* the last cell asked for, as what, where it was
                                         \* said to be, whether it was taken and the value
  state
lexing == <<index, line, col, cur_col, tokens>>
reading == <<headers, row_index, column_index, token_index>>
vars == <<file, zeroed, lexing, reading, got, state>>

NoHeaders == <<>>
Nothing == [read |-> FALSE]
Size == Len(file.text)
Char(n) == file.text[n + 1]
Text(token) == SubSeq(file.text, token.at + 1, token.at + token.length)

rows == line
columns == col

TypeOK ==
  /\ zeroed \in BOOLEAN
  /\ {index, col, cur_col} \subseteq Int /\ line \in Nat
  /\ \A n \in 1..Len(tokens) : {tokens[n].at, tokens[n].length} \subseteq Nat
  /\ headers \in Seq(Seq({Comma, Newline, Quote} \cup OtherChars))
  /\ {row_index, column_index, token_index} \subseteq Nat
  /\ state \in {"tokenizing", "ready", "read", "failed", "undefined"}

Init ==
  /\ file \in Files
  /\ index \in Garbage /\ cur_col \in Garbage
  /\ zeroed = (index = 0 /\ cur_col = 0)
  /\ line = 0 /\ col = 1 /\ tokens = <<>>
  /\ headers = NoHeaders /\ row_index = 0 /\ column_index = 0 /\ token_index = 0
  /\ got = Nothing
  /\ state = "tokenizing"

-----------------------------------------------------------------------------
(* csv_tokenize, one turn of its loop at a time.                           *)

At(chars) == state = "tokenizing" /\ 0 <= index /\ index < Size /\ Char(index) \in chars
Fails == state' = "failed" /\ UNCHANGED lexing
Takes(token, size) ==
  /\ tokens' = Append(tokens, token)
  /\ index' = index + size
  /\ cur_col' = cur_col + 1
  /\ UNCHANGED <<line, col, state>>

EmptyField(n) == [at |-> n, length |-> 0]

\* The empty fields a comma shows: one before it at the start of a line, one after it
\* when another comma, or the end of the line, comes next.
EmptyFields ==
  (IF index > 0 /\ Char(index - 1) = Newline THEN <<EmptyField(index - 1)>> ELSE <<>>)
  \o (IF index + 1 < Size /\ Char(index + 1) \in {Comma, Newline}
      THEN <<EmptyField(index)>> ELSE <<>>)

TakeComma ==
  /\ At({Comma})
  /\ tokens' = tokens \o EmptyFields
  /\ cur_col' = cur_col + Len(EmptyFields)
  /\ index' = index + 1
  /\ UNCHANGED <<line, col, state>>

\* Mutant: the lines are not compared.
TakeNewlineUnchecked ==
  /\ At({Newline})
  /\ col' = IF line = 0 THEN cur_col ELSE col
  /\ cur_col' = 0 /\ line' = line + 1 /\ index' = index + 1
  /\ UNCHANGED <<tokens, state>>

\* The first line says how many columns there are; the others must agree.
TakeNewline ==
  /\ At({Newline})
  /\ \/ line > 0 /\ col # cur_col /\ Fails
     \/ /\ line = 0 \/ col = cur_col
        /\ col' = cur_col
        /\ cur_col' = 0 /\ line' = line + 1 /\ index' = index + 1
        /\ UNCHANGED <<tokens, state>>

\* The quotes that do not stand, doubled, for one: what is before them has them in
\* pairs.  The first ends the field.
Closing(start) ==
  {n \in start + 1..Size - 1 :
     /\ Char(n) = Quote
     /\ Cardinality({m \in start + 1..n - 1 : Char(m) = Quote}) % 2 = 0
     /\ n + 1 < Size => Char(n + 1) # Quote}

\* csv_token_quoted_field: a quote that is the last of the file opens an empty field.
TakeQuoted ==
  /\ At({Quote})
  /\ \/ index + 1 = Size /\ Takes(EmptyField(index + 1), 2)
     \/ index + 1 < Size /\ Closing(index) = {} /\ Fails
     \/ /\ Closing(index) # {}
        /\ LET last == Min(Closing(index))
           IN  \/ /\ last + 1 < Size /\ Char(last + 1) \notin {Comma, Newline}
                  /\ Fails
               \/ /\ last + 1 < Size => Char(last + 1) \in {Comma, Newline}
                  /\ Takes([at |-> index + 1, length |-> last - index - 1], last - index + 1)

\* csv_token_field: up to a comma, the end of the line or that of the file.
TakeField ==
  /\ At(OtherChars)
  /\ LET last == Min({Size} \cup
                     {n \in index + 1..Size - 1 : Char(n) \in {Comma, Newline, Quote}})
     IN  \/ last < Size /\ Char(last) = Quote /\ Fails
         \/ /\ last < Size => Char(last) # Quote
            /\ Takes([at |-> index, length |-> last - index], last - index)

\* In front of the contents is memory that is none of the file's.
BeforeContents ==
  /\ state = "tokenizing" /\ index < 0
  /\ state' = "undefined" /\ UNCHANGED lexing

Tokenized ==
  /\ state = "tokenizing" /\ index >= Size
  /\ state' = "ready" /\ UNCHANGED lexing

Tokenize ==
  /\ TakeComma \/ TakeNewline \/ TakeQuoted \/ TakeField \/ BeforeContents \/ Tokenized
  /\ UNCHANGED <<file, zeroed, reading, got>>

-----------------------------------------------------------------------------
(* The program's calls: the headers if it wants them, then each row to its *)
(* end.                                                                    *)

Ready == state = "ready"
RowHasEntries == token_index < columns * (row_index + 1)
HasRows == row_index < rows

\* csv_parse_headers reads a line whether the file has one or not.
ParseHeaders ==
  /\ Ready /\ row_index = 0 /\ token_index = 0 /\ headers = NoHeaders
  /\ \/ /\ columns > Len(tokens)
        /\ state' = "undefined" /\ UNCHANGED <<reading, got>>
     \/ /\ columns <= Len(tokens)
        /\ headers' = [n \in 1..columns |-> Text(tokens[n])]
        /\ token_index' = IF columns > 0 THEN columns ELSE 0
        /\ row_index' = 1 /\ column_index' = 0
        /\ got' = Nothing /\ UNCHANGED state
  /\ UNCHANGED <<file, zeroed, lexing>>

Verbatim(text) == text      \* mutant

\* csv_string: of each pair of quotes, the second.
Unescaped(text) ==
  LET kept == {n \in 1..Len(text) : Cardinality({m \in 1..n : text[m] = Quote}) % 2 = 0}
      nth(k) == CHOOSE n \in kept : Cardinality({m \in kept : m <= n}) = k
  IN  [k \in 1..Cardinality(kept) |-> text[nth(k)]]

\* atol, external, of what vstr_is_int takes: the nearest a long can hold.
Atol(text) ==
  IF N!Signed(text) \in -Long..Long - 1 THEN N!Signed(text)
  ELSE IF N!Signed(text) < 0 THEN -Long ELSE Long - 1

\* atof, external: the number that is there behind spaces, as far as it goes, and 0.0,
\* which <<>> stands for, if there is none.
Atof(text) ==
  LET blanks == Max({n \in 0..Len(text) : \A m \in 1..n : text[m] \in SpaceChars})
      rest == SubSeq(text, blanks + 1, Len(text))
  IN  SubSeq(rest, 1, Max({0} \cup {n \in 1..Len(rest) : N!IsReal(SubSeq(rest, 1, n))}))

NextColumn == column_index' = column_index + 1 /\ token_index' = token_index + 1

Asked(kind, taken, value) ==
  [read |-> TRUE, kind |-> kind, row |-> row_index, column |-> column_index,
   taken |-> taken, value |-> value]
Reads(kind, value) ==
  /\ got' = Asked(kind, TRUE, value)
  /\ NextColumn /\ UNCHANGED <<headers, row_index, state>>
Refuses(kind) ==
  /\ got' = Asked(kind, FALSE, <<>>)
  /\ state' = "failed" /\ UNCHANGED reading

\* A read behind the last token is of memory that is none of the tokens'.
PastTokens == token_index >= Len(tokens) /\ state' = "undefined" /\ UNCHANGED <<reading, got>>

ReadString ==
  /\ Ready /\ HasRows /\ RowHasEntries
  /\ \/ PastTokens
     \/ /\ token_index < Len(tokens)
        /\ Reads("string", Unescaped(Text(tokens[token_index + 1])))
  /\ UNCHANGED <<file, zeroed, lexing>>

ReadIntegral ==
  /\ Ready /\ HasRows /\ RowHasEntries
  /\ \/ PastTokens
     \/ /\ token_index < Len(tokens)
        /\ LET text == Text(tokens[token_index + 1])
           IN  \/ N!IsInt(text) /\ Reads("integral", Atol(text))
               \/ ~N!IsInt(text) /\ Refuses("integral")
  /\ UNCHANGED <<file, zeroed, lexing>>

\* vstr_is_float takes much that is no number.
ReadFloat ==
  /\ Ready /\ HasRows /\ RowHasEntries
  /\ \/ PastTokens
     \/ /\ token_index < Len(tokens)
        /\ LET text == Text(tokens[token_index + 1])
           IN  \/ N!IsFloat(text) /\ Reads("float", Atof(text))
               \/ ~N!IsFloat(text) /\ Refuses("float")
  /\ UNCHANGED <<file, zeroed, lexing>>

NextRow ==
  /\ Ready /\ HasRows /\ ~RowHasEntries
  /\ row_index' = row_index + 1 /\ column_index' = 0
  /\ got' = Nothing
  /\ UNCHANGED <<file, zeroed, lexing, headers, token_index, state>>

End ==
  /\ Ready /\ ~HasRows
  /\ state' = "read"
  /\ UNCHANGED <<file, zeroed, lexing, reading, got>>

Next == Tokenize \/ ParseHeaders \/ ReadString \/ ReadIntegral \/ ReadFloat \/ NextRow \/ End

Spec == Init /\ [][Next]_vars

-----------------------------------------------------------------------------
(* How a table is written: its cells, row by row, a comma behind each and  *)
(* a newline behind the last of a row.                                     *)

\* In quotes, where each quote stands doubled: the place of the n-th character.
Doubled(cell, n) == n + Cardinality({m \in 1..n : cell[m] = Quote})
IsQuoted(s, cell) ==
  LET last == Doubled(cell, Len(cell)) + 2
  IN  /\ Len(s) = last /\ s[1] = Quote /\ s[last] = Quote
      /\ \A n \in 1..Len(cell) : s[Doubled(cell, n) + 1] = cell[n]
                                /\ (cell[n] = Quote => s[Doubled(cell, n)] = Quote)

\* As it is, if it has none of the marks.
IsBare(s, cell) == s = cell /\ \A n \in 1..Len(cell) : cell[n] \notin {Comma, Newline, Quote}

\* A cell begins behind the separator of the one before it.
Begins(f, r, c) ==
  IF c > 1 THEN f.breaks[r][c - 1] + 1
  ELSE IF r > 1 THEN f.breaks[r - 1][Len(f.breaks[r - 1])] + 1 ELSE 0
WrittenCell(f, r, c) == SubSeq(f.text, Begins(f, r, c) + 1, f.breaks[r][c])

\* Any cell may be in quotes.  One that has marks must be, and so must an empty one that
\* is the first of the file or alone in its row: the reader takes these for nothing.
IsWritten(f) ==
  LET height == Len(f.cells)  width == Len(f.cells[1])
  IN  /\ width > 0
      /\ f.cells \in Seq(Seq(Seq({Comma, Newline, Quote} \cup OtherChars)))
      /\ f.breaks \in Seq(Seq(Nat))
      /\ Len(f.breaks) = height /\ f.breaks[height][width] = Len(f.text) - 1
      /\ \A r \in 1..height :
           /\ Len(f.cells[r]) = width /\ Len(f.breaks[r]) = width
           /\ \A c \in 1..width :
                /\ f.breaks[r][c] \in Begins(f, r, c)..Len(f.text) - 1
                /\ f.text[f.breaks[r][c] + 1] = IF c = width THEN Newline ELSE Comma
                /\ \/ IsQuoted(WrittenCell(f, r, c), f.cells[r][c])
                   \/ /\ IsBare(WrittenCell(f, r, c), f.cells[r][c])
                      /\ f.cells[r][c] = <<>> => width > 1 /\ <<r, c>> # <<1, 1>>

ASSUME WritingAssumption == \A f \in Files : f.cells # <<>> => IsWritten(f)

-----------------------------------------------------------------------------
\* A program that asks csv_has_rows and csv_row_has_entries never reads past the last
\* token: a file that is not refused has all the tokens of each of its rows.  (That
\* and what follows needs the two locals that nothing sets to be 0.)
TokensForEveryRow ==
  zeroed /\ state = "ready" => rows * columns <= Len(tokens)

TokensInOrder ==
  /\ \A n \in 1..Len(tokens) : tokens[n].at + tokens[n].length <= Size
  /\ \A n \in 1..Len(tokens) - 1 : tokens[n].at + tokens[n].length <= tokens[n + 1].at

Plain(cell) == \A n \in 1..Len(cell) : cell[n] # Quote

\* A string is the cell.  An integer is the number of the cell, as near as a long can
\* come; a cell that is empty or a sign is taken too, as 0.
IntegralWritten(cell) ==
  /\ got.taken <=> N!IsInt(cell)
  /\ got.taken => got.value = Atol(cell)
  /\ got.taken /\ N!Signed(cell) \in -Long..Long - 1 => got.value = N!Signed(cell)

\* A number is never taken as another.  Of a cell that is none and is taken all the same
\* only what atof finds in it is known.
FloatWritten(cell) ==
  /\ got.taken <=> N!IsFloat(cell)
  /\ got.taken => got.value = IF N!IsReal(cell) THEN cell ELSE Atof(cell)

ValueWritten ==
  LET cell == file.cells[got.row + 1][got.column + 1]
  IN  got.read =>
        /\ got.kind = "string" => got.value = cell
        /\ got.kind = "integral" /\ Plain(cell) => IntegralWritten(cell)
        /\ got.kind = "float" /\ Plain(cell) => FloatWritten(cell)

\* What csv_float takes of a written table is a number or empty: what is not is an
\* "Unknown floating point format" (ffs/csv.c:77).
FloatsAreNumbers ==
  zeroed /\ file.cells # <<>> /\ got.read /\ got.kind = "float" /\ got.taken =>
    LET cell == file.cells[got.row + 1][got.column + 1]
    IN  cell = <<>> \/ N!IsReal(cell)

HeadersWritten ==
  headers # NoHeaders =>
    /\ Len(headers) = Len(file.cells[1])
    /\ \A n \in 1..Len(headers) : Plain(file.cells[1][n]) => headers[n] = file.cells[1][n]

NothingPassedOver ==
  /\ state = "failed" => index >= Size
  /\ state = "read" => rows = Len(file.cells) /\ token_index = Len(tokens)

\* The tokens of any file are parts of it in its order, none overlapping another.  Of one
\* that was written from cells the value read is the one written in the row and column the
\* reader says it is at, as a number too if the cell has no quotes; so are the headers
\* (those with quotes in them are left as they are in the file); csv_tokenize never refuses
\* it, and no row and no cell of it is passed over: when the rows are over so are the tokens.
CsvReadsBack ==
  /\ TokensInOrder
  /\ zeroed /\ file.cells # <<>> => ValueWritten /\ HeadersWritten /\ NothingPassedOver

=============================================================================
