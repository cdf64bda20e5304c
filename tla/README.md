# Verification of NECO

NECO is a C framework: containers (`core/da.h`, `core/ht.h`), three kinds of
strings (`core/str.c`), allocators (`core/mem.c`), tables (`core/table.c`), child
processes (`core/subprocess.c`), readers of CSV and JSON (`ffs/`) and a small HTTP
server (`web/`, `main.c`). This directory holds TLA+ modules that model it, the
configurations with which TLC checks them, and theorems about them that TLAPS
checks. Paths below are relative to `src/`.

Run TLC with `tlc -config X.cfg MCX` and TLAPS with `tlapm XProofs.tla`.
`PROJECT.json` lists the runs, the theorems, the hazards the properties are for, and
for every definition the lines of code it stands for.

## 1. Inventory

| Component | State | Operations | What is hard about it | What makes it correct |
|---|---|---|---|---|
| Hash table, `core/ht.h`, `core/ht.c` | three parallel arrays, capacity, length | init, set, get, reserve, for | probe chains that wrap; growth moves every key's home; the last free slot | it is a map; probes end |
| Dynamic array, `core/da.h` | items, length, capacity | reserve, append, append_many, pop, remove_at, slice, copy | capacities are rounded to powers of two in an `int` | length never passes capacity |
| String builder, `core/str.c` (`dstr`) | characters, length, capacity | append (character, buffer, string, view, builder, format, file), rewind, conversions | a NUL is kept as the last character counted; files that end early; views with no NUL | what is handed out is the text appended, NUL-terminated |
| Searches, `core/str.c` | a scan's position | first and last place of a character, or of several | bytes up to an aligned address, then words with a bit trick, then bytes | the place found is the first (last), nothing outside the view is read |
| Cutting up, `core/str.c` | what is left of the text, the pieces | split, index, count, capture between brackets, trim, by characters or words | `len` of a pointer is 8; empty pieces; options that interact | the pieces are those between the separators |
| Quoting, numbers, `core/str.c` | none | quote, is_int, is_float | state machines written as nested branches | agreement with a grammar |
| Allocators, `core/mem.c` | a block and a bump pointer; pages of holes | init, alloc, flush, deinit; alloc, free | alignment gaps, the comparison at the end, arenas never initialized | no byte is handed out twice |
| Tables, `core/table.c` | columns of cells, a pointer to the index column | add/remove column, add/remove row, find row | columns grow apart; a pointer into an array that moves | names unique, rows stay together |
| Subprocesses, `core/subprocess.c` | promises (pid, descriptors); in the kernel: processes, descriptors | start, poll, wait, free | two processes after `fork`; results collected once; pids and descriptors that are used again | a job's result, files and pid are its own |
| HTTP server, `web/http1.1server.c`, `main.c` | listening socket, the connection served, a kill switch | start, receive, respond, shut down | clients that stop half-way, segments, aborts, SIGPIPE, resets | each connection is served once and closed, with its own answer |
| HTTP messages, `web/http1.1.c` | a parsed message | parse of request and status lines, fields, targets | header lines are cut eight characters on; four forms of a target tried in turn; no return at the end | what is accepted is what was written |
| CSV reader, `ffs/csv.c` | tokens, row and column counters | tokenize, headers, next, string/integral/float | empty fields at ends of lines, quotes, two locals that are read before they are set | what was written is read back, in its place |
| JSON reader, `ffs/json.c` | tokens and their types | parse a value, an object, an array (recursively) | a token list shared by all the calls in progress; `\u` | tokens nest; documents are read back |
| URIs, `web/uri.c` | the URI written into | parse of URIs, references and their parts; decoding | optional parts, fallbacks between forms, what a failed attempt leaves behind | the parts put together are the text |
| Templater, `web/templater.c` | whether it is in code or in text | template | the piece before the first mark and the one behind the last are written outside the loop | pieces and marks are the file |
| Console, `core/cio.c` | the builder of a line; what stdin still holds | read a line, a number, an option; log, panic | attempts that read part of a line and are repeated; the end of input; numbers cut to 32 bits | a call returns what the first line with an answer says |
| Paths and files, `core/fio.c` | none | join, split, common path, read, write | slashes at the seams, "./", the longest common path | the parts of what is joined are the parts of both |
| Macros, `core/helpers.h` | none | `try`, `defer`, `len` | early returns that skip code | modelled where they are used |
| Examples and data | none | - | - | not modelled: they hold no logic of their own |

How they interact. Builders, tables, token lists and commands are all dynamic
arrays. `cstr_char_index` and `vstr_char_index` are called by everything that cuts
text: splitting, the readers, the parser of messages, URIs. `http_parse` keeps
header fields in a hash table that it creates with as many slots as there are fields.
For each
connection the server allocates a buffer, calls `http_parse` on what one `recv` put
there, and gives a request to `handle_client` of `main.c`, which calls one of the
`server_response_*`. `subprocess_run` writes its
input to a temporary file, forks, and waits. Nothing in the repository has threads:
what runs concurrently are child processes, clients and the kernel, and whoever sets
the server's kill switch.

## 2. Modules

| Module | Models | State and actions |
|---|---|---|
| `Capacity` | `da_reserve` da.h:39, `__ht_reserve` ht.h:72 | `RoundUp(n)`: the capacities a container grows through |
| `Dict` | what a hash table promises | `dict`; a call is made (`Ask`) and takes effect in one step (`Set`, `Get`) |
| `HashTable` | `core/ht.h` | one step per slot looked at and per entry moved; implements `Dict` |
| `Builder` | what a string builder promises | a text: `Add`, `Make`, `Rewind`, `Keep`, `Take` |
| `Dstr` | the `dstr` functions of `core/str.c` | the array with its stale contents, one action per operation; implements `Builder` |
| `CharScan` | the four word-at-a-time searches, str.c:325-439 | one step per byte or word looked at, in the phases of the loops |
| `ZeroByte` | `ONES`, `HIGHS`, `HASZERO`, str.c:326-328 | the bit test on words of `Bytes` bytes of `Bits` bits |
| `Strings` | splitting, indexing, capturing, trimming by characters | one step per piece found |
| `Arena` | `core/mem.c` | addresses and blocks; the scratch arena, and pages with their allocations; a panic is a state |
| `Rows` | what a table promises | a header and rows |
| `Table` | `core/table.c` | columns and the index as a place among them; undefined behaviour is a state; implements `Rows` |
| `Subprocess` | `core/subprocess.c` with fork, dup2, exec, wait and mkstemp | the parent's call in progress, each child up to and after `exec`, descriptor tables, the process table |
| `HttpServer` | `web/http1.1server.c`, `handle_client` of `main.c` | the server's place in its loop; each client's connection and message; the backlog; the kill switch |
| `Words` | searches for words, index, split, count and capture by words, `cstr_quote` of `core/str.c` | operators on texts; loops are recursive functions |
| `Numbers` | `vstr_is_int`, `vstr_is_float` | the format after each character |
| `Paths` | the path functions of `core/fio.c` | operators |
| `Templater` | `template` | the pieces it writes |
| `Uri` | `web/uri.c` | each parser maps a text, and the URI so far, to whether it is accepted and the URI then |
| `HttpParse` | `web/http1.1.c` | `HttpParse(raw)`: refused, or the message |
| `Cio` | `core/cio.c` | what is left of stdin, the call in progress; one step per attempt |
| `CsvReader` | `ffs/csv.c` | one step per character class the tokenizer takes, then one per call of the reader |
| `Json`, `JsonTexts` | `ffs/json.c`, and the files it is given | one step per call or loop turn, with a stack of the calls in progress |
| `Formats` | the two readers of `ffs/` side by side | `CsvReader` and an instance of `Json`; they share nothing |
| `StrLoops` | what works on texts, side by side: both kinds of loops of `core/str.c`, the console, and numbers, paths and templates | `Strings` with `Numbers`, `Paths` and `Templater`, and instances of `CharScan` and of `Cio`; they share no state |

`MC*` modules give the constants finite values; `*Proofs` modules hold the theorems.
`HashTable` and `Dstr` share `Capacity`. `MCStrings` composes `StrLoops` with `ZeroByte`:
the search runs on characters and the property `StopsWhereItIs` says that the bit test
on the word at that address answers what the search goes by. `Words` is what everything that cuts text stands on: `Strings`, `Paths`,
`Templater`, `Uri` and `Cio` extend it, `HttpParse` extends `Uri`, and `HttpServer` has
an instance of `HttpParse` that it gives what `recv` has received. `StrLoops` states the
properties of numbers, paths and templates, of the `text` and `call` that are asked in
`Strings`; `MCStrings` adds those of words, URIs and messages, and gives each kind of call
inputs of its own. `MCFormats` runs `Formats`, `MCCio` the console alone, with fairness.
What the loops of `Words` return is stated of whole texts; that `CharIndex` is right of
views is what `CharScan` shows, and that the field lines of a message are kept as a map
what `HashTable` shows.

What the data is reduced to. Characters are a few model values or short strings, one
for each class the code tells apart; in messages a method and the "HTTP/" of a version
are one character each, and a pointer has the size of 4 or 8 characters. Uppercase
letters are left out where the code folds case. Addresses are small numbers and a
kilobyte is four bytes. A child's command ends with any code, by a signal, or `execvp`
fails. An `int` of the console and of a table's row numbers has two bits: `Half`, as many
as half its values, is 2. A `long` has four (`Long` is 8): `scanf`, `atol` give the nearest
there is to a number that is wider, and what is cut to an `int` is cut from that.

### Careful programs and others

Several components are right only for callers that keep to a protocol no comment
states. Each such module has one variable that is chosen at the start and never
changes. Both kinds of program are explored in the same run; what holds of any
program is said of any, and the rest of the careful ones.

- `careful` in `HashTable`: `ht_reserve` is called on empty and on full tables only.
  (It moves the first `length` old slots, in use or not: growing a table that is
  half full loses entries and makes up zero keys. Everyone in the repository calls
  it through `ht_set`, on full tables.)
- `careful` in `Subprocess`: one result per job, not asked for once
  `process_finished` has said TRUE; `free_process_promise` only for jobs that
  `process_finished` reported, and not for those that were given one of the standard
  streams; the descriptors it passes are its own open files, none for two jobs, and none
  of the standard streams as input.
- `proper` in `Dstr`: builders are made from C strings and from views that end in a
  NUL, files can be read, no C string is taken of an empty builder and none that is empty
  or was rewound is appended to another (-1 characters would be copied: undefined).
- `nuls` in `Dstr` is no protocol: whether the program appends texts that may have a NUL in
  them, a character 0, a buffer, or the view of a builder, whose last character is one.
  Both kinds are proper; of those that do, the text is what was appended, NULs included,
  and a C string shows it as far as the first.
- `careful` in `Table`: columns are added and rows given at the table's height; while an
  index is set no column is added, and neither the index column is removed nor, if the
  index is the last, another; no row is asked for whose number is negative; and nothing
  else is called whose behaviour is undefined.
- `zeroed` in `CsvReader`: the two locals `index` and `cur_col`, which
  `csv_tokenize` reads before anything sets them, happen to be 0. Otherwise they are
  any ints (`Garbage`): with a negative `index` it reads in front of the contents, which is
  undefined.

## 3. Runs

| Run | Question | Bounds, and why they are enough |
|---|---|---|
| `hash_table` | Do collisions, wrap-around and growth ever show? Do calls return? | 4 keys, first capacities 0 and 3: growth through 1, 2, 4, 8 and away from a capacity that is no power of two; hash functions that collide, wrap, and share a slot only in the smaller of two tables |
| `builder` | Is a builder the text it was given, and does no append lose text? | texts up to 3 with the closing NUL: capacities 1, 2 and 4 are grown through, 1 and 2 filled to the last place; pieces that are, begin with or end in a NUL, through views too; empty builders appended; files that fail or end at any point |
| `builder_of_view` | Is every non-empty builder a C string? (No: finding 1) | the same |
| `arenas` | Is a byte ever handed out twice? What do pages hold? | blocks of 4 bytes, requests that leave an alignment gap, fill the block and pass its end; arenas with arbitrary contents |
| `arena_space` | Does the scratch arena panic when it is out of space? (No: finding 2) | the same |
| `tables` | Are names unique, rows whole, the row found the right one? | 3 names; for careful programs rows up to 3 of integers and of strings, a column in the middle, first and last removed while another is the index, and rows removed while one that was got is elsewhere; for others columns of one cell or none, in any mixture; keys that are found, that are no row, negative (-1), and cut to a row number (5 is 1 as an int of 2 bits) |
| `jobs` | Do two overlapping jobs ever mix up results, pids, descriptors? | 2 jobs, 2 pids (so that one is used again), descriptors 0 to 5: the standard streams, a file of the program's and one temporary file per job |
| `serving` | Is each connection served once, closed, and answered for its own message? | 2 clients and a backlog of 1: one waits while the other is served, and connects when it is closed; six messages that are answered 200 or 404, 404, 426, or not at all, in one or two segments, cut in a field and behind the header |
| `formats` | Are CSV files read back as they were written, and never past the tokens? Do JSON's tokens nest, and are documents read back? | CSV: every text of up to 7 characters over comma, newline, quote and a letter, and every way of writing tables of one cell or 2 by 2 of cells that are empty or hold a comma, a newline or quotes, or of one cell that is a number, begins with one or looks like one (longs of 4 bits, so that two digits are too wide); each cell asked for as a string, an integer and a float; the two locals -1, 0 or 1. JSON: every text of up to 4 characters inside brackets of each kind, every string of up to 3 inside quotes, numbers of up to 4; documents two levels deep with up to two members |
| `csv_float` | Is what `csv_float` takes a number? (No: finding 3) | the tables of `formats` |
| `strings` | Are the four searches exact, at every address? Do the functions on texts agree with their definitions? | searches: words of 3 bytes, views of 0 to 9 bytes at each alignment (every part of each loop is empty, partial and repeated), bytes of 2 bits, so that borrows cross bytes with and without their high bit; a pointer of 4 characters, shorter than the texts as 8 is than most strings and longer than a line break; cutting up: every text up to 6 over two brackets, a space and a letter; words: every text up to 9 over two letters with words of 1 to 4, which overlap themselves and start falsely; captures up to 7; quoting up to 6; numbers: every sign, whole part, fraction and exponent of up to two digits, and every text of up to 4; paths up to 3, 3 and 2; the console: every input of up to 5 keys (see below); URIs: every text up to 5 over the delimiters, and every combination of parts; messages of up to 3 fields out of 7, with bodies that hold a blank line themselves |
| `console` | Does a question return, if an answer to it was typed? (What it returns is asked in `strings`, of the same inputs and calls.) | every input of up to 5 keys of which two are blanks, one a sign and one a digit; ints of 2 bits and longs of 4, so that "11" is too wide for either and "-1" wraps; options 1 and 2 |

`TypeOK` is checked of `Dstr`, where it is more than types; in `HashTable`, `Table`,
`Strings` and `CharScan` it is proved and no run spends time on it, and in `CsvReader`
and `Arena` it documents the state. The other modules say with their `Init` and comments
what each variable holds.

What the properties say is written in front of each in its module. The ones worth
reading first: `ImplementsDict`, `ProbeReachable` (HashTable); `OwnResult`,
`PidsMatch`, `FilesKept` (Subprocess); `RightResponse`, `HeadersAnswered`
(HttpServer); `ImplementsBuilder` (Dstr); `ImplementsRows` (Table); `CsvReadsBack`
(CsvReader); `TokensNest` (Json); `FindsIt` (CharScan); `AnswersWhatWasTyped` (Cio);
`NumbersRead`, `PathsJoin` (StrLoops); `WordsAsAsked`, `UriReadBack`, `MessageReadBack`
(MCStrings).

Several of these say exactly where the code does not do what it is for: a property such
as `NumbersRead` or `UriReadBack` holds because the cases the code gets wrong are named
in it, each of which section 5 lists, and everything else is claimed without exception.

Runs with `CHECK_DEADLOCK FALSE` are those whose program may stop: a panic, a trap,
undefined behaviour, the end of a search or a file, a server that was shut down, no more
jobs.

### Fairness

- `HashTable`: `WF(Step)`. A call of a macro runs on until it returns; nothing obliges
  a program to make one.
- `Subprocess`: `WF(Proceed)` for the parent's running call and `WF(Child(p))` for
  each child: the scheduler runs every process, and a command ends. Without the second
  `waitpid` has no end, which is what the code accepts.
- `HttpServer`: `WF(Serve)` for the server's thread; `SF(Accept)`, because `accept` may
  fail between times and the loop calls it again; for each client
  `WF(Send(c) \/ Shut(c))`: it sends what it has or closes its side. The code relies on
  that: `recv` has no time limit, and without this assumption one silent client keeps
  the rest waiting. Clients need not connect, and may abort at any time.
- `Cio`: `WF(Step)`. A call that was made goes on; nothing obliges a program to make
  another. At the end of the input a call that insists on an answer asks for ever: the
  property `CallReturns` is about input that has an answer in it.
- The other modules state no liveness.

## 4. Proofs

Every theorem holds for all values of the constants that satisfy the module's named
assumptions, which TLC evaluates on each run.

Several rest on what a function computes that recurs over the places of a text, or over
a list. The library's induction theorems take an operator and cannot be instantiated
here; `WFMin` takes a set and can. That a recursive definition is met by some function, and
then what is said of it at every place, is proved by looking at the place nearest to where
the recursion ends among those where it would fail: there is none (`LoopExists`,
`LoopGives`, `RunExists`).

**HashTableProofs** (assumptions: the zero item is an item, capacities fit an `int`,
there are finitely many keys and fewer than the largest capacity). The inductive
invariant `IInv` is `TypeOK`, `ProbeReachable`, and four facts it needs: no key is
stored twice (`UniqueKeys`: or an overwrite would leave a stale item that growth may
bring to the front), `length` is the number of slots in use (`LengthIsCount`: why
`ht_set` leaves a free slot), while growing the entries still to be moved are distinct
and absent from the new table, which has room for all (`GrowthInv`), and while probing
the slots passed are in use by other keys. From it: `TypeCorrect`, `KeysAreFound`,
`GrowsInTime`, all of careful programs, and `Refinement`, that the table implements
`Dict`, where moving an entry is a stutter and placing one is the abstract step.
`RoundUpBounds` says that a rounded capacity holds what was asked for and fits an `int`.

**DstrProofs** (assumptions: the NUL is none of the characters). `TypeCorrect` holds of
every program, with failing files and views without a NUL. `HoldsCstr` and
`Refinement` (that it implements `Builder`) rest on `IInv`, of proper programs: the last
character counted is a NUL, of the builder, of the latest view of it and of the latest C
string, and there is no other if none is appended. `Refinement` has the work in showing
that the characters in front of the closing NUL (`AllIsBody`) are after an append the old
text and the new, whatever lay behind the NUL and whatever NULs either has of its own, and
that a C string handed out shows that text as far as its first NUL (`ReadToFirstNul`).
`AppendKeeps` needs none of it and holds of every program: no append, not one of a file
that is cut short, changes a character in front of it.

**StrLoopsProofs** (assumptions: the texts are made of the characters, the spaces are
characters, offsets are naturals, a word has at least one byte, a pointer at least two;
the paths asked for are made of the characters; of the console, `WellPosed`: the line
break is a space and digits, signs and the NUL are none, options are counted, an `int`
has values).
*Searches*: the inductive invariant of `SearchesFind` says that nothing passed so far has
a wanted byte, and that where the backward search goes over to words the byte it stands
on has been looked at; a search then ends with the first (last) wanted byte, or -1 if
there is none. `ReadsInside` adds the address to it: a word is read where the address is
a multiple of its size and as many bytes are left, because the byte loops in front end at
exactly such an address and the word loops go on by whole words. *Cutting up*: `CutInv`
says that the pieces so far are exactly the pieces of the definition that begin before
what is left of the text (the n-th piece is the one with n - 1 kept ones in front of it,
which is what makes an order or a piece left out show), that what is left begins behind a
separator or nowhere, and, of a capture, that `balance` is the depth of what was passed
and that this never was 0 before. From it `TypeCorrect`, `CutsAreAsAsked` and
`CapturesAreBalanced`. That the bit test of a word is exact is checked by
`StopsWhereItIs`.
*The console.* `AnswersAreTyped`: whatever was typed and in whatever order questions are
asked, a call returns what the first line with an answer says. `ConsoleInv` says of a call
that goes on that what is left of stdin begins where a line of `typed` does, that no line in
front of it has an answer, and that nothing is gathered; or that the end was reached. Of one that has returned it says where its line
ends. The work is in the two readings of a line: `scanf` passes over blank lines as it
passes over spaces, so that one attempt takes several lines of which all but the last have
no answer, and `AnswersOn`, which looks at a line by itself, has to agree with what `Scan`
takes and with how the rest of the line is dropped.
*Templates.* `TemplatesAreCopied`: the pieces lie between the places `SplitByChar` and
`Indices` give, and are code where their number is even. *Paths.* `PathsAreJoined`: what
two arguments of `path_join_many` make is one of four cases, by a slash at the end of the
first and one, or "./", at the start of the second; that the parts of a text with a slash
at the seam are those of both sides (`SplitConcat`) covers each. The parts of a path have
no slash and are not empty, so that joined with slashes they are split into themselves
again (`PartsReadBack`), which is what shows that a common path has all the parts shared.
That the call asks one of the inputs (`Asked`) is the invariant behind it. *Numbers.*
`NumbersAreRead`: of each character of a number `Trace` has the format `vstr_is_float`
takes it for. A hexadecimal one is in "hexPre", "hexMeso" and "hexPost" in that order; a
decimal one stays "undefined" until a 0 is behind another digit (`Taken`), and only a
format that is no longer undefined lets the sign of an exponent pass, which is where the
exception in the property comes from.

**FormatsProofs** (assumptions: comma, newline and quote differ from each other and from
the rest, none of them nor a space is in a number, a newline is a space; what was
written is written as `IsWritten` says: rows of one width, each ending in a newline,
each cell in quotes or free of marks, but a cell that is empty and the first of all or
alone in its row always in quotes, because the code takes it for nothing otherwise).
*CSV.* `EveryRowHasItsTokens`: the tokens counted are `line * col + cur_col` (`Counted`),
so that a file that is not refused has a token for each cell of its rows.
`csv_row_has_entries` and the calls after it need this and nothing checks it.
`TokensAreParts`, of any file and whatever ints the two uninitialized locals hold, negative
ones too (with a negative `index` the first step is undefined and no token is made): tokens
lie in the file, in order, none over another (`Placed`). The case that has the work is the
empty field at the start of a line, whose token is put in front of the newline:
`Reached` says that the token before it ended there.
`ReadsBackWhatWasWritten`, of tables of any size with any choice of cells in quotes: the
tokenizer (`Stands`) is at the first character of a cell, or at the separator behind a
cell, whose token it has already unless the cell is empty and first of its row, when the
comma is what shows it, or at the end of the file; the n-th token is of the n-th cell
(`Lexed`), where in a token of a cell in quotes each quote is doubled (`Inside`). That
the closing quote found is the cell's, and not half of a pair inside it, goes by the
parity of the quotes up to each place; that `csv_string` takes the doubling back, by
counting the places it keeps. While reading, `token_index` is the row times the width
plus the column. `BackInv` is the conjunction. Both theorems that speak of cells need the
two locals to be 0.
What the program reads is asked of all three calls. A string is the cell. An integer is
the number of the cell, the nearest a `long` has to it; what `csv_integral` refuses is
exactly what is no sign and digits, and an empty cell or a sign alone is 0. A float is
harder, because `csv_float` goes by `vstr_is_float`, which takes most texts that are no
numbers, and `atof` then stores the number they begin with, or 0.0. `Atof` is that: the
longest beginning, behind spaces, that is a number. The theorem says that a cell that is a
number is never stored as another, for which it has to be its own longest beginning
(`NumberIsRead`: its first character is no space, and all of it is one); that a cell that is
none is taken exactly if `vstr_is_float` takes it, and is stored as what `Atof` finds in
it. That only numbers are taken would be false: finding 3.
Of cells that hold quotes nothing is claimed as numbers, because the numbers are read with
each quote still doubled.
*JSON.* `TokensOfAValue`: the tokens of any document that is not refused nest. What
a list has open after each of its tokens (`IsRun`) depends on what it had before and on
that token only. The inductive invariant is that this is at every moment what the stack of calls in progress expects: an object's call in its own
loop expects a name, and a value while it has called for one; an array's, one of the type
of its elements so far. So a call that returns with a bracket closed has closed its own,
although all calls append to one list.

**TableProofs** (assumptions: values are integers with 0 among them and junk is not one
of them, an `int` has values, headers and rows are sequences). Of any program as long as
nothing undefined has happened: `TypeCorrect`; `OneColumnToAName`. Of careful programs
`IInv` is `TypeOK`, `UniqueNames`, `AsOne` (columns of one height that hold only what was
given) and `CarefulIsDefined`; from it `CarefulIsSafe`, of keys of either sign, found or cut
to a row number, and `Refinement`: the columns are a header and rows (`Rows`), and each call
adds or removes one column or one row, or changes none. `FindsByKey`: a row that was got by
a key is where it was said to be, with the key in the column that was made the index, for as
long as it is not itself removed or moved, through the calls that move other rows and
columns into gaps. `KInv` adds to `IInv` that the pointer `index` leads to the column of
the name it was set to (`IndexIsNamed`), though columns are moved under it, and that the
place of the row got is a number of a row; with it, a removed row's last cells, which are
moved in every column alike, are shown to leave the row got alone.

**HttpServerProofs** (assumptions: `Nobody` is no client, there is room in the backlog
for one). `NoConnectionIsLost`: `CInv` says beside the property that no connection waits
twice and that the server has one of its own exactly in the part of its loop between
`accept` and `close` (`Held`), which is what makes a way out of the body that forgets to
close it show. `StopsInTime`: after a late connection the switch is thrown and the
server is not about to accept (`LInv`), because it looks at the switch in between. The
parser and the messages are arbitrary in both. `AnswersItsOwnMessage` (assumptions beside
these: the places where segments end do not decrease and the last is the message's end)
is about the parser too. `AInv` says what the server has in hand: nothing, or what
`HttpParse` makes of the first `received` segments of the message of the client it
serves, of which that many were sent; and that each response is one that `handle_client`
gives for such a beginning. What `HttpParse` accepts is then followed back to the text:
it has a blank line in what was received, and its first line is a request line whose
target, version and method are parts of that text; the version is what decides on 426, and
a target that decodes to "/" is one that `TakenForRoot` names, because each of the four
forms a target is tried in keeps its first character or has a mark that is not decoded.
A buffer ends at the first NUL, so that more segments do not take a header away.

**SubprocessProofs** (assumptions: pids are positive, 0 and 1 are exit codes and all are
of 0 to 255, a process has the three standard descriptors and one more). Of careful
programs, for any number of jobs and any interleaving with their children:
`PromisesLeadToChildren` (a promise leads to the job's own child until that is
collected, though pids are given again) and `ResultsAreOwn`. `CInv` adds to these two
that a job in the middle of being started has no promise and nothing has been said of
it, that one that is waited for is not known to be over (so that `waitpid` never fails,
and `status` is never read uninitialized), and that what is left of a child tells how it
ended (`Ready`). `InputsAreKept` adds that no descriptor is kept for two jobs (`Kept`),
those that have a promise and the one being started, so that closing one job's leaves
the others' alone, and that `mkstemp`'s lowest free descriptor is nobody's. Of any
program: `StreamsAsAsked`, by what holds before and after each `dup2` (`Staged`).

**ArenaProofs** (assumptions: sizes, alignments and the block's address are naturals,
alignments not 0). `NoByteTwice`: everything a scratch arena has handed out lies before
its pointer, and `ptr_align` never takes that back, for any sizes and alignments and
whatever the arena held at the start. `NothingIsAllocated`: the pages of the other
allocator stay empty, because a page without allocations has no hole before one.

Left to TLC. Liveness under fairness is out of the prover's reach: `CallsReturn`,
`WaitReturns`, `EveryoneIsClosed`, `HeadersAnswered` and `CallReturns` of `Cio`. So is
`StopsWhereItIs`, which is arithmetic on bits. Only model-checked so far:
`JsonReadsBack` (`TokensOfAValue` proves that tokens nest, not what is in them), and three
properties of `MCStrings` that are about the inputs given there: `WordsAsAsked`,
`UriReadBack` and `MessageReadBack`. Of the functions behind these, `HttpServerProofs`
proves of every text what searches and splits give (`CharIndex`, `WordIndex`,
`SplitByWord`), that decoding gives "/" of few texts only, and what a request that is
accepted was written as, which is one half of `MessageReadBack`.

## 5. Findings

1. `builder_of_view`: `vstr_to_dstr` (core/str.c:69) copies a view's characters and
   nothing behind them, so that a builder that is not empty has no NUL; README.md:8
   says ".items of non-empty StringBuilder is a cstr". Appending to it overwrites its
   last character.
2. `arena_space`: `scratch_arena_alloc_bytes` (core/mem.c:64) compares the wrong way
   round: it panics with "Arena ran out of space." when the request fits in the block
   and returns memory when it passes the end.
3. `csv_float`: `csv_float` (ffs/csv.c:76) ends the program with "Unknown floating point
   format" for what `vstr_is_float` refuses, which is little: a cell "-" is stored as 0.0
   and "1e" as 1.0.

Met while modelling, each in the model as the code has it:

- `arena_alloc_bytes` looks for holes before existing allocations only, so that no
  first allocation is ever made: each call adds a page and returns NULL
  (`EveryCallAddsAPage`).
- `subprocess_run_async` reuses one `mkstemp` template for up to three files: the
  second call has no XXXXXX left to replace and fails, so that a job whose output is to
  be captured, which needs two, is never started. The result of a killed job leaves its
  input open.
- `process_getresult` after `process_finished` has said TRUE finds no child and
  answers from an uninitialized `status`.
- `dstr_append_file` counts a file that ends early in full: `length` then takes in
  characters nobody wrote; after a read error an empty builder has length 1 and no NUL
  (core/str.c:170). `dstr_to_cstr` of an empty builder has no NUL (core/str.c:83).
  `dstr_append_dstr` of a builder that is empty or was rewound copies -1 characters
  (core/str.c:157). What is appended of a view of a builder has its NUL in the middle of
  the text from then on, where a C string of it ends.
- CSV (ffs/csv.c). An empty cell without quotes that is the first of the file or alone in
  its row is counted as nothing, so that its line is a cell short and the file refused, or
  all its other lines are. What the locals
  `index` and `cur_col` hold at the start is left to chance; not 0, the first
  characters are skipped, or memory in front of the contents is read, or the rows counted
  are not the file's. A cell that is empty or a sign is the integer 0. Numbers are read
  with quotes still doubled, headers too.
- `ht_get` of an absent key in a full table never returns, and of any key in a table
  of capacity 0 divides by zero.
- Tables. `table_add_row` loops until a length that never changes is 0. A key that is not
  found is taken for a row number, cut to an `int`; a negative one passes the comparison
  with the height, and `table_remove_row` writes, `table_get_row` points, in front of the
  cells (core/table.c:170, 191).
- `main.c` serves a version 2.0 request, though the text of its 426 answer
  (web/http1.1server.c:111) says that only HTTP/1.1 is.
- `json_valid_string` never ends on `\u`, because its loop counts `i` and tests `j`;
  `json_next` never moves `token_index`; names with a colon, brackets in strings that do not
  balance, and numbers with digits in a fraction or an exponent are refused; text after
  the last member with no colon in it, and trailing commas, are accepted; strings are
  trimmed.
- Words (`core/str.c`). The search in a view passes over the word's whole length behind
  a character that only begins like it, and misses a match there; the one from the end
  goes round for ever, or reads behind the text, where the last first character is not
  the word, and in a view answers 0 for any match. `split_by_word` goes on eight
  characters from each word. `split_by_words` ends only where the word is absent or is
  eight characters long and at the start of what is left. `cstr_quote` of a text that
  has a space or a quote loses the end, or reads behind it.
- Numbers. `vstr_is_float` refuses a decimal number with a signed exponent, unless a 0
  is behind another digit in it; it accepts "abc", and "1e" (core/str.c:1148 has 'c' for
  'e'). `vstr_is_int` accepts a sign alone and the empty text.
- Paths. Joining to an empty first argument makes an absolute path; what two absolute
  paths have in common has lost its slash; nothing in common is a text with no NUL.
- URIs. The first two characters of a userinfo are not looked at; a '?' in a fragment
  with no query in front is refused, as are the path "/" alone, "a://" and a bracketed
  host with ':' and with it every IPv6 address; octets from 100 to 199 are refused and
  "25" may be followed by many a character; too few groups are accepted; decoding keeps
  the second digit of an escape only and drops the character behind it;
  `uri_parse_uri_reference` leaves the scheme of a failed first attempt in the URI, and
  what it returns for a relative one is what happens to be in a register.
- Messages. A field line has lost its first six characters; one character on a line of
  its own in front of the blank line, or at the start of the body where the message has
  no fields, makes the search miss or mistake the end of the header; "host:80" is taken
  for a URI. The samples `web/examples/*.http`, whose lines end in LF, are refused.
- Server. A NUL that a client sends ends the message. A target that is empty is answered
  200 or 404 as its unterminated decoding has it, and "/%x0" or "/%xA", whatever x and
  what comes behind, are served as "/".
- Console. A blank line is accepted as not empty, because the builder's NUL counts as no
  space; what is behind the last line break is lost at the end of input; "4294967297"
  chooses option 1, and as an answer to `cread_int` a number too wide for a `long` is
  -1, or 0 if it is negative; an empty line is passed over by `scanf` with no message.

## 6. Not modelled

- The receive buffer behind what was received is taken for zeros: the block has 100 MB,
  which glibc maps afresh for each connection. Another `malloc`, or a smaller buffer,
  would have old bytes parsed with the new ones.
- What `http_parse`, which ends without a return, leaves in its result register is TRUE
  in the run (`ParseResults`); the theorems hold for any.
- `cread_long`, `_longhex`, `_hex` and `_float` are the macro of `cread_int` with other
  formats of `scanf`. `log_write`, `print_escaped` and the files of the templater are
  output. Files and directories of `core/fio.c` are the C library's.
- `http_parse` and `uri_parse` of a null message or URI; in the repository only
  `uri_parse_absolute` and `uri_parse_query` are called so, and write nothing then.
- `malloc` and `realloc` are taken to succeed. Printing, logging and the output of
  `table_print` and `cmd_render` are left out.
- `cmd_append` and `cmd_free`, `da_pop`, `da_slice`, `da_copy` and `da_append_many` are
  not modelled yet.
- The hash functions of `core/ht.c` are any functions; the equality functions are
  equality.

## 7. Plan

Done, in this order, because what is built on them is most of the program: containers
(`HashTable`, `Dstr`), what runs concurrently (`Subprocess`, `HttpServer`), memory,
tables, the searches, cutting up by characters, the two readers; then the functions on
words, numbers, paths and templates, URIs, messages, the composition of the server with
the parser, the console; then the proofs, of each component's invariants and refinements,
the server's answers, the reading of CSV, the nesting of JSON's tokens, the loops of
the strings, the answers of the console, templates, paths and numbers.

Left:

1. `da_pop`, `da_slice`, `da_copy`, `da_append_many` and `cmd_append` as an array
   component of its own.
2. Proofs: `JsonReadsBack` (the tokens so far are those of a beginning of the document);
   `WordsAsAsked`, `UriReadBack` and the other half of `MessageReadBack`, which first go
   from `MCStrings` into a module of their own.
