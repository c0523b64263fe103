------------------------------- MODULE Texts -------------------------------
(***************************************************************************)
(* The algorithms of src/hub.c on strings: hexstr2ul() for chunk sizes,    *)
(* parse_header(), parse_url(), and the two ends of an entry of the        *)
(* database: the lines install() takes from a page of the server's list    *)
(* and writes, and what uninstall() reads back in blocks.                  *)
(*                                                                         *)
(* Each is an operator on a sequence of characters, and is compared with   *)
(* what it is for on every text up to a length.  A text is typed one       *)
(* character after the other; URLs are put together from their parts.      *)
(***************************************************************************)
EXTENDS Integers, FiniteSets, SequencesExt, TLC

CONSTANTS
  MaxLength,   \* length of the longest text, by kind
  BlockSize,   \* MAX_PATH_SIZE, the size of a block read by uninstall()
  LongRange    \* an unsigned long counts modulo this, 2^32

CR == "\r"
LF == "\n"
Space == " "

\* The characters that the algorithms tell apart, by kind of text
Alphabet == [hex    |-> {"0", "9", "a", "F", "x"},
             header |-> {"t", "v", ":", Space},
             list   |-> {"p", "q", CR, LF}]

Kinds == DOMAIN Alphabet

ASSUME TextsAssumption ==
  /\ MaxLength \in [Kinds -> Nat]
  /\ BlockSize \in Nat \ {0} /\ LongRange \in Nat \ {0}

-----------------------------------------------------------------------------
(* Numbers: hexstr2ul()                                                    *)

Digit == [c \in {"0", "9", "a", "F"} |->
            CASE c = "0" -> 0 [] c = "9" -> 9 [] c = "a" -> 10 [] c = "F" -> 15]

\* Mutant: a character that is no digit counts as 0.
AddDigit_Any(result, c) ==
  (result * 16 + (IF c \in DOMAIN Digit THEN Digit[c] ELSE 0)) % LongRange

AddDigit(result, c) ==
  IF c \in DOMAIN Digit THEN (result * 16 + Digit[c]) % LongRange ELSE result

hexstr2ul(str) == FoldLeft(AddDigit, 0, str)

-----------------------------------------------------------------------------
(* Parts of strings: strcspn(), strtok(), trim(), get_str_until()          *)

Index(s, ends) ==
  LET i == SelectInSeq(s, LAMBDA c : c \in ends) IN IF i = 0 THEN Len(s) + 1 ELSE i

get_str_until(s, ends) == SubSeq(s, 1, Index(s, ends) - 1)

\* What begins at the character found, and what begins after it; there is
\* nothing defined after the end of the string.
Undefined == <<"?">>
At(s, ends) == SubSeq(s, Index(s, ends), Len(s))
After(s, ends) == IF At(s, ends) = <<>> THEN Undefined ELSE Tail(At(s, ends))

\* Mutant: only the beginning is trimmed.
trim_Left(s) ==
  LET first == SelectInSeq(s, LAMBDA c : c # Space)
  IN  IF first = 0 THEN <<>> ELSE SubSeq(s, first, Len(s))

trim(s) ==
  LET first == SelectInSeq(s, LAMBDA c : c # Space)
      last  == SelectLastInSeq(s, LAMBDA c : c # Space)
  IN  IF first = 0 THEN <<>> ELSE SubSeq(s, first, last)

\* parse_header(): strtok() passes over colons at the beginning, and finds no
\* second token if nothing follows the next one, in which case value remains
\* that of the line before.
parse_header(header, value) ==
  LET first == SelectInSeq(header, LAMBDA c : c # ":")
      s     == IF first = 0 THEN <<>> ELSE SubSeq(header, first, Len(header))
      rest  == IF At(s, {":"}) = <<>> THEN <<>> ELSE After(s, {":"})
  IN  [title |-> trim(get_str_until(s, {":"})),
       value |-> IF rest = <<>> THEN value ELSE trim(rest)]

-----------------------------------------------------------------------------
(* URLs: parse_url()                                                       *)

Http == "http://"

\* atoi() of what stands for a number here
atoi(s) == IF s # <<>> /\ s[1] = "81" THEN 81 ELSE 0

\* The part after user and password
Server(s) ==
  LET rest == At(s, {":", "/", "?"})
      port == rest # <<>> /\ rest[1] = ":"
  IN  [hostname |-> get_str_until(s, {":", "/", "?"}),
       port     |-> IF port THEN atoi(get_str_until(Tail(rest), {"/", "?"})) ELSE 80,
       path     |-> IF port THEN At(Tail(rest), {"/", "?"}) ELSE rest]

\* Mutant: the password ends at a colon too.
Credentials_Colon(s) ==
  [username |-> get_str_until(s, {":"}),
   password |-> get_str_until(After(s, {":"}), {":", "@"}),
   rest     |-> After(After(s, {":"}), {":", "@"})]

\* User and password, if there is an "@" anywhere in the URL
Credentials(s) ==
  IF ~Contains(s, "@") THEN [username |-> <<>>, password |-> <<>>, rest |-> s]
  ELSE [username |-> get_str_until(s, {":"}),
        password |-> get_str_until(After(s, {":"}), {"@"}),
        rest     |-> After(After(s, {":"}), {"@"})]

\* An URL of the scheme http, or a path; hub dies of any other.
parse_url(url) ==
  IF url[1] = Http
  THEN LET c == Credentials(Tail(url))
       IN  [username |-> c.username, password |-> c.password] @@ Server(c.rest)
  ELSE [username |-> <<>>, password |-> <<>>, hostname |-> <<>>, port |-> 80, path |-> url]

-----------------------------------------------------------------------------
(* Entries: the list of files in install(), the entry in uninstall()       *)

\* The loop with strchr(): each LF ends a line, and the end of the text another.
AddToLine(lines, c) ==
  IF c = LF THEN Append(lines, <<>>) ELSE [lines EXCEPT ![Len(lines)] = Append(@, c)]

\* The lines that are not empty
Lines(s) == SelectSeq(FoldLeft(AddToLine, << <<>> >>, s), LAMBDA l : l # <<>>)

WithoutCR(line) == SelectSeq(line, LAMBDA c : c # CR)

\* Each line, from which '\r' is removed after it has been found not to be empty
FilesOfPage(page) ==
  LET lines == Lines(page) IN [i \in DOMAIN lines |-> WithoutCR(lines[i])]

\* What install() writes into the entry
EntryOf(files) == FlattenSeq([i \in DOMAIN files |-> files[i] \o <<CR, LF>>])

\* One character of a block in uninstall(): r.current_file is what has been
\* read of a line, r.deleted the names given to delete_file().
ReadChar(r, c) ==
  IF c = LF THEN [current_file |-> <<>>, deleted |-> Append(r.deleted, r.current_file)]
  ELSE IF c = CR THEN r
  ELSE [r EXCEPT !.current_file = Append(@, c)]

\* Mutant: each block begins a new line.
ReadBlock_Anew(r, block) == FoldLeft(ReadChar, [r EXCEPT !.current_file = <<>>], block)

ReadBlock(r, block) == FoldLeft(ReadChar, r, block)

\* The blocks read() gives; the last one is short, or there is none, if the
\* length is a multiple of the size of a block.
Blocks(entry) ==
  [k \in 1..Len(entry) \div BlockSize + 1 |->
     SubSeq(entry, (k - 1) * BlockSize + 1,
            IF k * BlockSize <= Len(entry) THEN k * BlockSize ELSE Len(entry))]

ReadEntry(entry) ==
  FoldLeft(ReadBlock, [current_file |-> <<>>, deleted |-> <<>>], Blocks(entry)).deleted

-----------------------------------------------------------------------------
(* Texts                                                                   *)

VARIABLES kind, text

\* The parts that URLs are made of
Users == {<<>>, <<"u">>}
Hosts == {<<"h">>, <<"h", ".", "n">>}
Ports == {80, 81}
Paths == {<<"/">>, <<"/", "p">>, <<"?", "p">>, <<"/", "p", "/", "@">>, <<"/", ":", "p">>,
          <<"/", "p", "?", "/", ":">>}
Passwords == {<<"w">>, <<"w", "/">>, <<"w", ":", "w">>}
Urls ==
  [username : {<<"u">>}, password : Passwords, hostname : Hosts, port : Ports, path : Paths]
  \cup [username : {<<>>}, password : {<<>>}, hostname : Hosts, port : Ports,
        path : {p \in Paths : ~Contains(p, "@")}]

\* How an URL is written, with the port 80 or without
Written(u) ==
  {<<Http>> \o (IF u.username = <<>> THEN <<>> ELSE u.username \o <<":">> \o u.password \o <<"@">>)
     \o u.hostname \o port \o u.path :
   port \in IF u.port = 80 THEN {<<>>} ELSE {<<":", "81">>}}

Init ==
  \/ kind \in Kinds /\ text = <<>>
  \/ kind = "url" /\ text \in UNION {Written(u) : u \in Urls}

Type ==
  /\ kind \in Kinds /\ Len(text) < MaxLength[kind]
  /\ \E c \in Alphabet[kind] : text' = Append(text, c)
  /\ UNCHANGED kind

Spec == Init /\ [][Type]_<<kind, text>>

-----------------------------------------------------------------------------
(* Properties                                                              *)

\* hexstr2ul() gives the number whose hexadecimal digits a text has, whatever
\* else it contains, as far as an unsigned long can hold it.
HexValue ==
  kind = "hex" =>
    LET digits == SelectSeq(text, LAMBDA c : c # "x")
        value  == [i \in DOMAIN digits |-> Digit[digits[i]] * 16 ^ (Len(digits) - i)]
    IN  hexstr2ul(text) = FoldLeft(+, 0, value) % LongRange

\* t is s without the spaces at its ends.
Bare(s, t) ==
  /\ t # <<>> => Head(t) # Space /\ Last(t) # Space
  /\ \E i, j \in 0..Len(s) : /\ t = SubSeq(s, i + 1, j)
                             /\ \A k \in 1..i \cup j + 1..Len(s) : s[k] = Space

Blank(s) == \A i \in DOMAIN s : s[i] = Space

\* parse_header() splits a line at its first colon, into a title and a value
\* that may contain more of them, and takes the spaces off both.  A line with
\* nothing after the colon has the value of the line before.  (Of a title of
\* spaces alone trim() would look at what is in memory before it.)
HeaderSplit ==
  kind = "header" =>
    \A i \in DOMAIN text :
      LET title == SubSeq(text, 1, i - 1)
          value == SubSeq(text, i + 1, Len(text))
          h     == parse_header(text, <<"old">>)
      IN  (\A j \in 1..i : text[j] = ":" <=> j = i) /\ ~Blank(title) =>
            /\ Bare(title, h.title)
            /\ IF value = <<>> THEN h.value = <<"old">> ELSE Bare(value, h.value)

\* parse_url() finds the parts an URL was put together from, if an "@" in the
\* path comes with a user and a password.
UrlParts ==
  kind = "url" => \A u \in Urls : text \in Written(u) => parse_url(text) = u

\* The files of the server's list are those uninstall() deletes, by their names
\* there and in that order, wherever the blocks end in which the entry is read:
\* for names that fit in a block.  (A line of CRs alone is a file without a
\* name to install().)
FilesComeBack ==
  kind = "list" /\ (\A f \in ToSet(FilesOfPage(text)) : Len(f) \in 1..BlockSize - 1) =>
    LET page   == WithoutCR(text)
        begins == {i \in DOMAIN page : page[i] # LF /\ (i = 1 \/ page[i - 1] = LF)}
        name(i) == get_str_until(SubSeq(page, i, Len(page)), {LF})
        back   == ReadEntry(EntryOf(FilesOfPage(text)))
    IN  /\ Len(back) = Cardinality(begins)
        /\ \A i \in begins : back[Cardinality({j \in begins : j <= i})] = name(i)
=============================================================================
