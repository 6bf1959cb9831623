------------------------------- MODULE Config -------------------------------
(***************************************************************************)
(* The configuration file (app/ngx_c_conf.cpp, _include/ngx_c_conf.h).     *)
(* A line is a sequence of tokens: the characters the parser looks for,    *)
(* "=", ";", " ", "#", "[", and words.  As in the code a position starts   *)
(* at 0, and -1 (npos as an int) says that a character is not there.       *)
(***************************************************************************)
EXTENDS Integers, Sequences, SequencesExt

CONSTANT Number     \* the words that are numbers, and their values

Separator == {"=", ";", " ", "#", "["}

ASSUME ConfigAssumption ==
    \A word \in DOMAIN Number : word \in STRING \ Separator /\ Number[word] \in Int

find(line, c) == SelectInSeq(line, LAMBDA t : t = c) - 1

\* A negative length is a very large one as a size_t: everything to the end.
substr(line, pos, len) ==
    SubSeq(line, pos + 1,
           IF len < 0 \/ pos + len > Len(line) THEN Len(line) ELSE pos + len)

\* The lines that Load passes over; a tab or an empty line is like a space.
Skipped(line) == line = <<>> \/ Head(line) \in {" ", "#", ";", "["}

ItemName(line) ==
    LET posb == find(line, "=")
        posc == find(line, " ") IN
    IF posc = -1 \/ posc > posb THEN substr(line, 0, posb) ELSE substr(line, 0, posc)

WithoutSpaces(s) ==
    LET n == SelectInSeq(s, LAMBDA t : t # " ") IN
    IF n = 0 THEN <<>> ELSE SubSeq(s, n, Len(s))

\* Mutant: the semicolon is kept.
IterContent_Semicolon(line) ==
    WithoutSpaces(substr(line, find(line, "=") + 1, find(line, ";") - find(line, "=")))

IterContent(line) ==
    LET posa == find(line, ";")
        posb == find(line, "=") IN
    WithoutSpaces(substr(line, posb + 1, posa - posb - 1))

Item(line) == [ItemName |-> ItemName(line), IterContent |-> IterContent(line)]

\* The position of the first item of that name; 0 if there is none.
Lookup(items, name) == SelectInSeq(items, LAMBDA it : it.ItemName = <<name>>)

\* The text of an item; <<>> stands for nullptr too.
GetString(items, name) ==
    LET it == Lookup(items, name) IN
    IF it = 0 THEN <<>> ELSE items[it].IterContent

\* The number that an item begins with, or what becomes of an unknown item
\* and of one that stoi cannot read.
GetNum(items, name) ==
    LET content == GetString(items, name) IN
    IF Lookup(items, name) = 0 THEN "unknown"
    ELSE IF content # <<>> /\ Head(content) \in DOMAIN Number THEN Head(content)
    ELSE "throws"

-----------------------------------------------------------------------------
(* What the head of nginx.conf says of a line: "以;结尾 首行第一个字符开始写正是内容". *)

\* name = value; with any number of spaces, and a comment after it; the name
\* is a word.
Spaces(n) == [i \in 1..n |-> " "]
Documented(line, name, value) ==
    /\ name \notin Separator
    /\ \E k, j \in 0..Len(line) :
            IsPrefix(<<name>> \o Spaces(k) \o <<"=">> \o Spaces(j) \o <<value, ";">>, line)
=============================================================================
