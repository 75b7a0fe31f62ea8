----------------------------- MODULE ConfigFile -----------------------------
(***************************************************************************)
(* POS.cfg and what is printed from it: ParseFromFile reads lines of the   *)
(* form key=value, appendToIfFound puts the values that were found at the  *)
(* head of a bill or a report.                                             *)
(* Code: src/src/Config.cpp and appendToIfFound in src/src/main.cpp.       *)
(***************************************************************************)
EXTENDS Integers, Sequences, FiniteSets, FiniteSetsExt, TLC

CONSTANTS
    Keys,           \* what stands before an equals sign
    HeadingKeys,    \* the keys a heading asks for, in the order it prints them
    Values,         \* what stands behind an equals sign and is not blank
    Blank,          \* nothing, or only spaces, behind it
    NoKey,          \* the key of a line without an equals sign
    EmptyLine,
    Missing         \* the content of a file that is not there

ASSUME ConfigAssumption ==
    /\ HeadingKeys \in Seq(Keys) /\ NoKey \notin Keys
    /\ Blank \notin Values

\* A line of the file; its key ends at the first equals sign.
FileLines == [key : Keys \cup {NoKey}, value : Values \cup {Blank}] \cup {EmptyLine}

NoData == [k \in {} |-> Blank]

\* dat[key] = value
Put(dat, key, value) == [k \in DOMAIN dat \cup {key} |-> IF k = key THEN value ELSE dat[k]]

\* Mutant: a blank value is taken, too.
AddBlank(dat, line) == IF line.key # NoKey THEN Put(dat, line.key, line.value) ELSE dat

\* What a line adds to the data: a later value of a key replaces an earlier one,
\* a blank one does not.
Add(dat, line) ==
    IF line.key # NoKey /\ line.value # Blank THEN Put(dat, line.key, line.value) ELSE dat

\* The loop: it ends for good at an empty line.
Read(state, line) ==
    IF state.ended \/ line = EmptyLine
    THEN [state EXCEPT !.ended = TRUE]
    ELSE [state EXCEPT !.dat = Add(state.dat, line)]

\* A file that cannot be opened is an error that all callers ignore.
ParseFromFile(file) ==
    LET after[n \in 0..Len(file)] ==
            IF n = 0 THEN [dat |-> NoData, ended |-> FALSE] ELSE Read(after[n - 1], file[n])
    IN  IF file = Missing THEN NoData ELSE after[Len(file)].dat

appendToIfFound(buffer, dat, key) ==
    IF key \in DOMAIN dat THEN Append(buffer, dat[key]) ELSE buffer

\* What is printed above a bill: one key after another.
Heading(dat) ==
    LET buff[n \in 0..Len(HeadingKeys)] ==
            IF n = 0 THEN <<>> ELSE appendToIfFound(buff[n - 1], dat, HeadingKeys[n])
    IN  buff[Len(HeadingKeys)]

-----------------------------------------------------------------------------
(* What a heading should be, without reading line by line. *)

\* The lines above the first empty one that give a value to k.
LinesOf(file, k) ==
    {i \in DOMAIN file : /\ \A j \in 1..i : file[j] # EmptyLine
                         /\ file[i].key = k /\ file[i].value # Blank}

\* The places among the heading's keys whose keys are given a value.
Given(file) == {i \in DOMAIN HeadingKeys : LinesOf(file, HeadingKeys[i]) # {}}

\* The n-th of some places.
Nth(places, n) == CHOOSE i \in places : Cardinality(places \cap (1..i)) = n

HeadingOf(file) ==
    IF file = Missing THEN <<>>
    ELSE [n \in 1..Cardinality(Given(file)) |->
             file[Max(LinesOf(file, HeadingKeys[Nth(Given(file), n)]))].value]
=============================================================================
