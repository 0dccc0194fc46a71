------------------------------- MODULE Config -------------------------------
(***************************************************************************)
(* The configuration reader: ini_parse_file (src/src/utils/ini.cc) reads   *)
(* the file line by line and calls INIReader::ValueHandler, which gathers  *)
(* the values that Get returns (src/src/utils/INIReader.cpp).              *)
(*                                                                         *)
(* A line is [kind, indent, name, value, text], as rstrip, lskip and       *)
(* find_char_or_comment leave it: kind is what its first character and the *)
(* search for ']', '=' or ':' say, indent whether white space was skipped, *)
(* text the whole line without the white space around it.                  *)
(* A line longer than the buffer arrives as several.  A name is the        *)
(* sequence of its parts between dots ("" is <<"">>), a stored value the   *)
(* sequence of its lines.                                                  *)
(***************************************************************************)
EXTENDS Integers, FiniteSetsExt, SeqFilter

CONSTANTS
  Lines,         \* the lines that occur
  MaxName,       \* 49 characters: section and prev_name are cut, here in parts
  lower,         \* part -> part in lower case
  MaxLines       \* bound: lines of the file

Kinds == {"blank", "comment", "section", "unclosed", "pair", "nopair"}
NoName == <<"">>
strncpy0(s) == SubSeq(s, 1, Min({Len(s), MaxName}))

(* What is left of a name that is cut is empty only if the name is. *)
ASSUME ConfigAssumption ==
  /\ MaxName \in Nat \ {0} /\ MaxLines \in Nat
  /\ \A l \in Lines : l.kind \in Kinds /\ (strncpy0(l.name) = NoName <=> l.name = NoName)

VARIABLES
  section, prev_name, error, lineno,
  values,        \* _values of INIReader: key -> lines of its value
  roles          \* history: each line with the part it played

readerVars == <<section, prev_name, error, lineno, values, roles>>

(* section + "." + name in lower case *)
MakeKey(s, name) == [i \in DOMAIN (s \o name) |-> lower[(s \o name)[i]]]

ReaderInit ==
  /\ section = NoName /\ prev_name = NoName /\ error = 0 /\ lineno = 0
  /\ values = <<>> /\ roles = <<>>

MutHandler(key, value) ==
  values' = [k \in DOMAIN values \cup {key} |-> IF k = key THEN <<value>> ELSE values[k]]

(* A value is put behind what is there, on a new line unless that is "". *)
ValueHandler(key, value) ==
  values' = [k \in DOMAIN values \cup {key} |->
              IF k # key THEN values[k]
              ELSE IF k \notin DOMAIN values \/ values[k] = <<"">> THEN <<value>>
              ELSE Append(values[k], value)]

Get(s, name, default_value) ==
  LET key == MakeKey(s, name) IN IF key \in DOMAIN values THEN values[key] ELSE default_value

-----------------------------------------------------------------------------
Read(l, role) == lineno' = lineno + 1 /\ roles' = Append(roles, [line |-> l, role |-> role])
Continues(l) == prev_name # NoName /\ l.kind # "blank" /\ l.indent

Skip(l) ==
  /\ l.kind = "comment" \/ (l.kind = "blank" /\ ~Continues(l))
  /\ Read(l, "none")
  /\ UNCHANGED <<section, prev_name, error, values>>

(* The whole line, whatever it looks like, is one more line of the value. *)
Continuation(l) ==
  /\ l.kind # "comment" /\ Continues(l)
  /\ Read(l, "more")
  /\ ValueHandler(MakeKey(section, prev_name), l.text)
  /\ UNCHANGED <<section, prev_name, error>>

MutSection(l) ==
  /\ l.kind = "section" /\ ~Continues(l)
  /\ Read(l, "head")
  /\ section' = strncpy0(l.name)
  /\ UNCHANGED <<prev_name, error, values>>

Section(l) ==
  /\ l.kind = "section" /\ ~Continues(l)
  /\ Read(l, "head")
  /\ section' = strncpy0(l.name) /\ prev_name' = NoName
  /\ UNCHANGED <<error, values>>

Pair(l) ==
  /\ l.kind = "pair" /\ ~Continues(l)
  /\ Read(l, "pair")
  /\ prev_name' = strncpy0(l.name)
  /\ ValueHandler(MakeKey(section, l.name), l.value)
  /\ UNCHANGED <<section, error>>

(* No ']', or neither '=' nor ':'; the parser goes on. *)
Bad(l) ==
  /\ l.kind \in {"unclosed", "nopair"} /\ ~Continues(l)
  /\ Read(l, "bad")
  /\ error' = IF error = 0 THEN lineno' ELSE error
  /\ UNCHANGED <<section, prev_name, values>>

EndOfFile == lineno = MaxLines /\ UNCHANGED readerVars

ReaderNext ==
  \/ \E l \in Lines : lineno < MaxLines /\ (Skip(l) \/ Continuation(l) \/ Section(l) \/ Pair(l) \/ Bad(l))
  \/ EndOfFile

ReaderSpec == ReaderInit /\ [][ReaderNext]_readerVars

-----------------------------------------------------------------------------
LastWith(role, i) ==
  LET js == {j \in 1 .. i - 1 : roles[j].role = role} IN IF js = {} THEN 0 ELSE Max(js)

(* The section and the name line i belongs to, from the lines before it. *)
SectionAt(i) ==
  LET h == LastWith("head", i) IN IF h = 0 THEN NoName ELSE strncpy0(roles[h].line.name)
NameAt(i) ==
  IF roles[i].role = "pair" THEN roles[i].line.name
  ELSE strncpy0(roles[LastWith("pair", i)].line.name)
KeyAt(i) == MakeKey(SectionAt(i), NameAt(i))
GivenAt(i) == IF roles[i].role = "pair" THEN roles[i].line.value ELSE roles[i].line.text

(* The lines of a key, and those from the first on that is not empty. *)
Own(key) == {i \in DOMAIN roles : roles[i].role \in {"pair", "more"} /\ KeyAt(i) = key}
Told(key) == {i \in Own(key) : \E j \in Own(key) : j <= i /\ GivenAt(j) # ""}
Names(role) == {roles[i].line.name : i \in {j \in DOMAIN roles : roles[j].role = role}}

(* What Get returns for a setting is made of exactly its own lines in the  *)
(* order of the file, those under the same section in several places, in   *)
(* other letter case and continued lines included; an absent one gives the *)
(* default.  Leading empty values leave no trace.                          *)
ValuesByReference ==
  \A s \in Names("head") \cup {NoName}, name \in Names("pair") :
    LET key == MakeKey(strncpy0(s), name)
    IN Get(strncpy0(s), name, <<"default">>) =
         IF Own(key) = {} THEN <<"default">>
         ELSE IF Told(key) = {} THEN <<"">>
         ELSE Subsequence([i \in DOMAIN roles |-> GivenAt(i)], Told(key))

(* A line continues a value exactly if it is indented, neither blank nor a *)
(* comment, and follows a named setting of the same section: a section     *)
(* header ends what can be continued.                                      *)
ContinuationRule ==
  \A i \in DOMAIN roles :
    LET p == LastWith("pair", i)
    IN roles[i].role = "more" <=>
         /\ roles[i].line.indent /\ roles[i].line.kind \notin {"blank", "comment"}
         /\ p > LastWith("head", i) /\ roles[p].line.name # NoName
=============================================================================
