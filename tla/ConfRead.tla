------------------------------ MODULE ConfRead ------------------------------
(***************************************************************************)
(* The reader of the configuration file (confread.c): ConfReadScan makes a *)
(* list of sections with their keys and values from the lines of a file,   *)
(* and ConfReadValueBySectKey looks a value up.                            *)
(*                                                                         *)
(* A line is a comment (or blank), a section, a key with its value, or     *)
(* "broken": a name that is not closed or a character that begins nothing. *)
(* After it comes its end (or a comment), more text, or - on the last line *)
(* only - nothing, not even a newline.  Blanks are removed first.          *)
(***************************************************************************)
EXTENDS Naturals, Sequences

CONSTANTS
  None,   \* no value, no file
  Words,  \* names of sections and keys
  Values  \* values of keys

\* The lines of a file, and the list that is made of them.
FileLines ==
  [kind : {"comment", "section", "key", "broken"}, name : Words,
   value : Values, rest : {"end", "text", "none"}]

Keys     == [key : Words, value : Values]
Sections == [name : Words, keys : Seq(Keys)]

ASSUME ConfReadAssumption == None \notin Sections

NoSections == <<>>

\* Which lines ConfReadScan goes on after: linescan finds no token in an end
\* without a newline, unless it is a comment's.
WellFormed(l) ==
  \/ l.kind = "comment"
  \/ l.kind \in {"section", "key"} /\ l.rest = "end"

AddSection(sections, name) == Append(sections, [name |-> name, keys |-> <<>>])

\* A key before the first section is dropped.
AddKey(sections, key, value) ==
  IF sections = NoSections
  THEN sections
  ELSE [sections EXCEPT ![Len(sections)].keys =
          Append(@, [key |-> key, value |-> value])]

\* One line; nothing is read after an error.
ScanLine(ce, l) ==
  IF ce = None \/ ~WellFormed(l)
  THEN None
  ELSE CASE l.kind = "comment" -> ce
         [] l.kind = "section" -> AddSection(ce, l.name)
         [] l.kind = "key"     -> AddKey(ce, l.name, l.value)

\* ConfReadScan: the sections, or None after a syntax error.
ConfReadScan(lines) ==
  LET scan[n \in 0 .. Len(lines)] ==
        IF n = 0 THEN NoSections ELSE ScanLine(scan[n - 1], lines[n])
  IN  scan[Len(lines)]

\* The first of the places in a list.
First(is) == CHOOSE i \in is : \A j \in is : i <= j

\* The first with the name, or None.
FindSection(ce, section) ==
  LET is == {i \in 1 .. Len(ce) : ce[i].name = section}
  IN  IF is = {} THEN None ELSE ce[First(is)]

FindKey(s, key) ==
  LET is == {i \in 1 .. Len(s.keys) : s.keys[i].key = key}
  IN  IF is = {} THEN None ELSE s.keys[First(is)].value

\* ConfReadValueBySectKey.
ValueBySectKey(ce, section, key) ==
  LET s == FindSection(ce, section)
  IN  IF s = None THEN None ELSE FindKey(s, key)

============================================================================
