-------------------------------- MODULE Storage --------------------------------
(***************************************************************************)
(* The files of a StateStore.  A .jsonl file is a sequence of lines, each  *)
(* a record that can be read back (<<record>>) or one that cannot (<<>>);  *)
(* open says that the last line lacks its end, so that what is appended    *)
(* next goes on with it.  Records are numbered by the lines there are      *)
(* before them, whatever is in these, and a file with one line that cannot *)
(* be read cannot be loaded at all.                                        *)
(*                                                                         *)
(* A .json file holds one value and is emptied before it is written.       *)
(***************************************************************************)
EXTENDS Naturals, Sequences

NoLines == [lines |-> <<>>, open |-> FALSE]

\* _get_event_count and _count_lines: of the lines, readable or not.
CountLines(file) == Len(file.lines)

\* The last line is not a record any more.
LastSpoilt(file) == [file.lines EXCEPT ![Len(file.lines)] = <<>>]

\* Defect: a line that was not ended is written over.
AppendLineOver(file, record) ==
  [lines |-> IF file.open THEN [file.lines EXCEPT ![Len(file.lines)] = <<record>>]
             ELSE Append(file.lines, <<record>>),
   open |-> FALSE]

\* A record is appended: to a line that was not ended if there is one.
AppendLine(file, record) ==
  [lines |-> IF file.open THEN LastSpoilt(file)
             ELSE Append(file.lines, <<record>>),
   open |-> FALSE]

\* What an append that raises, or is cut off, may leave: nothing of it, a part
\* of its line, or the line without its end.
AppendFails(file, record) ==
  {file} \cup
  IF file.open THEN {[file EXCEPT !.lines = LastSpoilt(file)]}
  ELSE {[lines |-> Append(file.lines, line), open |-> TRUE] :
          line \in {<<>>, <<record>>}}

\* Loading raises at the first line that is not a record.
CanBeLoaded(file) == \A n \in DOMAIN file.lines : file.lines[n] # <<>>

\* What a file that can be loaded holds.
Loaded(file) == [n \in DOMAIN file.lines |-> file.lines[n][1]]

\* A value on file, and what a write of it that fails may leave: no value.
Saved(value) == [torn |-> FALSE, value |-> value]
Torn == [torn |-> TRUE, value |-> <<>>]
SaveFails(file) == {file, Torn}

================================================================================
