----------------------------- MODULE ProgressReport -----------------------------
(***************************************************************************)
(* ProgressReport of libmain: one line of the terminal that each report    *)
(* writes over.  A cell of the line holds the line it was last written by, *)
(* so that what is left of an older line can be seen; of a text only its   *)
(* length matters.  The console it writes to keeps the colors it had.      *)
(***************************************************************************)
EXTENDS Console, FiniteSets, Sequences

CONSTANTS
  CallSequences,   \* sequences of reports an operation makes
  DefaultColors,   \* attributes the console may have at the start
  Width            \* columns of the terminal, more than any line has

\* A report: which, of what, and the length of the plane's coordinate as text.
Calls == [kind : {"pyramidize", "copy", "attachments"},
          coordinate : Nat, layer : Nat, total : Nat, done : Nat]

ASSUME ProgressReportAssumption ==
  /\ Width \in Nat
  /\ CallSequences \subseteq Seq(Calls)
  /\ DefaultColors \subseteq Nat

VARIABLES
  default_console_color_,  \* of the console: its attribute when it was created
  calls,                   \* the reports still to come
  last_time_line_length_,
  line,                    \* the line last written: [kind, written, counted]
  cells                    \* by column, the line a cell belongs to

vars == <<default_console_color_, calls, last_time_line_length_, line, cells>>

Blank == [kind |-> "blank", written |-> 0, counted |-> 0]

\* The length of std::to_string of a uint32_t.
Digits(n) == 1 + Cardinality({k \in 1 .. 9 : n >= 10 ^ k})

\* The lines, with the number of characters written and the number counted.
PyramidizeLine(call) ==
  LET length == 12 + 6 + call.coordinate + 8 + Digits(call.layer) + 2 + Digits(call.done)
                + Digits(call.total) + (IF call.total # 1 THEN 12 ELSE 11)
  IN  [kind |-> "pyramidize", written |-> length + 4, counted |-> length + 5]

\* Mutant: the plural is counted as the singular.
CopySubBlockLineSingular(call) ==
  LET length == 13 + 6 + call.coordinate + 2 + Digits(call.done) + 4 + Digits(call.total)
  IN  [kind |-> "copy", written |-> length + (IF call.total # 1 THEN 16 ELSE 15),
       counted |-> length + 15]

CopySubBlockLine(call) ==
  LET length == 13 + 6 + call.coordinate + 2 + Digits(call.done) + 4 + Digits(call.total)
                + (IF call.total # 1 THEN 16 ELSE 15)
  IN  [kind |-> "copy", written |-> length, counted |-> length]

CopyAttachmentLine(call) ==
  LET length == 18 + Digits(call.done) + 18
  IN  [kind |-> "attachments", written |-> length, counted |-> length]

\* Mutant: the new length is set before it is compared.
CountOfSpacesAfterSetting(new_line_length) ==
  LET last == new_line_length
  IN  IF new_line_length < last THEN last - new_line_length ELSE 0

\* ClearRemainderAndSetNewLineLength writes so many spaces.
CountOfSpaces(new_line_length) ==
  IF new_line_length < last_time_line_length_
  THEN last_time_line_length_ - new_line_length ELSE 0

\* The text, the spaces, and back to the first column.
WriteOver(new) ==
  /\ cells' = [column \in 0 .. Width - 1 |->
                 IF column < new.written THEN new
                 ELSE IF column < new.written + CountOfSpaces(new.counted) THEN Blank
                 ELSE cells[column]]
  /\ last_time_line_length_' = new.counted
  /\ line' = new
  /\ UNCHANGED default_console_color_

-----------------------------------------------------------------------------
\* The constructor makes sure that there is an empty line.
Init ==
  /\ default_console_color_ \in DefaultColors
  /\ calls \in CallSequences
  /\ last_time_line_length_ = 0
  /\ line = Blank
  /\ cells = [column \in 0 .. Width - 1 |-> Blank]

Called(kind) == calls # <<>> /\ Head(calls).kind = kind /\ calls' = Tail(calls)

ReportProgressPyramidizer == Called("pyramidize") /\ WriteOver(PyramidizeLine(Head(calls)))

ReportProgressCopySubBlock == Called("copy") /\ WriteOver(CopySubBlockLine(Head(calls)))

ReportProgressCopyAttachment == Called("attachments") /\ WriteOver(CopyAttachmentLine(Head(calls)))

Next == ReportProgressPyramidizer \/ ReportProgressCopySubBlock \/ ReportProgressCopyAttachment

Spec == Init /\ [][Next]_vars

-----------------------------------------------------------------------------
(* Properties.                                                             *)

\* Behind the current line nothing is left of an older one, however many and of
\* whatever length they were, but the last character of a line that is not a
\* pyramid line.
OldLinesErased ==
  \A column \in line.written .. Width - 1 :
    \/ cells[column] = Blank
    \/ cells[column].kind # "pyramidize" /\ cells[column].written = column + 1

Residue == {column \in line.written .. Width - 1 : cells[column] # Blank}

\* Only a pyramid line after another kind of line leaves anything; all other
\* reports leave no more than they find.
OnlyPyramidLineLeavesResidue ==
  [][line'.kind # "pyramidize" \/ line.kind = "pyramidize" => Residue' \subseteq Residue]_vars

\* ClearRemainderAndSetNewLineLength clears the remainder: the terminal shows the
\* current line and nothing else.
RemainderCleared == Residue = {}

\* The two tables of ConsoleIo mean the same colors, and DEFAULT gives back the
\* colors the console had.
PlatformsShowSameColors ==
  \A foreground, background \in ConsoleColor :
    LET windows == GetColorAttribute(foreground, background, default_console_color_)
        ansi    == SetTextColorAnsi(foreground, background)
    IN  /\ WindowsShows(windows % 16)
             = TerminalShows(ansi[1], WindowsShows(default_console_color_ % 16))
        /\ WindowsShows(windows \div 16)
             = TerminalShows(ansi[2] - 10, WindowsShows(default_console_color_ \div 16))
=============================================================================
