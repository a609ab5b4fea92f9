-------------------------- MODULE ProgressReport_proof --------------------------
(***************************************************************************)
(* What is left of old lines, for reports in any order and of any length.  *)
(***************************************************************************)
EXTENDS ProgressReport, FiniteSetTheorems, TLAPS

Lines == [kind : {"blank", "pyramidize", "copy", "attachments"}, written : Nat, counted : Nat]

\* What is counted is what is written, but for the pyramid line.
Exact(l) ==
  /\ l.kind # "pyramidize" => l.written = l.counted
  /\ l.kind = "pyramidize" => l.written + 1 = l.counted

\* The current line is on the screen, and its length is remembered.
LineInv ==
  /\ calls \in Seq(Calls)
  /\ line \in Lines
  /\ Exact(line)
  /\ last_time_line_length_ = line.counted
  /\ cells \in [0 .. Width - 1 -> Lines]
  /\ \A column \in 0 .. Width - 1 : column < line.written => cells[column] = line

IInv == LineInv /\ OldLinesErased

\* The length of a number is positive.
LEMMA DigitsType == ASSUME NEW n \in Nat PROVE Digits(n) \in Nat
  <1>1. \A a, b \in Int : IsFiniteSet(a .. b)
    BY FS_Interval
  <1>2. 1 \in Int /\ 9 \in Int
    OBVIOUS
  <1>3. IsFiniteSet(1 .. 9)
    BY ONLY <1>1, <1>2
  <1> DEFINE K == {k \in 1 .. 9 : n >= 10 ^ k}
  <1>4. IsFiniteSet(K)
    BY <1>3, FS_Subset
  <1>5. Cardinality(K) \in Nat
    BY <1>4, FS_CardinalityType
  <1> QED
    BY <1>5 DEF Digits

\* The three kinds of lines are counted exactly but for the pyramid line.
LEMMA LinesAreExact ==
  ASSUME NEW call \in Calls
  PROVE  /\ PyramidizeLine(call) \in Lines /\ Exact(PyramidizeLine(call))
         /\ CopySubBlockLine(call) \in Lines /\ Exact(CopySubBlockLine(call))
         /\ CopyAttachmentLine(call) \in Lines /\ Exact(CopyAttachmentLine(call))
  <1>1. /\ call.coordinate \in Nat /\ call.total \in Nat
        /\ Digits(call.layer) \in Nat /\ Digits(call.done) \in Nat /\ Digits(call.total) \in Nat
    BY DigitsType DEF Calls
  <1> HIDE DEF Digits
  <1>2. PyramidizeLine(call) \in Lines /\ Exact(PyramidizeLine(call))
    BY <1>1 DEF PyramidizeLine, Lines, Exact
  <1>3. CopySubBlockLine(call) \in Lines /\ Exact(CopySubBlockLine(call))
    BY <1>1 DEF CopySubBlockLine, Lines, Exact
  <1>4. CopyAttachmentLine(call) \in Lines /\ Exact(CopyAttachmentLine(call))
    BY <1>1 DEF CopyAttachmentLine, Lines, Exact
  <1> QED
    BY <1>2, <1>3, <1>4

\* Every step writes one exact line over the last.
LEMMA StepWritesOver ==
  ASSUME LineInv, Next
  PROVE  \E new \in Lines : /\ Exact(new) /\ WriteOver(new)
                            /\ calls' \in Seq(Calls)
  <1>1. calls # <<>> /\ Head(calls) \in Calls /\ Tail(calls) \in Seq(Calls)
    BY DEF LineInv, Next, ReportProgressPyramidizer, ReportProgressCopySubBlock,
           ReportProgressCopyAttachment, Called
  <1>2. calls' \in Seq(Calls)
    BY <1>1 DEF Next, ReportProgressPyramidizer, ReportProgressCopySubBlock,
                ReportProgressCopyAttachment, Called
  <1>3. CASE ReportProgressPyramidizer
    BY <1>1, <1>2, <1>3, LinesAreExact DEF ReportProgressPyramidizer
  <1>4. CASE ReportProgressCopySubBlock
    BY <1>1, <1>2, <1>4, LinesAreExact DEF ReportProgressCopySubBlock
  <1>5. CASE ReportProgressCopyAttachment
    BY <1>1, <1>2, <1>5, LinesAreExact DEF ReportProgressCopyAttachment
  <1> QED
    BY <1>3, <1>4, <1>5 DEF Next

\* What a line leaves of the one before: nothing, or that line's last character.
LEMMA Remainder ==
  ASSUME LineInv, NEW new \in Lines, Exact(new), WriteOver(new),
         NEW column \in 0 .. Width - 1, column >= new.written, cells'[column] # Blank
  PROVE  /\ cells'[column] = cells[column]
         /\ \/ column >= line.written
            \/ /\ new.kind = "pyramidize" /\ line.kind # "pyramidize"
               /\ cells[column] = line /\ line.written = column + 1
  <1> Width \in Nat /\ column \in Int
    BY ProgressReportAssumption
  <1>1. /\ new.written \in Nat /\ new.counted \in Nat /\ line.written \in Nat
        /\ line.counted \in Nat /\ last_time_line_length_ = line.counted
    BY DEF LineInv, Lines
  <1>2. column >= new.written + CountOfSpaces(new.counted) /\ cells'[column] = cells[column]
    BY <1>1 DEF WriteOver, CountOfSpaces
  <1>3. CASE column < line.written
    <2>1. PICK nw \in Nat, nc \in Nat, lw \in Nat, lc \in Nat :
            nw = new.written /\ nc = new.counted /\ lw = line.written /\ lc = line.counted
      BY <1>1
    <2>2. lc <= nc + CountOfSpaces(nc) /\ CountOfSpaces(nc) \in Nat
      BY <1>1, <2>1 DEF CountOfSpaces
    <2>3. /\ new.kind # "pyramidize" => nw = nc
          /\ nc <= nw + 1
          /\ line.kind = "pyramidize" => lw + 1 = lc
          /\ lw <= lc
      BY <2>1 DEF LineInv, Exact
    <2>4. new.kind = "pyramidize"
      BY <1>2, <1>3, <2>1, <2>2, <2>3
    <2>5. lc <= column + 1 /\ column + 1 <= lw
      BY <1>2, <1>3, <2>1, <2>2, <2>3
    <2>6. lw = column + 1 /\ line.kind # "pyramidize"
      BY <2>1, <2>3, <2>5
    <2>7. new.kind = "pyramidize" /\ line.kind # "pyramidize" /\ line.written = column + 1
      BY <2>1, <2>4, <2>6
    <2> QED
      BY <1>2, <1>3, <2>7 DEF LineInv
  <1> QED
    BY <1>1, <1>2, <1>3

\* A line written over the last keeps the invariant.
LEMMA WriteOverKeeps ==
  ASSUME IInv, NEW new \in Lines, Exact(new), WriteOver(new), calls' \in Seq(Calls)
  PROVE  IInv'
  <1> Width \in Nat
    BY ProgressReportAssumption
  <1>1. line' = new /\ last_time_line_length_' = new.counted /\ new.written \in Nat
    BY DEF WriteOver, Lines
  <1>2. Blank \in Lines
    BY DEF Blank, Lines
  <1>3. cells' \in [0 .. Width - 1 -> Lines]
    BY <1>2 DEF WriteOver, IInv, LineInv
  <1>4. \A column \in 0 .. Width - 1 : column < new.written => cells'[column] = new
    BY DEF WriteOver
  <1>5. LineInv'
    BY <1>1, <1>3, <1>4 DEF LineInv
  <1>6. ASSUME NEW column \in new.written .. Width - 1
        PROVE  \/ cells'[column] = Blank
               \/ cells'[column].kind # "pyramidize" /\ cells'[column].written = column + 1
    <2>1. column \in 0 .. Width - 1 /\ column >= new.written
      BY <1>1
    <2>2. CASE column >= line.written /\ cells'[column] # Blank
      <3>1. column \in line.written .. Width - 1
        BY <2>1, <2>2 DEF IInv, LineInv, Lines
      <3>2. cells'[column] = cells[column]
        BY <2>1, <2>2, Remainder DEF IInv
      <3> QED
        BY <3>1, <3>2 DEF IInv, OldLinesErased
    <2>3. CASE ~(column >= line.written) /\ cells'[column] # Blank
      BY <2>1, <2>3, Remainder DEF IInv
    <2> QED
      BY <2>2, <2>3
  <1>7. OldLinesErased'
    BY <1>1, <1>6 DEF OldLinesErased
  <1> QED
    BY <1>5, <1>7 DEF IInv

\* The line the constructor leaves is empty.
LEMMA InvariantInit == Init => IInv
  <1> SUFFICES ASSUME Init PROVE IInv
    OBVIOUS
  <1> Width \in Nat /\ calls \in Seq(Calls)
    BY ProgressReportAssumption DEF Init
  <1>1. Blank \in Lines /\ Exact(Blank)
    BY DEF Blank, Lines, Exact
  <1>2. LineInv
    BY <1>1 DEF Init, LineInv, Blank
  <1>3. OldLinesErased
    BY DEF Init, OldLinesErased, Blank
  <1> QED
    BY <1>2, <1>3 DEF IInv

\* Each of the three reports writes over the line.
LEMMA InvariantNext == IInv /\ [Next]_vars => IInv'
  <1> SUFFICES ASSUME IInv, [Next]_vars PROVE IInv'
    OBVIOUS
  <1>1. CASE Next
    <2>1. PICK new \in Lines : Exact(new) /\ WriteOver(new) /\ calls' \in Seq(Calls)
      BY <1>1, StepWritesOver DEF IInv
    <2> QED
      BY <2>1, WriteOverKeeps
  <1>2. CASE UNCHANGED vars
    BY <1>2 DEF vars, IInv, LineInv, OldLinesErased
  <1> QED
    BY <1>1, <1>2

\* ClearRemainderAndSetNewLineLength with the counts of the three reports: of
\* all the lines before, only last characters of lines that are not pyramid lines
\* can be left.
THEOREM Erased == Spec => []OldLinesErased
  <1>1. Spec => []IInv
    BY InvariantInit, InvariantNext, PTL DEF Spec
  <1> QED
    BY <1>1, PTL DEF IInv

\* The reports of copied sub-blocks and attachments leave no more than they find.
THEOREM ResidueOfPyramidLines == Spec => OnlyPyramidLineLeavesResidue
  <1>1. Spec => []IInv
    BY InvariantInit, InvariantNext, PTL DEF Spec
  <1>2. IInv /\ [Next]_vars =>
          [line'.kind # "pyramidize" \/ line.kind = "pyramidize" => Residue' \subseteq Residue]_vars
    <2> SUFFICES ASSUME IInv, Next, line'.kind # "pyramidize" \/ line.kind = "pyramidize",
                        NEW column \in Residue'
                 PROVE  column \in Residue
      BY DEF vars
    <2>1. PICK new \in Lines : Exact(new) /\ WriteOver(new)
      BY StepWritesOver DEF IInv
    <2>2. line' = new /\ new.written \in Nat /\ line.written \in Nat /\ Width \in Nat
      BY <2>1, ProgressReportAssumption DEF WriteOver, Lines, IInv, LineInv
    <2>3. column \in 0 .. Width - 1 /\ column >= new.written /\ cells'[column] # Blank
      BY <2>2 DEF Residue
    <2>4. column >= line.written /\ cells[column] # Blank
      BY <2>1, <2>2, <2>3, Remainder DEF IInv
    <2> QED
      BY <2>2, <2>3, <2>4 DEF Residue
  <1> QED
    BY <1>1, <1>2, PTL DEF Spec, OnlyPyramidLineLeavesResidue

-----------------------------------------------------------------------------
(* The colors.                                                             *)

\* The bits of an attribute, whatever is above them.
LEMMA BitsOfRemainder ==
  ASSUME NEW n \in Int
  PROVE  n % 16 \in 0 .. 15 /\ WindowsShows(n % 16) = WindowsShows(n)
<1>1. n % 16 \in 0 .. 15
  OBVIOUS
<1>2. Bit(n % 16, 1) = Bit(n, 1) /\ Bit(n % 16, 2) = Bit(n, 2)
  BY DEF Bit
<1>3. Bit(n % 16, 4) = Bit(n, 4) /\ Bit(n % 16, 8) = Bit(n, 8)
  BY DEF Bit
<1> QED BY <1>1, <1>2, <1>3 DEF WindowsShows


\* The attribute's bits and the escape sequence's code for each fixed color.
ColorPairs ==
  {<<0, 30>>, <<1, 34>>, <<2, 32>>, <<3, 36>>, <<4, 31>>, <<5, 35>>, <<6, 33>>, <<7, 37>>,
   <<8, 90>>, <<9, 94>>, <<10, 92>>, <<11, 96>>, <<12, 91>>, <<13, 95>>, <<14, 93>>, <<15, 97>>}

\* The numbers of the two tables mean the same lights.
LEMMA PairsAgree ==
  ASSUME NEW own, NEW pair \in ColorPairs
  PROVE  WindowsShows(pair[1]) = TerminalShows(pair[2], own)
BY DEF ColorPairs, WindowsShows, TerminalShows, Shown, Bit

\* The tables of both platforms have such a pair for each of the fixed colors, those
\* of the background by their own numbers.
LEMMA TablesAgree ==
  ASSUME NEW color \in FixedColors
  PROVE  /\ <<ForegroundBits[color], AnsiForeground[color]>> \in ColorPairs
         /\ \E bits \in 0 .. 15 :
              /\ BackgroundBits[color] = 16 * bits
              /\ <<bits, AnsiBackground[color] - 10>> \in ColorPairs
<1>1. color \in {"BLACK", "DARK_BLUE", "DARK_GREEN", "DARK_CYAN", "DARK_RED", "DARK_MAGENTA",
                 "DARK_YELLOW", "DARK_WHITE", "LIGHT_BLACK", "LIGHT_BLUE", "LIGHT_GREEN",
                 "LIGHT_CYAN", "LIGHT_RED", "LIGHT_MAGENTA", "LIGHT_YELLOW", "WHITE"}
  BY DEF FixedColors, ForegroundBits
<1>2. BackgroundBits[color] = 16 * ForegroundBits[color] /\ ForegroundBits[color] \in 0 .. 15
  BY <1>1 DEF ForegroundBits, BackgroundBits
<1>3. AnsiBackground[color] - 10 = AnsiForeground[color]
  BY <1>1 DEF AnsiForeground, AnsiBackground
<1>4. <<ForegroundBits[color], AnsiForeground[color]>> \in ColorPairs
  BY <1>1 DEF ForegroundBits, AnsiForeground, ColorPairs
<1> QED BY <1>2, <1>3, <1>4

\* What the console takes for one color, of an attribute as it was at the start,
\* is what the terminal shows for its code.
LEMMA SameColor ==
  ASSUME NEW kept \in Int, NEW bits, NEW code,
         (bits = kept % 16 /\ code = 39) \/ <<bits, code>> \in ColorPairs
  PROVE  bits \in 0 .. 15 /\ WindowsShows(bits) = TerminalShows(code, WindowsShows(kept))
<1>1. CASE bits = kept % 16 /\ code = 39
  BY <1>1, BitsOfRemainder DEF TerminalShows
<1>2. CASE <<bits, code>> \in ColorPairs
  <2>1. bits \in 0 .. 15
    BY <1>2 DEF ColorPairs
  <2>2. PICK pair \in ColorPairs : pair = <<bits, code>>
    BY <1>2
  <2> QED BY <2>1, <2>2, PairsAgree
<1> QED BY <1>1, <1>2

\* The two numbers an attribute is made of.
LEMMA AttributeParts ==
  ASSUME NEW a \in 0 .. 15, NEW b \in 0 .. 15
  PROVE  (a + 16 * b) % 16 = a /\ (a + 16 * b) \div 16 = b
OBVIOUS

\* The console's attribute is a number.
ColorInv == default_console_color_ \in Int

\* ConsoleIo's tables for the Windows console and for other terminals: each pair
\* of colors looks the same, whatever the console's attribute was at the start.
THEOREM SameColorsShown == Spec => []PlatformsShowSameColors
<1>1. Init => ColorInv
  BY ProgressReportAssumption DEF Init, ColorInv
<1>2. ColorInv /\ [Next]_vars => ColorInv'
  BY DEF ColorInv, Next, vars, ReportProgressPyramidizer, ReportProgressCopySubBlock,
         ReportProgressCopyAttachment, WriteOver
<1>3. ColorInv => PlatformsShowSameColors
  <2> SUFFICES ASSUME NEW color \in Int, color = default_console_color_,
                      NEW foreground \in ConsoleColor, NEW background \in ConsoleColor
               PROVE  LET windows == GetColorAttribute(foreground, background, color)
                          ansi    == SetTextColorAnsi(foreground, background)
                      IN  /\ WindowsShows(windows % 16)
                               = TerminalShows(ansi[1], WindowsShows(color % 16))
                          /\ WindowsShows(windows \div 16)
                               = TerminalShows(ansi[2] - 10, WindowsShows(color \div 16))
    BY DEF ColorInv, PlatformsShowSameColors
  <2>1. color \div 16 \in Int /\ color % 16 \in Int
    OBVIOUS
  <2>2. foreground = "DEFAULT" \/ foreground \in FixedColors
    BY DEF ConsoleColor
  <2>3. background = "DEFAULT" \/ background \in FixedColors
    BY DEF ConsoleColor
  <2>4. PICK front : /\ front = IF foreground = "DEFAULT" THEN color % 16
                                ELSE ForegroundBits[foreground]
                     /\ \/ front = color % 16 /\ AnsiForeground[foreground] = 39
                        \/ <<front, AnsiForeground[foreground]>> \in ColorPairs
    <3>1. CASE foreground = "DEFAULT"
      <4>1. AnsiForeground[foreground] = 39
        BY <3>1 DEF AnsiForeground
      <4> QED BY <3>1, <4>1
    <3>2. CASE foreground # "DEFAULT"
      BY <2>2, <3>2, TablesAgree
    <3> QED BY <3>1, <3>2
  <2>5. PICK back : /\ 16 * back = IF background = "DEFAULT" THEN 16 * ((color \div 16) % 16)
                                   ELSE BackgroundBits[background]
                    /\ \/ back = (color \div 16) % 16 /\ AnsiBackground[background] - 10 = 39
                       \/ <<back, AnsiBackground[background] - 10>> \in ColorPairs
    <3>1. CASE background = "DEFAULT"
      <4>1. AnsiBackground[background] - 10 = 39
        BY <3>1 DEF AnsiBackground
      <4> QED BY <3>1, <4>1
    <3>2. CASE background # "DEFAULT"
      BY <2>3, <3>2, TablesAgree
    <3> QED BY <3>1, <3>2
  <2>6. /\ front \in 0 .. 15
        /\ WindowsShows(front) = TerminalShows(AnsiForeground[foreground], WindowsShows(color))
    BY <2>4, SameColor
  <2>7. /\ back \in 0 .. 15
        /\ WindowsShows(back)
             = TerminalShows(AnsiBackground[background] - 10, WindowsShows(color \div 16))
    BY <2>1, <2>5, SameColor
  <2>8. GetColorAttribute(foreground, background, color) = front + 16 * back
    BY <2>4, <2>5 DEF GetColorAttribute
  <2>9. WindowsShows(color % 16) = WindowsShows(color)
    BY BitsOfRemainder
  <2>10. (front + 16 * back) % 16 = front /\ (front + 16 * back) \div 16 = back
    BY <2>6, <2>7, AttributeParts
  <2> HIDE DEF WindowsShows, TerminalShows
  <2> QED BY <2>6, <2>7, <2>8, <2>9, <2>10 DEF SetTextColorAnsi
<1> QED BY <1>1, <1>2, <1>3, PTL DEF Spec
=============================================================================
