-------------------------------- MODULE Console --------------------------------
(***************************************************************************)
(* The colors of ConsoleIo: a color is set as an attribute of the Windows  *)
(* console, or by escape sequences on other terminals.  Only the numbers   *)
(* are the program's; what a terminal makes of them is external.           *)
(***************************************************************************)
EXTENDS Integers

\* The bits of a ConsoleColor as Windows.h numbers them: FOREGROUND_BLUE = 1,
\* FOREGROUND_GREEN = 2, FOREGROUND_RED = 4, FOREGROUND_INTENSITY = 8.
ForegroundBits ==
  [BLACK |-> 0, DARK_BLUE |-> 1, DARK_GREEN |-> 2, DARK_CYAN |-> 3, DARK_RED |-> 4,
   DARK_MAGENTA |-> 5, DARK_YELLOW |-> 6, DARK_WHITE |-> 7,
   LIGHT_BLACK |-> 8, LIGHT_BLUE |-> 9, LIGHT_GREEN |-> 10, LIGHT_CYAN |-> 11,
   LIGHT_RED |-> 12, LIGHT_MAGENTA |-> 13, LIGHT_YELLOW |-> 14, WHITE |-> 15]

\* BACKGROUND_BLUE = 16, BACKGROUND_GREEN = 32, BACKGROUND_RED = 64,
\* BACKGROUND_INTENSITY = 128.
BackgroundBits ==
  [BLACK |-> 0, DARK_BLUE |-> 16, DARK_GREEN |-> 32, DARK_CYAN |-> 48, DARK_RED |-> 64,
   DARK_MAGENTA |-> 80, DARK_YELLOW |-> 96, DARK_WHITE |-> 112,
   LIGHT_BLACK |-> 128, LIGHT_BLUE |-> 144, LIGHT_GREEN |-> 160, LIGHT_CYAN |-> 176,
   LIGHT_RED |-> 192, LIGHT_MAGENTA |-> 208, LIGHT_YELLOW |-> 224, WHITE |-> 240]

\* ConsoleColor without DEFAULT.
FixedColors == DOMAIN ForegroundBits
ConsoleColor == FixedColors \cup {"DEFAULT"}

\* DEFAULT keeps what the attribute was when the program started.
GetColorAttribute(foreground, background, default_console_color) ==
  (IF foreground = "DEFAULT" THEN default_console_color % 16 ELSE ForegroundBits[foreground])
  + (IF background = "DEFAULT" THEN 16 * ((default_console_color \div 16) % 16)
     ELSE BackgroundBits[background])

\* The codes of the escape sequences.
AnsiForeground ==
  [BLACK |-> 30, DARK_BLUE |-> 34, DARK_GREEN |-> 32, DARK_CYAN |-> 36, DARK_RED |-> 31,
   DARK_MAGENTA |-> 35, DARK_YELLOW |-> 33, DARK_WHITE |-> 37,
   LIGHT_BLACK |-> 90, LIGHT_BLUE |-> 94, LIGHT_GREEN |-> 92, LIGHT_CYAN |-> 96,
   LIGHT_RED |-> 91, LIGHT_MAGENTA |-> 95, LIGHT_YELLOW |-> 93, WHITE |-> 97,
   DEFAULT |-> 39]

\* Mutant: the row of light red, copied for light yellow.
AnsiBackgroundRepeated ==
  [c \in ConsoleColor |-> IF c = "LIGHT_YELLOW" THEN 101 ELSE AnsiForeground[c] + 10]

AnsiBackground ==
  [BLACK |-> 40, DARK_BLUE |-> 44, DARK_GREEN |-> 42, DARK_CYAN |-> 46, DARK_RED |-> 41,
   DARK_MAGENTA |-> 45, DARK_YELLOW |-> 43, DARK_WHITE |-> 47,
   LIGHT_BLACK |-> 100, LIGHT_BLUE |-> 104, LIGHT_GREEN |-> 102, LIGHT_CYAN |-> 106,
   LIGHT_RED |-> 101, LIGHT_MAGENTA |-> 105, LIGHT_YELLOW |-> 103, WHITE |-> 107,
   DEFAULT |-> 49]

SetTextColorAnsi(foreground, background) ==
  <<AnsiForeground[foreground], AnsiBackground[background]>>

-----------------------------------------------------------------------------
\* A color that is shown: which of the three lights are on, and how bright.
Shown(red, green, blue, bright) == [red |-> red, green |-> green, blue |-> blue, bright |-> bright]

Bit(number, value) == (number \div value) % 2 = 1

\* The Windows console reads an attribute's four bits.
WindowsShows(bits) == Shown(Bit(bits, 4), Bit(bits, 2), Bit(bits, 1), Bit(bits, 8))

\* ECMA-48: 30 to 37 and 90 to 97 are a color, 39 is the terminal's own; for a
\* background, 10 more.
TerminalShows(code, own) ==
  IF code = 39 THEN own
  ELSE Shown(Bit(code % 10, 1), Bit(code % 10, 2), Bit(code % 10, 4), code >= 90)
=============================================================================
