------------------------------ MODULE Console -------------------------------
(***************************************************************************)
(* What becomes of a line of the log: DbgDebugLog (src/minihv/dbglog.c)    *)
(* prints it twice, once to where Init points the output (the serial port, *)
(* when there is one) and once to the console, moving the output with it;  *)
(* ConsolePutChar (cconsole.c) keeps a text of characters, tabs, line      *)
(* breaks and wraps on a screen whose first row is the title and whose     *)
(* last row it never uses, and scrolls at most one row per character.      *)
(*                                                                         *)
(* A cell holds its character; colours are left out. A space is a blank.   *)
(***************************************************************************)
EXTENDS Integers, SequencesExt

CONSTANTS
    TEXT_ROWS, TEXT_COLS,   \* 50 and 80 in the code
    TabStop,                \* 8
    ClearedRows,            \* what VVgaTextClear clears, 25
    Char,                   \* what is printed: blanks, tabs, line breaks and the visible ones
    Leftover,               \* what the firmware may have left in a cell
    Title, TitleAt,         \* "MINI HYPERVISOR", OFFSET_HV_BAR
    Prefix,                 \* file and line
    Dots,                   \* what WriteBlinkingText prints
    Messages                \* what is logged

\* VGA_DEFAULT and the types that print as it does, VGA_NO_NEWLINE, VGA_ERROR, VGA_ACPI.
Types    == {"default", "no_newline", "error", "acpi"}
Blinking == {"error", "acpi"}

Blank == ""
Tab   == "\t"
Break == "\n"
\* The steps of a log call that are not characters.
Switches == {"Init", "InitOnlyCons", "NewLineOn", "NewLineOff", "NewLineIfEnabled"}

\* What can be seen of a text; the code looks at no cell but to copy it, so what the
\* firmware has left may be told apart from it, whatever it is.
Ink == Char \ {Blank, Tab, Break}

ASSUME ConstantsAreSane ==
    /\ {Blank, Tab, Break} \subseteq Char
    /\ Char \cap Switches = {} /\ Ink \cap Leftover = {}
    /\ Title \in Seq(Char) /\ Prefix \in Seq(Char) /\ Dots \in Seq(Char)
    /\ Messages \subseteq [type: Types, text: Seq(Char)]
    /\ TEXT_ROWS \in Nat /\ TEXT_ROWS > 3 /\ TabStop \in Nat \ {0}
    /\ TEXT_COLS \in Nat \ {0} /\ TEXT_COLS % TabStop = 0
    /\ ClearedRows \in 1 .. TEXT_ROWS
    /\ TitleAt \in Nat /\ TitleAt + Len(Title) <= TEXT_COLS

VARIABLES
    pc,                 \* "clear", "title", "log"
    screen,             \* VGA_TEXT_BASE
    s_row, s_col,
    cursor,             \* the last VVgaTextSetCursor
    gPort,              \* the serial port has been found
    out,                \* printCharacter and printString: "console" or "serial"
    gNewLineEnabled,
    todo,               \* what the running log call has left to do
    call,               \* history: the last message, or NoCall
    port,               \* history: what it has sent to the serial port
    text                \* history: the last visible characters the console was given

vars == <<pc, screen, s_row, s_col, cursor, gPort, out, gNewLineEnabled, todo, call,
          port, text>>

screenVars == <<screen, s_row, s_col, cursor>>

NoCall == [type |-> "default", text |-> <<Blank>>]

Cells  == 0 .. TEXT_ROWS * TEXT_COLS - 1
Row(i) == i \div TEXT_COLS
\* The rows of the text.
Top    == 1
Bottom == TEXT_ROWS - 2
Page   == Bottom * TEXT_COLS

Visible(c) == c \notin {Tab, Break}

Init ==
    /\ pc = "clear"
    /\ \E c \in Leftover : screen = [i \in Cells |-> c]
    /\ s_row = 0 /\ s_col = 0 /\ cursor = 0
    /\ gPort = FALSE /\ out = "console" /\ gNewLineEnabled = TRUE
    /\ todo = << >> /\ call = NoCall /\ port = << >> /\ text = << >>

VVgaTextInit ==
    /\ pc = "clear" /\ pc' = "title"
    /\ screen' = [i \in Cells |-> IF Row(i) < ClearedRows THEN Blank ELSE screen[i]]
    /\ cursor' = 0
    /\ UNCHANGED <<s_row, s_col, gPort, out, gNewLineEnabled, todo, call, port, text>>

\* WriteMiniHv: the characters of the title neither move nor scroll.
ConsoleInit ==
    /\ pc = "title" /\ pc' = "log"
    /\ screen' = [i \in Cells |-> IF i \in TitleAt .. TitleAt + Len(Title) - 1
                                  THEN Title[i - TitleAt + 1] ELSE screen[i]]
    /\ s_row' = 1
    /\ UNCHANGED <<s_col, cursor, gPort, out, gNewLineEnabled, todo, call, port, text>>

---------------------------------------------------------------------------
(* The screen *)

\* Mutant: the new row keeps what was in it.
ScrollNoBlank(s) ==
    [i \in Cells |-> IF Row(i) \in Top .. Bottom - 1 THEN s[i + TEXT_COLS] ELSE s[i]]

\* One row up: the title stays, the new row is blank.
Scroll(s) ==
    [i \in Cells |-> IF Row(i) \in Top .. Bottom - 1 THEN s[i + TEXT_COLS]
                     ELSE IF Row(i) = Bottom THEN Blank ELSE s[i]]

\* The last n characters of a text and one more.
Extended(t, c, n) ==
    LET all == Append(t, c) IN SubSeq(all, IF Len(all) > n THEN 2 ELSE 1, Len(all))

\* Where a character that is neither a tab nor a line break moves to, before the wrap.
NextCol(c, col) ==
    CASE c = Tab   -> ((col + TabStop) \div TabStop) * TabStop
      [] c = Break -> col
      [] OTHER     -> col + 1

\* Mutant: scrolls below the screen only.
FullLate(row) == row >= TEXT_ROWS

\* Mutant: scrolls a row early.
FullEarly(row) == row >= TEXT_ROWS - 2

\* The offset is not in the text's rows.
Full(row) == row >= TEXT_ROWS - 1

ConsolePutChar(c) ==
    LET broken == c = Break
        col    == IF broken THEN 0 ELSE s_col
        down   == IF broken THEN s_row + 1 ELSE s_row
        page   == IF Full(down) THEN Scroll(screen) ELSE screen
        row    == IF Full(down) THEN down - 1 ELSE down
        offset == row * TEXT_COLS + col
        next   == NextCol(c, col)
    IN  /\ screen' = IF Visible(c) /\ row > 0 THEN [page EXCEPT ![offset] = c] ELSE page
        /\ s_col' = IF next >= TEXT_COLS THEN 0 ELSE next
        /\ s_row' = IF next >= TEXT_COLS THEN row + 1 ELSE row
        /\ cursor' = offset
        /\ text' = IF c \in Ink THEN Extended(text, c, Page) ELSE text
        /\ UNCHANGED port

SerialPut(c) ==
    /\ port' = Append(port, c)
    /\ UNCHANGED <<screenVars, text>>

---------------------------------------------------------------------------
(* The log *)

\* Mutant: the line that was held back is not ended.
SetNewLineQuiet(var) == <<"InitOnlyCons", IF var THEN "NewLineOn" ELSE "NewLineOff">>

SetNewLine(var) ==
    IF var THEN <<"InitOnlyCons", "NewLineOn", Break>> ELSE <<"InitOnlyCons", "NewLineOff">>

ConsolePrint(m) == <<"InitOnlyCons">> \o Prefix \o m.text \o <<"NewLineIfEnabled">>

LineEnd(m) == IF m.type = "no_newline" THEN << >> ELSE <<Break>>

\* Mutant: the output stays where the call before has left it.
SerialLogNoInit(m) == Prefix \o m.text \o LineEnd(m)

\* What DbgDebugLog prints under SERIAL_LOG.
SerialLog(m) == <<"Init">> \o Prefix \o m.text \o LineEnd(m)

DbgDebugLog(m) ==
    /\ pc = "log" /\ todo = << >>
    /\ call' = m /\ port' = << >>
    /\ todo' = SerialLog(m)
                 \o (IF m.type \in Blinking THEN SetNewLine(FALSE) ELSE << >>)
                 \o ConsolePrint(m)
                 \o (IF m.type \in Blinking THEN Dots \o SetNewLine(TRUE) ELSE << >>)
    /\ UNCHANGED <<screenVars, pc, gPort, out, gNewLineEnabled, text>>

\* InitSerial, between two calls.
SerialFound ==
    /\ pc = "log" /\ todo = << >> /\ ~ gPort
    /\ gPort' = TRUE /\ call' = NoCall
    /\ UNCHANGED <<screenVars, pc, out, gNewLineEnabled, todo, port, text>>

\* The running call goes on.
Goes(item) == todo # << >> /\ Head(todo) = item
Prints     == todo # << >> /\ Head(todo) \notin Switches

InitOutput(item) ==
    /\ Goes(item) /\ todo' = Tail(todo)
    /\ out' = IF item = "Init" /\ gPort THEN "serial" ELSE "console"
    /\ UNCHANGED <<screenVars, pc, gPort, gNewLineEnabled, call, port, text>>

EnableNewLine(item) ==
    /\ Goes(item) /\ todo' = Tail(todo)
    /\ gNewLineEnabled' = (item = "NewLineOn")
    /\ UNCHANGED <<screenVars, pc, gPort, out, call, port, text>>

NewLineIfEnabled ==
    /\ Goes("NewLineIfEnabled")
    /\ todo' = (IF gNewLineEnabled THEN <<Break>> ELSE << >>) \o Tail(todo)
    /\ UNCHANGED <<screenVars, pc, gPort, out, gNewLineEnabled, call, port, text>>

PrintCharacter ==
    /\ Prints /\ todo' = Tail(todo)
    /\ IF out = "serial" THEN SerialPut(Head(todo)) ELSE ConsolePutChar(Head(todo))
    /\ UNCHANGED <<pc, gPort, out, gNewLineEnabled, call>>

Next ==
    \/ VVgaTextInit \/ ConsoleInit
    \/ \E m \in Messages : DbgDebugLog(m)
    \/ SerialFound
    \/ \E item \in {"Init", "InitOnlyCons"} : InitOutput(item)
    \/ \E item \in {"NewLineOn", "NewLineOff"} : EnableNewLine(item)
    \/ NewLineIfEnabled \/ PrintCharacter

Spec == Init /\ [][Next]_vars

---------------------------------------------------------------------------
(* Properties *)

TypeOK ==
    /\ pc \in {"clear", "title", "log"}
    /\ screen \in [Cells -> Char \cup Leftover]
    /\ s_row \in 0 .. TEXT_ROWS - 1 /\ s_col \in 0 .. TEXT_COLS - 1
    /\ cursor \in Cells
    /\ gPort \in BOOLEAN /\ out \in {"console", "serial"} /\ gNewLineEnabled \in BOOLEAN
    /\ call \in Messages \cup {NoCall}
    /\ todo \in Seq(Char \cup Switches) /\ port \in Seq(Char)
    /\ text \in Seq(Ink) /\ Len(text) <= Page

\* The k-th smallest of some positions, and what a function has at the positions, in order.
Nth(S, k)     == CHOOSE i \in S : Cardinality({j \in S : j <= i}) = k
InOrder(f, S) == [k \in 1 .. Cardinality(S) |-> f[Nth(S, k)]]

\* The characters on the screen from a row of the text on, as one reads them; what the
\* firmware has left in the rows that are never cleared is passed over.
Inked(r)     == {i \in Cells : Row(i) \in r .. Bottom /\ screen[i] \in Ink}
ShownFrom(r) == InOrder(screen, Inked(r))

\* The screen shows the end of the text: nothing is lost between two characters, shown
\* twice, overwritten or out of order, through every wrap, tab, line break and scroll
\* (after a full last line, a line break goes two rows too far and one row up).
ScreenShowsTheText == IsSuffix(ShownFrom(Top), text)

\* Only the topmost line is ever lost, and only when the page is full.
OnlyTheTopLineGoes ==
    [][LET new == IF Prints /\ out = "console" /\ Head(todo) \in Ink THEN <<Head(todo)>> ELSE << >>
       IN  \/ ShownFrom(Top)' = ShownFrom(Top) \o new
           \/ s_row >= Bottom /\ ShownFrom(Top)' = ShownFrom(Top + 1) \o new]_vars

\* Every log line starts at the beginning of a line of the console, whatever was logged
\* before: an error holds its line break back for the dots and gives it later.
LogLineStartsALine == todo = << >> => s_col = 0

\* What a message is on the console.
Line(m) == Prefix \o m.text \o (IF m.type \in Blinking THEN Dots ELSE << >>)

\* A call that is over has sent its line to the serial port, once and whole, if there is
\* one, and to the console, although each call moves the output to the console.
LineReachesItsReaders ==
    (todo = << >> /\ call # NoCall) =>
        /\ port = IF gPort THEN Prefix \o call.text \o LineEnd(call) ELSE << >>
        /\ LET ending == InOrder(Line(call), {i \in DOMAIN Line(call) : Line(call)[i] \in Ink})
           IN  IsSuffix(ending, text) \/ Len(ending) > Page
=============================================================================
