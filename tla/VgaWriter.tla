----------------------------- MODULE VgaWriter -----------------------------
(***************************************************************************)
(* The Writer of src/vga_buffer.rs: it writes into the last row of the VGA *)
(* text buffer, and moves everything one row up for a new line.  A call    *)
(* runs under the lock of WRITER with interrupts disabled, so it is one    *)
(* step.  text is a history variable: the bytes the screen has to show.    *)
(***************************************************************************)
EXTENDS Integers, Sequences, SequencesExt

CONSTANTS
  BUFFER_HEIGHT, BUFFER_WIDTH,  \* 25 and 80
  Bytes,                        \* bytes that are written
  Strings,                      \* strings, sequences of bytes, that are written
  MaxText                       \* bound: bytes written in all

ASSUME VgaAssumption ==
  /\ BUFFER_HEIGHT \in Nat \ {0} /\ BUFFER_WIDTH \in Nat \ {0}
  /\ Bytes \subseteq 0 .. 255 /\ Strings \subseteq Seq(0 .. 255) /\ MaxText \in Nat

VARIABLES
  chars,            \* the buffer
  column_position,
  text

vgaVars == <<chars, column_position, text>>

Rows == 0 .. BUFFER_HEIGHT - 1
Cols == 0 .. BUFFER_WIDTH - 1

NewLine == 10
Space   == 32
Square  == 254   \* what write_string shows for unprintable bytes

(* ColorCode::new, and the WRITER's yellow on red.                         *)
ColorCode(foreground, background) == background * 16 + foreground
color_code == ColorCode(14, 4)

ScreenChar(byte, color) == [ascii_character |-> byte, color_code |-> color]

(* What the firmware left on the screen: every row is different.           *)
FirmwareChar(row) == ScreenChar(row, ColorCode(7, 0))

VgaInit ==
  /\ chars = [r \in Rows |-> [c \in Cols |-> FirmwareChar(r)]]
  /\ column_position = 0
  /\ text = << >>

-----------------------------------------------------------------------------
BlankRow == [c \in Cols |-> ScreenChar(Space, color_code)]

(* Mutant of new_line: clear_row is left out.                              *)
new_line_uncleared(w) ==
  [chars |-> [r \in Rows |-> w.chars[IF r + 1 \in Rows THEN r + 1 ELSE r]],
   column_position |-> 0]

(* new_line with clear_row, on a writer w.                                 *)
new_line(w) ==
  [chars |-> [r \in Rows |-> IF r + 1 \in Rows THEN w.chars[r + 1] ELSE BlankRow],
   column_position |-> 0]

LineFull(w) == w.column_position >= BUFFER_WIDTH

(* write_byte.                                                             *)
write_byte(w, byte) ==
  IF byte = NewLine THEN new_line(w)
  ELSE LET v == IF LineFull(w) THEN new_line(w) ELSE w
       IN [chars |-> [v.chars EXCEPT ![BUFFER_HEIGHT - 1][v.column_position] =
                        ScreenChar(byte, color_code)],
           column_position |-> v.column_position + 1]

(* write_string: which bytes it passes to write_byte.                      *)
Shown(byte) == IF byte \in 32 .. 126 \/ byte = NewLine THEN byte ELSE Square

Writer == [chars |-> chars, column_position |-> column_position]

Becomes(w, written) ==
  /\ chars' = w.chars /\ column_position' = w.column_position
  /\ text' = text \o written

WriteByte(byte) ==
  /\ Len(text) < MaxText
  /\ Becomes(write_byte(Writer, byte), <<byte>>)

(* write_string, byte by byte.                                             *)
WriteString(s) ==
  LET bytes == [i \in DOMAIN s |-> Shown(s[i])]
      after[i \in 0 .. Len(s)] ==
        IF i = 0 THEN Writer ELSE write_byte(after[i - 1], bytes[i])
  IN /\ Len(text) + Len(s) <= MaxText
     /\ Becomes(after[Len(s)], bytes)

VgaNext ==
  \/ \E byte \in Bytes : WriteByte(byte)
  \/ \E s \in Strings : WriteString(s)

VgaSpec == VgaInit /\ [][VgaNext]_vgaVars

-----------------------------------------------------------------------------
(***************************************************************************)
(* The reference: where the bytes of a text t belong.  Each paragraph is   *)
(* cut into lines of BUFFER_WIDTH bytes; a paragraph that ends exactly at  *)
(* the end of a line takes no further line.  Lines are counted from 0.     *)
(***************************************************************************)
Breaks(t, n) == {i \in 1 .. n : t[i] = NewLine}

(* Bytes between the last line break before n and n, n excluded.           *)
Column(t, n) ==
  LET b == Breaks(t, n - 1) IN n - 1 - (IF b = {} THEN 0 ELSE Max(b))

LinesOf(length) ==
  IF length = 0 THEN 1 ELSE (length + BUFFER_WIDTH - 1) \div BUFFER_WIDTH

(* The lines of the paragraphs that end before n, by the break that ends   *)
(* the paragraph and their number in it.                                   *)
LinesBefore(t, n) ==
  UNION {{b} \X (1 .. LinesOf(Column(t, b))) : b \in Breaks(t, n - 1)}

FirstLine(t, n) == Cardinality(LinesBefore(t, n))

LineOf(t, n) == FirstLine(t, n) + Column(t, n) \div BUFFER_WIDTH

(* The line that is being written, and the bytes of it.                    *)
Wrapped(t)  == LinesOf(Column(t, Len(t) + 1)) - 1
LastLine(t) == FirstLine(t, Len(t) + 1) + Wrapped(t)
LastCol(t)  == Column(t, Len(t) + 1) - Wrapped(t) * BUFFER_WIDTH

(* The bytes that belong to column c of a line.                            *)
BytesAt(t, line, c) ==
  {i \in DOMAIN t : /\ t[i] # NewLine /\ LineOf(t, i) = line
                    /\ Column(t, i) % BUFFER_WIDTH = c}

(* x is what column c of a line has to show: its byte, or else a blank; on *)
(* the first line, and above it, what the firmware left.                   *)
Shows(t, line, c, x) ==
  IF BytesAt(t, line, c) # {}
    THEN \A i \in BytesAt(t, line, c) : x = ScreenChar(t[i], color_code)
  ELSE IF line > 0
    THEN x = ScreenChar(Space, color_code)
  ELSE x = FirmwareChar(BUFFER_HEIGHT - 1 + line)

(* What a writer w that wrote the text t has to show.                      *)
Displays(w, t) ==
  /\ w.column_position = LastCol(t)
  /\ \A r \in Rows, c \in Cols :
       Shows(t, LastLine(t) - (BUFFER_HEIGHT - 1 - r), c, w.chars[r][c])

(***************************************************************************)
(* The screen shows the end of the text: the last row is the last line,    *)
(* each row above it the line before, every byte in its place, and blanks  *)
(* right of it.  Above the first line, and right of it, is what the        *)
(* firmware left.                                                          *)
(***************************************************************************)
ScreenShowsText == Displays(Writer, text)
=============================================================================
