------------------------------ MODULE VgaText -------------------------------
(***************************************************************************)
(* The text consoles: VgaTextDriver of drivers/graphics/src/lib.rs, with   *)
(* its requests, power events and global instance, and the kernel's Writer *)
(* (kernel/src/vga_buffer.rs), which is the same code except that it       *)
(* writes on the last row only.  One of the two owns the screen in a       *)
(* behaviour.  A character cell keeps its colour; reading the status and   *)
(* refused requests change nothing and are no steps.                       *)
(***************************************************************************)
EXTENDS Integers, Sequences, SequencesExt

CONSTANTS
    Height, Width,    \* 25 and 80 in the code
    Strings,          \* texts, as sequences of bytes
    Colors, DefaultColor,
    Banner,           \* the text init writes
    MaxText           \* bound: bytes written since the screen was cleared

VgaAssumption ==
    /\ {Height, Width} \subseteq Nat \ {0} /\ MaxText \in Nat
    /\ DefaultColor \in Colors

VARIABLES
    owner,     \* "driver" or "kernel"
    vga,       \* [chars, row, col, color]: the buffer and the writer's fields
    status,    \* the driver's status
    text,      \* not in the code: what was written since the screen was cleared, until
    moved      \* not in the code: the cursor was set since

vars == <<owner, vga, status, text, moved>>

Newline == "\n"
Cell(c, color) == [char |-> c, color |-> color]
Cleared(color) == [r \in 0 .. Height - 1 |-> [c \in 0 .. Width - 1 |-> Cell(" ", color)]]

clear_screen(v) == [v EXCEPT !.chars = Cleared(v.color), !.row = 0, !.col = 0]

\* Mutant: the row that scrolled in is not cleared
new_line_dirty(v) ==
    IF v.row >= Height - 1
    THEN [v EXCEPT !.chars = [r \in 0 .. Height - 1 |-> IF r = Height - 1 THEN @[r] ELSE @[r + 1]],
                   !.col = 0]
    ELSE [v EXCEPT !.row = @ + 1, !.col = 0]

new_line(v) ==
    IF v.row >= Height - 1
    THEN [v EXCEPT !.chars = [r \in 0 .. Height - 1 |->
                                IF r = Height - 1 THEN Cleared(v.color)[r] ELSE @[r + 1]],
                   !.col = 0]
    ELSE [v EXCEPT !.row = @ + 1, !.col = 0]

write_byte(v, byte) ==
    IF byte = Newline THEN new_line(v)
    ELSE LET w == IF v.col >= Width THEN new_line(v) ELSE v
         IN  [w EXCEPT !.chars[w.row][w.col] = Cell(byte, w.color), !.col = @ + 1]

\* what is not printable is shown as a block
Printable(byte) == IF byte \in {"NUL", "DEL"} THEN "block" ELSE byte
write_string(v, s) == FoldLeft(LAMBDA w, byte : write_byte(w, Printable(byte)), v, s)

Written(s, color) == [i \in DOMAIN s |-> Cell(Printable(s[i]), color)]

Fresh(row) == [chars |-> Cleared(DefaultColor), row |-> row, col |-> 0, color |-> DefaultColor]

\* The kernel's Writer starts, and stays, on the last row
Init ==
    /\ owner \in {"driver", "kernel"}
    /\ vga = Fresh(IF owner = "kernel" THEN Height - 1 ELSE 0)
    /\ status = "Uninitialized" /\ text = << >> /\ moved = FALSE

Keep == UNCHANGED owner

\* the driver's init, on a new driver (init_vga_driver) or on the present one (Initialize)
InitOn(v) ==
    LET w == [clear_screen(v) EXCEPT !.color = DefaultColor]
    IN  /\ owner = "driver" /\ Keep
        /\ vga' = write_string(w, Banner) /\ text' = Written(Banner, DefaultColor)
        /\ status' = "Ready" /\ moved' = FALSE
init == InitOn(vga)
init_vga_driver == InitOn([vga EXCEPT !.row = 0, !.col = 0, !.color = DefaultColor])

\* Write requests and vga_write; _print for the kernel
write(s) ==
    /\ Len(text) + Len(s) <= MaxText /\ Keep
    /\ vga' = write_string(vga, s)
    /\ text' = IF moved THEN text ELSE text \o Written(s, vga.color)
    /\ UNCHANGED <<status, moved>>

set_color(color) ==
    /\ owner = "driver" /\ Keep
    /\ vga' = [vga EXCEPT !.color = color] /\ UNCHANGED <<status, text, moved>>

\* a position outside the screen is ignored
set_cursor(row, col) ==
    /\ owner = "driver" /\ Keep
    /\ row < Height /\ col < Width
    /\ vga' = [vga EXCEPT !.row = row, !.col = col] /\ moved' = TRUE /\ text' = << >>
    /\ UNCHANGED status

Clear(new_status) ==
    /\ owner = "driver" /\ Keep
    /\ vga' = clear_screen(vga) /\ status' = new_status
    /\ text' = << >> /\ moved' = FALSE

handle_request ==
    \/ init
    \/ \E color \in Colors : set_color(color)
    \/ \E row \in 0 .. Height, col \in 0 .. Width : set_cursor(row, col)
    \/ Clear(status)

handle_power_event ==
    \/ owner = "driver" /\ status' = "Suspended" /\ UNCHANGED <<owner, vga, text, moved>>
    \/ Clear("Ready")
    \/ Clear("Uninitialized")

Next ==
    \/ \E s \in Strings : write(s)
    \/ init_vga_driver \/ handle_request \/ handle_power_event

Spec == Init /\ [][Next]_vars
-----------------------------------------------------------------------------
\* The layout of a text: its paragraphs end at the newlines, and each takes as many rows as
\* its length needs, at least one.
Rows ==
    LET ends == SetToSortSeq({i \in DOMAIN text : text[i].char = Newline} \cup {Len(text) + 1},
                             LAMBDA a, b : a < b)
        Paragraph(k) == SubSeq(text, IF k = 1 THEN 1 ELSE ends[k - 1] + 1, ends[k] - 1)
        Needed(p) == IF p = << >> THEN 1 ELSE (Len(p) + Width - 1) \div Width
        Wrapped(p) == [j \in 1 .. Needed(p) |->
                         SubSeq(p, (j - 1) * Width + 1,
                                IF j * Width < Len(p) THEN j * Width ELSE Len(p))]
    IN  FlattenSeq([k \in DOMAIN ends |-> Wrapped(Paragraph(k))])

ShowsRow(r, row) ==
    \A c \in 0 .. Width - 1 :
        IF c < Len(row) THEN vga.chars[r][c] = row[c + 1] ELSE vga.chars[r][c].char = " "

\* As long as nobody moves the cursor, the screen shows the last rows of all that was written
\* since it was cleared, wrapped at the width, each character in the colour of its time: the
\* driver's from the top until the screen is full, the kernel's from the bottom.  The cursor
\* is where the text ends, and never outside the screen.
ScreenShowsText ==
    LET rows == Rows
        n == Len(rows)
        top == IF owner = "kernel" \/ n > Height THEN n - Height ELSE 0
    IN  /\ vga.row \in 0 .. Height - 1 /\ vga.col \in 0 .. Width
        /\ ~ moved =>
            /\ \A r \in 0 .. Height - 1 :
                ShowsRow(r, IF top + r + 1 \in 1 .. n THEN rows[top + r + 1] ELSE << >>)
            /\ vga.row = n - 1 - top /\ vga.col = Len(rows[n])
=============================================================================
