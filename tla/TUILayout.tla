------------------------------ MODULE TUILayout ------------------------------
(***************************************************************************)
(* The layout of the terminal UI (internal/devserver/tui: wrap.go,         *)
(* selection.go, model.go).  Long log lines are cut into rows, a click is  *)
(* mapped back from a row to its line, the two bars fill the width, and a  *)
(* modal lies between them.                                                *)
(*                                                                         *)
(* A line is a sequence of characters: "esc", "[", "9", which does not end *)
(* an escape sequence, and "m", which does.  Parts of a bar and of a modal *)
(* are their widths and heights.                                           *)
(***************************************************************************)
EXTENDS Integers, Sequences, SequencesExt, FiniteSetsExt

CONSTANTS
    MaxLength,  \* bound: characters of the line that grows
    Others,     \* lines it may stand above
    Widths, Heights,
    Parts,      \* widths of the parts of a bar
    HelpRows,   \* entries of the help
    MaxHits     \* bound: rows the palette finds

VARIABLES
    what,                     \* of the three is looked at: rows, bars or modals
    line, other, width,       \* two log lines, and the columns they have
    left, right, status,      \* parts of the bottom bar
    height, hits, cursor      \* the palette's list and cursor, under the height

vars == <<what, line, other, width, left, right, status, height, hits, cursor>>

Characters == {"esc", "[", "9", "m"}

TypeOK ==
    /\ what \in {"rows", "bars", "modals"}
    /\ line \in Seq(Characters) /\ Len(line) <= MaxLength /\ other \in Others
    /\ width \in Widths /\ height \in Heights
    /\ left \in Parts /\ right \in Parts /\ status \in Parts
    /\ hits \in 0 .. MaxHits /\ cursor \in 0 .. MaxHits

Init ==
    /\ what \in {"rows", "bars", "modals"}
    /\ line = <<>> /\ other \in Others /\ width = Min(Widths) /\ height = Min(Heights)
    /\ left = Min(Parts) /\ right = Min(Parts) /\ status = Min(Parts) /\ hits = 0 /\ cursor = 0

-----------------------------------------------------------------------------
(* Rows.                                                                   *)

(* Where an escape sequence stands after one more character.               *)
Mode(mode, c) ==
    CASE mode = "csi"              -> IF c \in {"m", "["} THEN "text" ELSE "csi"
      [] mode = "esc" /\ c = "["   -> "csi"
      [] c = "esc" /\ mode # "csi" -> "esc"
      [] OTHER                     -> "text"

Visible(mode, c) == mode # "csi" /\ c # "esc" /\ ~(mode = "esc" /\ c = "[")

(* hardwrap: the chunks, each but the last ended by a reset.               *)
Hardwrap(s, w) ==
    LET Step(acc, c) ==
          LET full == Visible(acc.mode, c) /\ w > 0 /\ acc.visible = w
              done == IF full THEN Append(acc.done, Append(acc.chunk, "reset")) ELSE acc.done
              seen == IF full THEN 0 ELSE acc.visible
          IN [mode    |-> Mode(acc.mode, c), done |-> done,
              chunk   |-> Append(IF full THEN <<>> ELSE acc.chunk, c),
              visible |-> IF Visible(acc.mode, c) THEN seen + 1 ELSE seen]
        end == FoldLeft(Step, [mode |-> "text", done |-> <<>>, chunk |-> <<>>, visible |-> 0], s)
    IN Append(end.done, end.chunk)

(* Mutant: escape sequences take columns.                                  *)
VisualRowCountOfBytes(s, w) == IF w <= 0 THEN 1 ELSE 1 + Max({0, Len(s) - 1}) \div w

(* visualRowCount: the same account of columns, without the chunks.        *)
VisualRowCount(s, w) ==
    LET Step(acc, c) ==
          IF ~Visible(acc.mode, c) THEN [acc EXCEPT !.mode = Mode(@, c)]
          ELSE [mode    |-> Mode(acc.mode, c),
                rows    |-> IF acc.visible = w THEN acc.rows + 1 ELSE acc.rows,
                visible |-> IF acc.visible = w THEN 1 ELSE acc.visible + 1]
    IN IF w <= 0 THEN 1 ELSE FoldLeft(Step, [mode |-> "text", rows |-> 1, visible |-> 0], s).rows

Lines == <<line, other>>

(* renderWithSelection: the rows, each with the number of its line.        *)
Rendered == FlattenSeq([i \in 1 .. 2 |-> [k \in 1 .. Len(Hardwrap(Lines[i], width)) |-> i]])

(* visualRowToLine; 0 is past the end (-1 in the code).                    *)
VisualRowToLine(row) ==
    IF width <= 0 \/ row < 0 THEN 0
    ELSE IF row < VisualRowCount(line, width) THEN 1
    ELSE IF row < VisualRowCount(line, width) + VisualRowCount(other, width) THEN 2
    ELSE 0

(* matchVisualRow: the first row of a line.                                *)
MatchVisualRow(i) == IF i = 1 THEN 0 ELSE VisualRowCount(line, width)

-----------------------------------------------------------------------------
(* Bars.  A fitted part is as wide as asked for.                           *)

(* Mutant: what is too long is not cut.                                    *)
FitBarLeftUncut(part, w) == IF part <= w THEN w ELSE part

(* fitBarLeft: padded or truncated.                                        *)
FitBarLeft(part, w) == IF part <= w THEN part + (w - part) ELSE w

(* statusWidth: the columns the marquee of the status may take.            *)
StatusWidth(w) == Max({Min({32, w \div 3}), 10})

StatusBar ==
    IF width - left - right < 1 THEN FitBarLeft(left, width)
    ELSE left + (width - left - right) + right

(* bottomBar: its width, and what of the status it shows.                  *)
BottomBar ==
    LET avail == width - status - 3
    IN IF avail < 1 THEN [total |-> FitBarLeft(status, width), shown |-> Min({status, width})]
       ELSE IF right > 0 /\ avail - left - right >= 1
            THEN [total |-> left + (avail - left - right) + right + 3 + status, shown |-> status]
       ELSE [total |-> FitBarLeft(left, avail) + 3 + status, shown |-> status]

-----------------------------------------------------------------------------
(* Modals.                                                                 *)

Frame == 1 + Max({height - 2, 1}) + 1
Available == Max({height - 2, 1})

(* Mutant: no row is kept for the line that says how many are hidden.      *)
HelpShownAll == Max({Min({HelpRows, Available - 8}), 1})

(* helpView: the entries it shows, under the row that counts the others.   *)
HelpShown ==
    LET avail == Available - 8
    IN IF avail >= HelpRows THEN HelpRows
       ELSE IF avail > 1 THEN avail - 1 ELSE 1
HelpHeight == 8 + HelpShown + (IF HelpShown < HelpRows THEN 1 ELSE 0)

(* paletteView.                                                            *)
MaxRows == Max({Min({Available - 11, 12}), 1})

(* Mutant: the window slides one row late.                                 *)
WindowStartLate == IF cursor > MaxRows THEN cursor - MaxRows ELSE 0

WindowStart == IF cursor >= MaxRows THEN cursor - MaxRows + 1 ELSE 0
WindowEnd == Min({WindowStart + MaxRows, hits})
PaletteHeight ==
    10 + (IF hits = 0 THEN 1 ELSE WindowEnd - WindowStart) + (IF hits > MaxRows THEN 1 ELSE 0)

(* overlay: the rows of the screen that the modal's rows replace.          *)
Overlaid(rows) ==
    LET start == Max({IF rows > height THEN 0 ELSE (height - rows) \div 2, 1})
    IN {start + i : i \in 0 .. rows - 1} \cap 0 .. Max({Frame, height}) - 2

-----------------------------------------------------------------------------
Log(c) ==
    /\ what = "rows" /\ Len(line) < MaxLength /\ line' = Append(line, c)
    /\ UNCHANGED <<what, other, width, left, right, status, height, hits, cursor>>
Widen(w) ==
    /\ what \in {"rows", "bars"} /\ width' = w
    /\ UNCHANGED <<what, line, other, left, right, status, height, hits, cursor>>
Heighten(h) ==
    /\ what = "modals" /\ height' = h
    /\ UNCHANGED <<what, line, other, width, left, right, status, hits, cursor>>
Bars(l, r, s) ==
    /\ what = "bars" /\ left' = l /\ right' = r /\ status' = s
    /\ UNCHANGED <<what, line, other, width, height, hits, cursor>>
Type(n) ==
    /\ what = "modals" /\ hits' = n /\ cursor' = 0
    /\ UNCHANGED <<what, line, other, width, left, right, status, height>>
Down ==
    /\ what = "modals" /\ cursor < hits - 1 /\ cursor' = cursor + 1
    /\ UNCHANGED <<what, line, other, width, left, right, status, height, hits>>

Next ==
    \/ \E c \in Characters : Log(c)
    \/ \E w \in Widths : Widen(w)
    \/ \E h \in Heights : Heighten(h)
    \/ \E l, r, s \in Parts : Bars(l, r, s)
    \/ \E n \in 0 .. MaxHits : Type(n)
    \/ Down

Spec == Init /\ [][Next]_vars

-----------------------------------------------------------------------------
Unbroken(s) == SelectSeq(s, LAMBDA c : c # "reset")

(* Cutting a line loses nothing, and what is said of its rows elsewhere is *)
(* true of them: how many they are, which line a clicked row belongs to,   *)
(* and where the line of a match begins ("so the row math always agrees",  *)
(* selection.go 260-263).                                                  *)
RowsAgree ==
    /\ \A i \in 1 .. 2 :
         /\ FlattenSeq([k \in DOMAIN Hardwrap(Lines[i], width) |-> Unbroken(Hardwrap(Lines[i], width)[k])]) = Lines[i]
         /\ VisualRowCount(Lines[i], width) = Len(Hardwrap(Lines[i], width))
         /\ width > 0 => Rendered[MatchVisualRow(i) + 1] = i
    /\ width > 0 => \A row \in 0 .. Len(Rendered) :
                      VisualRowToLine(row) = (IF row < Len(Rendered) THEN Rendered[row + 1] ELSE 0)

(* A bar is as wide as the terminal, and the status is the last thing to   *)
(* give way: a marquee, or "restarting", fits 16 columns (1657-1665,       *)
(* 2000-2004).                                                             *)
BarsFill ==
    /\ StatusBar = width /\ BottomBar.total = width
    /\ width >= status + 4 => BottomBar.shown = status
    /\ width >= 16 /\ status <= Max({StatusWidth(width), 12}) => BottomBar.shown = status

(* A modal leaves the two bars visible, is shown whole where it can be,    *)
(* and the palette's cursor is in its window (1560-1576, 2106-2110).       *)
ModalsFit ==
    /\ height >= 3 => Frame = height
    /\ \A rows \in {HelpHeight, PaletteHeight} : height >= 3 => Overlaid(rows) \subseteq 1 .. height - 2
    /\ height >= 12 => Cardinality(Overlaid(HelpHeight)) = HelpHeight
    /\ height >= 14 => Cardinality(Overlaid(PaletteHeight)) = PaletteHeight
    /\ hits > 0 => cursor \in WindowStart .. WindowEnd - 1

(* The invariant: types, rows, bars and modals.                            *)
Inv == TypeOK /\ RowsAgree /\ BarsFill /\ ModalsFit
=============================================================================
