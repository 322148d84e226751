----------------------------- MODULE TUIViewport -----------------------------
(***************************************************************************)
(* The log pane of the terminal UI (internal/devserver/tui/model.go): it   *)
(* follows the newest line unless the user reads something, and a drag     *)
(* past its edge scrolls by ticks.  A line takes one row; rows count from  *)
(* 0.  The viewport itself (charmbracelet/bubbles) is modelled from its    *)
(* use: SetContent goes to the bottom if the offset lies past the end.     *)
(***************************************************************************)
EXTENDS Integers

CONSTANTS
    Heights,   \* of the pane
    MaxLogs,   \* lines a buffer holds
    MaxTicks   \* bound: ticks in flight

VARIABLES
    total,     \* lines rendered in the active tab
    top,       \* YOffset
    height,
    reading,   \* a search is open in the active tab
    selected,  \* there is a selection
    drag,      \* dragState: active, extend, edge (of lastY) and ticking
    ticks,     \* dragScrollMsgs in flight
    down,      \* the left button is down
    modal,     \* help or palette is open
    away       \* the user has moved away from the bottom (history)

vars == <<total, top, height, reading, selected, drag, ticks, down, modal, away>>

NoDrag == [active |-> FALSE, extend |-> FALSE, edge |-> 0, ticking |-> FALSE]

TypeOK ==
    /\ total \in 0 .. MaxLogs /\ top \in 0 .. MaxLogs /\ height \in Heights
    /\ reading \in BOOLEAN /\ selected \in BOOLEAN /\ down \in BOOLEAN /\ modal \in BOOLEAN
    /\ drag \in [active : BOOLEAN, extend : BOOLEAN, edge : {-1, 0, 1}, ticking : BOOLEAN]
    /\ ticks \in 0 .. MaxTicks

Init ==
    /\ total = 0 /\ top = 0 /\ height \in Heights /\ reading = FALSE /\ selected = FALSE
    /\ drag = NoDrag /\ ticks = 0 /\ down = FALSE /\ modal = FALSE /\ away = FALSE

Larger(a, b)  == IF a > b THEN a ELSE b
Smaller(a, b) == IF a < b THEN a ELSE b

(* No content is one empty row.                                            *)
Bottom(lines, h) == Larger(Larger(lines, 1) - h, 0)
AtTop == top = 0
AtBottom == top >= Bottom(total, height)

(* SetContent, with the new height of the pane.                            *)
Kept(lines, h) == IF top > Larger(lines, 1) - 1 THEN Bottom(lines, h) ELSE top

(* Mutant: whether it is at the bottom is asked of the new content.        *)
RefreshLate(lines, h, wasAtBottom) ==
    top' = IF Kept(lines, h) >= Bottom(lines, h) /\ ~reading' /\ ~selected' THEN Bottom(lines, h) ELSE Kept(lines, h)

(* refreshViewport: follow, unless something is being read.                *)
Refresh(lines, h, wasAtBottom) ==
    top' = IF wasAtBottom /\ ~reading' /\ ~selected' THEN Bottom(lines, h) ELSE Kept(lines, h)

(* What the user did, or is reading, may leave the bottom behind.          *)
ByUser   == away' = (top' < Bottom(total', height'))
ByItself == away' = IF reading \/ selected THEN top' < Bottom(total', height')
                    ELSE away /\ top' < Bottom(total', height')

-----------------------------------------------------------------------------
(* A line arrives; of a full buffer the first is evicted, and the          *)
(* selection may go with it.                                               *)
AppendLine ==
    /\ total' = Smaller(total + 1, MaxLogs)
    /\ selected' \in IF total = MaxLogs THEN {selected, FALSE} ELSE {selected}
    /\ UNCHANGED <<height, reading, drag, ticks, down, modal>>
    /\ Refresh(total', height, AtBottom) /\ ByItself

(* WindowSizeMsg: whoever was at the bottom stays there.                   *)
Resize(h) ==
    /\ h # height /\ height' = h
    /\ UNCHANGED <<total, reading, selected, drag, ticks, down, modal>>
    /\ IF AtBottom THEN top' = Bottom(total, h)
                   ELSE Refresh(total, h, top >= Bottom(total, h))
    /\ ByItself

(* c: the buffer is emptied.                                               *)
ClearTab ==
    /\ ~modal /\ total' = 0 /\ selected' = FALSE
    /\ UNCHANGED <<height, reading, drag, ticks, down, modal>>
    /\ top' = Kept(0, height) /\ ByItself

(* Mutant: another tab is shown where the last one was.                    *)
CycleTabInPlace(lines, search) ==
    /\ ~modal /\ total' = lines /\ reading' = search /\ selected' = FALSE
    /\ UNCHANGED <<height, drag, ticks, down, modal>>
    /\ top' = Kept(lines, height)
    /\ IF search THEN ByUser ELSE ByItself

(* cycleTab: to the bottom of the next tab, or to the match of its search. *)
CycleTab(lines, search) ==
    /\ ~modal /\ total' = lines /\ reading' = search /\ selected' = FALSE
    /\ UNCHANGED <<height, drag, ticks, down, modal>>
    /\ IF search THEN top' \in 0 .. Bottom(lines, height) \cup {Kept(lines, height)} ELSE top' = Bottom(lines, height)
    /\ IF search THEN ByUser ELSE ByItself

(* setDockerTabs removes the active tab: back to hamr's.                   *)
TabRemoved(lines, search) ==
    /\ total' = lines /\ reading' = search /\ selected' = FALSE
    /\ UNCHANGED <<height, drag, ticks, down, modal>>
    /\ Refresh(lines, height, AtBottom)
    /\ IF search THEN ByUser ELSE ByItself

(* Keys and the wheel.                                                     *)
Scroll(by) ==
    /\ ~modal /\ top + by \in 0 .. Bottom(total, height)
    /\ UNCHANGED <<total, height, reading, selected, drag, ticks, down, modal>>
    /\ top' = top + by /\ ByUser

Tail ==
    /\ ~modal
    /\ top' = Bottom(total, height)
    /\ UNCHANGED <<total, height, reading, selected, drag, ticks, down, modal>> /\ ByUser

Search(row) ==
    /\ ~modal /\ reading' = TRUE /\ top' \in {Kept(total, height), Smaller(row, Bottom(total, height))}
    /\ UNCHANGED <<total, height, selected, drag, ticks, down, modal>> /\ ByUser

(* esc drops the selection, then the search.                               *)
Escape ==
    /\ ~modal /\ (selected \/ reading)
    /\ selected' = FALSE /\ reading' = (reading /\ selected)
    /\ UNCHANGED <<total, height, drag, ticks, down, modal>>
    /\ Refresh(total, height, AtBottom) /\ ByUser

Modal ==
    /\ modal' = ~modal
    /\ UNCHANGED <<total, top, height, reading, selected, drag, ticks, down, away>>

-----------------------------------------------------------------------------
(* Dragging.                                                               *)

CanScroll(edge) == (edge = -1 /\ top' > 0) \/ (edge = 1 /\ top' < Bottom(total, height))

(* startDrag: a press on a row that shows a line.                          *)
Press(row, ctrl) ==
    /\ ~down /\ down' = TRUE
    /\ UNCHANGED <<total, height, reading, ticks, modal>>
    /\ IF modal \/ top + row >= total THEN UNCHANGED <<top, selected, drag, away>>
       ELSE /\ selected' \in IF ctrl THEN BOOLEAN ELSE {TRUE}
            /\ drag' = [NoDrag EXCEPT !.active = TRUE, !.extend = ~ctrl]
            /\ Refresh(total, height, AtBottom) /\ ByUser

(* continueDrag: to a row of the pane, or past its edge.                   *)
Motion(edge) ==
    /\ down /\ ~modal /\ drag.active /\ drag.extend
    /\ selected' = (selected \/ total > 0)
    /\ UNCHANGED <<total, height, reading, down, modal>>
    /\ Refresh(total, height, AtBottom)
    /\ LET starts == ~drag.ticking /\ CanScroll(edge)
       IN /\ drag' = [drag EXCEPT !.edge = edge, !.ticking = @ \/ starts]
          /\ ticks' = IF starts THEN ticks + 1 ELSE ticks
          /\ ticks' <= MaxTicks
    /\ ByUser

(* Mutant: a modal takes the release too.                                  *)
ReleaseUnlessModal ==
    /\ down /\ down' = FALSE
    /\ drag' = IF modal THEN drag ELSE NoDrag
    /\ UNCHANGED <<total, top, height, reading, selected, ticks, modal, away>>

(* endDrag, whether a modal is open or not.                                *)
Release ==
    /\ down /\ down' = FALSE
    /\ drag' = NoDrag
    /\ UNCHANGED <<total, top, height, reading, selected, ticks, modal, away>>

(* Mutant: a tick always schedules the next.                               *)
ChainGoesOn == ticks' = ticks /\ drag' = drag

(* The chain of ticks ends.                                                *)
ChainEnds == ticks' = ticks - 1 /\ drag' = [drag EXCEPT !.ticking = FALSE]

(* tickDrag: scroll one line toward the cursor and extend to it.           *)
Tick ==
    /\ ticks > 0
    /\ UNCHANGED <<total, height, reading, down, modal>>
    /\ IF drag.active /\ drag.extend /\ drag.edge # 0 /\ ~(drag.edge = -1 /\ AtTop) /\ ~(drag.edge = 1 /\ AtBottom)
       THEN /\ top' = top + drag.edge /\ selected' = (selected \/ total > 0)
            /\ IF CanScroll(drag.edge) THEN UNCHANGED <<ticks, drag>> ELSE ChainEnds
       ELSE UNCHANGED <<top, selected>> /\ ChainEnds
    /\ ByUser

Next ==
    \/ AppendLine \/ ClearTab \/ Tail \/ Escape \/ Modal \/ Release \/ Tick
    \/ \E h \in Heights : Resize(h)
    \/ \E lines \in 0 .. MaxLogs, search \in BOOLEAN : CycleTab(lines, search) \/ TabRemoved(lines, search)
    \/ \E by \in {-1, 1} : Scroll(by)
    \/ \E row \in 0 .. MaxLogs : Search(row)
    \/ \E row \in 0 .. MaxLogs, ctrl \in BOOLEAN : Press(row, ctrl)
    \/ \E edge \in {-1, 0, 1} : Motion(edge)

(* The program delivers its timers.                                        *)
Spec == Init /\ [][Next]_vars /\ WF_vars(Tick)

-----------------------------------------------------------------------------
(* The pane shows the newest line through new lines, evictions, changes of *)
(* size and of tabs, unless the user reads something or has moved away     *)
(* (876-882).                                                              *)
Tailing == AtBottom \/ away \/ reading \/ selected

(* A drag ends with its button, whatever modal opened meanwhile (395-396). *)
DragEndsWithButton == ~down => ~drag.active

(* A drag that is marked as scrolling by itself has a tick in flight: the  *)
(* flag keeps motions from starting another chain, so were it left behind  *)
(* by a chain that ended at the edge, inside the pane or with a former     *)
(* drag, no motion could scroll for the rest of this one (1236-1265).      *)
(* The converse is not promised: a drag held below the pane at the bottom  *)
(* has ended its chain, and a line that then gives it room starts none     *)
(* until the mouse moves (1224-1232, 1267-1276).                           *)
FlagMeansChain == drag.ticking => ticks > 0

(* The invariant: types, the tail and the drag.                            *)
Inv == TypeOK /\ Tailing /\ DragEndsWithButton /\ FlagMeansChain

(* No tick outlives its drag for long (1196-1199).                         *)
Ticking == ticks > 0 /\ ~down
=============================================================================
