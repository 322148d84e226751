------------------------------- MODULE TUIKeys -------------------------------
(***************************************************************************)
(* Keys in the terminal UI (internal/devserver/tui: model.go, palette.go,  *)
(* help.go, hotkeys.go): help, the command palette, a search prompt, a     *)
(* selection and a committed search each take some of them before the      *)
(* bindings do.  Commands leave through a bounded channel to the runner.   *)
(*                                                                         *)
(* What fuzzy matching finds is given by Finds, and its ranking is open:   *)
(* the row under the cursor may be any match.  A palette entry is the key  *)
(* it stands for, or a make target.                                        *)
(***************************************************************************)
EXTENDS Naturals, Sequences, SequencesExt, FiniteSets

CONSTANTS
    Tabs,     \* log tabs, 0 is hamr's
    Targets,  \* what the Makefile may define
    Gated,    \* keys of entries that are offered once their feature is known
    Queries, Parent, Finds,  \* texts typed, without their last character, and what each finds
    MakePrefix,              \* the query of `m`
    Cap       \* of the hotkey channel (8 in the code)

VARIABLES
    help, palette,    \* helpState, paletteState
    view, stage,      \* the active tab; the stage of each tab's search
    selected,         \* the selection has lines
    known, makefile,  \* features known; targets in the Makefile
    hotkeys,          \* HotkeySource.ch
    asked             \* ctrl+c was pressed while the channel had room (history)

vars == <<help, palette, view, stage, selected, known, makefile, hotkeys, asked>>

NoPalette == [open |-> FALSE, entries |-> {}, query |-> "", cursor |-> 0]
Always    == {"r", "R", "o", "c", "?", "q"}
Commands  == {"r", "R", "o", "q"} \cup Gated

TypeOK ==
    /\ help \in BOOLEAN /\ selected \in BOOLEAN /\ asked \in BOOLEAN
    /\ palette.open \in BOOLEAN /\ palette.entries \subseteq Always \cup Gated \cup Targets
    /\ palette.query \in Queries /\ palette.cursor \in Nat
    /\ view \in Tabs /\ stage \in [Tabs -> {"closed", "prompting", "active"}]
    /\ known \subseteq Gated /\ makefile \subseteq Targets
    /\ hotkeys \in Seq(Commands) /\ Len(hotkeys) <= Cap

Init ==
    /\ help = FALSE /\ palette = NoPalette /\ view = 0 /\ stage = [t \in Tabs |-> "closed"]
    /\ selected = FALSE /\ known = {} /\ makefile \in {{}, Targets} /\ hotkeys = <<>> /\ asked = FALSE

-----------------------------------------------------------------------------
(* Send drops what does not fit.                                           *)
Send(action) == hotkeys' = IF Len(hotkeys) < Cap THEN Append(hotkeys, action) ELSE hotkeys

(* paletteEntries reads the Makefile each time.                            *)
Entries == Always \cup known \cup makefile
Hits(p) == IF p.query = "" THEN p.entries ELSE p.entries \cap Finds[p.query]
Opened(query) == [open |-> TRUE, entries |-> Entries, query |-> query, cursor |-> 0]

(* runBinding: what a key does, pressed or chosen in the palette.  The     *)
(* palette is what it was before, or closed by the choice.                 *)
Binding(key, before) ==
    /\ IF key \in Commands THEN Send(key)
       ELSE IF key = "ctrl+c" THEN Send("q") ELSE UNCHANGED hotkeys
    /\ help' = IF key = "?" THEN ~help ELSE help
    /\ palette' = IF key = ":" THEN Opened("")
                  ELSE IF key = "m" /\ Hits(Opened(MakePrefix)) # {} THEN Opened(MakePrefix) ELSE before
    /\ IF key = "tab" THEN view' \in Tabs /\ (Cardinality(Tabs) > 1 => view' # view) ELSE UNCHANGED view
    /\ selected' = (selected /\ key # "c" /\ view' = view)
    /\ stage' = IF key = "/" THEN [stage EXCEPT ![view] = "prompting"] ELSE stage

Quit == /\ Send("q") /\ UNCHANGED <<help, palette, view, stage, selected>>

(* Mutant: any key closes the help, and does no more.                      *)
HelpKeyTakesAll(key) ==
    /\ help' = FALSE /\ UNCHANGED <<palette, view, stage, selected, hotkeys>>

(* Any key closes the help; ctrl+c quits and leaves it open.               *)
HelpKey(key) ==
    IF key = "ctrl+c" THEN Quit
    ELSE help' = FALSE /\ UNCHANGED <<palette, view, stage, selected, hotkeys>>

SetPalette(p) == palette' = p /\ UNCHANGED <<help, view, stage, selected, hotkeys>>
Moved(n) == SetPalette([palette EXCEPT !.cursor = n])

(* Mutant: the cursor stays in its row while the list under it shrinks.    *)
RetypedInPlace(query) == SetPalette([palette EXCEPT !.query = query])

Retyped(query) == SetPalette([palette EXCEPT !.query = query, !.cursor = 0])

(* Mutant: the entry runs under the palette, which closes after.           *)
ConfirmStillOpen ==
    IF palette.cursor >= Cardinality(Hits(palette)) THEN SetPalette(palette)
    ELSE \E entry \in Hits(palette) : IF entry \in Targets THEN SetPalette(NoPalette) ELSE Binding(entry, palette)

(* enter closes the palette, then runs the target or replays the key.      *)
Confirm ==
    IF palette.cursor >= Cardinality(Hits(palette)) THEN SetPalette(palette)
    ELSE \E entry \in Hits(palette) :
           IF entry \in Targets THEN SetPalette(NoPalette) ELSE Binding(entry, NoPalette)

PaletteKey(key) ==
    IF key = "ctrl+c" THEN Quit
    ELSE \/ key = "esc"   /\ SetPalette(NoPalette)
         \/ key = "enter" /\ Confirm
         \/ key = "up"    /\ Moved(IF palette.cursor > 0 THEN palette.cursor - 1 ELSE 0)
         \/ key = "down"  /\ Moved(IF palette.cursor + 1 < Cardinality(Hits(palette)) THEN palette.cursor + 1
                                   ELSE palette.cursor)
         \/ key = "backspace" /\ IF palette.query = "" THEN SetPalette(palette) ELSE Retyped(Parent[palette.query])
         \/ key = "text"  /\ \E q \in Queries \ {""} : Parent[q] = palette.query /\ Retyped(q)

SetStage(s) == stage' = [stage EXCEPT ![view] = s] /\ UNCHANGED <<help, palette, view, selected, hotkeys>>

(* While a search is typed every key is the query's.                       *)
PromptKey(key) ==
    IF key = "ctrl+c" THEN Quit
    ELSE \/ key = "enter" /\ \E s \in {"active", "closed"} : SetStage(s)
         \/ key = "esc"   /\ SetStage("closed")

(* The selection goes before the search; a copy that fails keeps it.       *)
PlainKey(key) ==
    IF selected /\ key \in {"y", "esc"}
    THEN /\ selected' \in IF key = "y" THEN BOOLEAN ELSE {FALSE}
         /\ UNCHANGED <<help, palette, view, stage, hotkeys>>
    ELSE IF stage[view] = "active" /\ key = "esc" THEN SetStage("closed")
    ELSE Binding(key, palette)

Keys == {"r", "R", "c", "?", "q", ":", "m", "/", "tab", "ctrl+c", "esc", "enter", "y",
         "up", "down", "backspace", "text"} \cup Gated

(* handleKey.                                                              *)
Press(key) ==
    /\ asked' = (asked \/ (key = "ctrl+c" /\ Len(hotkeys) < Cap))
    /\ UNCHANGED <<known, makefile>>
    /\ IF help THEN HelpKey(key)
       ELSE IF palette.open THEN PaletteKey(key)
       ELSE IF stage[view] = "prompting" THEN PromptKey(key)
       ELSE PlainKey(key)

-----------------------------------------------------------------------------
(* Around it.                                                              *)

(* A click, the tick of a drag, or an eviction from a full buffer.         *)
Select ==
    /\ selected' = ~selected
    /\ UNCHANGED <<help, palette, view, stage, known, makefile, hotkeys, asked>>

(* A new configuration has fewer tabs: back to hamr's.                     *)
TabRemoved ==
    /\ view # 0 /\ view' = 0 /\ selected' = FALSE
    /\ UNCHANGED <<help, palette, stage, known, makefile, hotkeys, asked>>

(* The runner reports its features, and forgets them when it restarts.     *)
Report(gate) ==
    /\ known' = IF gate \in known THEN known \ {gate} ELSE known \cup {gate}
    /\ UNCHANGED <<help, palette, view, stage, selected, makefile, hotkeys, asked>>

EditMakefile ==
    /\ makefile' = IF makefile = {} THEN Targets ELSE {}
    /\ UNCHANGED <<help, palette, view, stage, selected, known, hotkeys, asked>>

(* The runner takes the next command.                                      *)
Take ==
    /\ hotkeys # <<>> /\ hotkeys' = Tail(hotkeys)
    /\ asked' = (asked /\ Head(hotkeys) # "q")
    /\ UNCHANGED <<help, palette, view, stage, selected, known, makefile>>

Next ==
    \/ \E key \in Keys : Press(key)
    \/ Select \/ TabRemoved \/ (\E gate \in Gated : Report(gate)) \/ EditMakefile \/ Take

Spec == Init /\ [][Next]_vars

-----------------------------------------------------------------------------
(* The highlighted row is a row of the list that is shown.                 *)
CursorInList == palette.open => palette.cursor < Cardinality(Hits(palette)) \/ palette.cursor = 0

(* Help and palette are never open over each other (449-462).              *)
OneModal == ~(help /\ palette.open)

(* ctrl+c reaches the runner whatever is open (450, 464, 485).             *)
QuitIsQueued == asked => "q" \in Range(hotkeys)

(* The invariant: types, the palette, the modals and the quit key.         *)
Inv == TypeOK /\ CursorInList /\ OneModal /\ QuitIsQueued
=============================================================================
