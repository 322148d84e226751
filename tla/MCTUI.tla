-------------------------------- MODULE MCTUI --------------------------------
(***************************************************************************)
(* The terminal UI, one aspect at a time: what the status bar says, what   *)
(* the tabs hold, where the log pane stands, what keys do, and the layout. *)
(* Which one a behaviour is about is chosen at its start; the others stand *)
(* still.                                                                  *)
(***************************************************************************)
EXTENDS Integers, Sequences, FiniteSets, TLC

CONSTANTS
    site, make1, make2, db, mail,                       \* TLC's jobs and stacks
    Jobs, Builds, Own, Label, Pushers, Runner, BusCap,  \* of the status bar
    MaxRuns, MaxEvents,
    MaxLogs,                                            \* of a tab
    PaneHeights, MaxTicks,                              \* of the pane
    Tabs, Targets, Gated, Cap, Queries, Parent, Finds,  \* of the keys
    Widths, BarParts, ScreenHeights, HelpRows, MaxHits  \* of the layout

VARIABLES
    part,
    run, server, work, bus, ready, results, active, restarting, spinning, ticks, errs, push, got,
    errors, events, lost, late, early, twin, overlap,
    tabs, known, view, logs, lines, search, selected, anchor, picked, origin,
    total, top, height, reading, chosen, drag, dticks, down, modal, away,
    help, palette, tab, stage, some, features, makefile, hotkeys, asked,
    what, line, other, width, left, right, status, screen, hits, cursor

S == INSTANCE TUIStatus WITH Cap <- BusCap
L == INSTANCE TUILogs WITH
        Stacks <- {db, mail}, Hits <- <<0, 1, 2, 0>>,
        Layouts <- {<<db>>, <<mail, db>>}, MaxSearches <- 1
V == INSTANCE TUIViewport WITH
        Heights <- PaneHeights, selected <- chosen, ticks <- dticks
K == INSTANCE TUIKeys WITH
        MakePrefix <- "make:", view <- tab, selected <- some, known <- features
Y == INSTANCE TUILayout WITH
        MaxLength <- 4, Others <- {<<>>, <<"m", "m", "9">>},
        Parts <- BarParts, Heights <- ScreenHeights, height <- screen

\* What TLC is given for them; two makes of one target share its label.
SomeLabel   == site :> "building site" @@ make1 :> "make seed" @@ make2 :> "make seed"
Texts       == {"make:", "re", "rez"}
SomeQueries == {""} \cup Texts
SomeParent  == [q \in Texts |-> IF q = "rez" THEN "re" ELSE ""]
SomeFinds   == "make:" :> {"seed"} @@ "re" :> {"r", "R", "o"} @@ "rez" :> {}
SomeWidths  == 0 .. 20 \cup {96}
SomeScreens == 0 .. 36

\* What is in flight has a label, and an event fits the channel.
ASSUME StatusAssumption ==
    /\ Jobs # {} /\ Builds \subseteq Jobs /\ Own \subseteq Jobs
    /\ DOMAIN Label = Jobs /\ Label \in [Jobs -> S!Range(Label)]
    /\ BusCap \in Nat \ {0} /\ MaxRuns \in Nat \ {0} /\ MaxEvents \in Nat
\* A pane has a row at least, and a buffer a line.
ASSUME PaneAssumption ==
    /\ MaxLogs \in Nat \ {0} /\ MaxTicks \in Nat
    /\ PaneHeights \subseteq Nat \ {0} /\ 1 \in PaneHeights
\* A stack is told from the tabs that are always there.
ASSUME TabsAssumption == {db, mail} \cap {"hamr", "mcp"} = {}
\* A text less its last character is a text; no entry of the palette is ctrl+c.
ASSUME KeysAssumption ==
    /\ 0 \in Tabs /\ Cap \in Nat
    /\ IsFiniteSet(Targets) /\ IsFiniteSet(Gated) /\ "ctrl+c" \notin Gated
    /\ {"", "make:"} \subseteq Queries /\ Parent \in [Queries \ {""} -> Queries]
ASSUME LayoutAssumption ==
    /\ Widths \subseteq Nat /\ BarParts \subseteq Nat /\ ScreenHeights \subseteq Nat
    /\ Widths # {} /\ BarParts # {} /\ ScreenHeights # {}
    /\ HelpRows \in Nat /\ MaxHits \in Nat

statusVars == <<run, server, work, bus, ready, results, active, restarting, spinning, ticks, errs,
                push, got, errors, events, lost, late, early, twin, overlap>>
logVars    == <<tabs, known, view, logs, lines, search, selected, anchor, picked, origin>>
paneVars   == <<total, top, height, reading, chosen, drag, dticks, down, modal, away>>
keyVars    == <<help, palette, tab, stage, some, features, makefile, hotkeys, asked>>
layoutVars == <<what, line, other, width, left, right, status, screen, hits, cursor>>

mcvars == <<part, statusVars, logVars, paneVars, keyVars, layoutVars>>

MCInit ==
    /\ part \in {"status", "logs", "pane", "keys", "layout"}
    /\ S!Init /\ L!Init /\ V!Init /\ K!Init /\ Y!Init
    /\ part # "logs" => tabs = <<db>>
    /\ part # "pane" => height = 1
    /\ part # "keys" => makefile = {}
    /\ part # "layout" => what = "rows" /\ other = <<>>

MCNext ==
    \/ part = "status" /\ S!Next /\ UNCHANGED <<part, logVars, paneVars, keyVars, layoutVars>>
    \/ part = "logs" /\ L!Next /\ UNCHANGED <<part, statusVars, paneVars, keyVars, layoutVars>>
    \/ part = "pane" /\ V!Next /\ UNCHANGED <<part, statusVars, logVars, keyVars, layoutVars>>
    \/ part = "keys" /\ K!Next /\ UNCHANGED <<part, statusVars, logVars, paneVars, layoutVars>>
    \/ part = "layout" /\ Y!Next /\ UNCHANGED <<part, statusVars, logVars, paneVars, keyVars>>

\* A timer that was set goes off.
MCSpec == MCInit /\ [][MCNext]_mcvars /\ WF_paneVars(part = "pane" /\ V!Tick)

(***************************************************************************)
(* What each of them promises.                                             *)
(***************************************************************************)

\* The bar says what is in flight and which errors there are, its spinner turns.
StatusInv == S!Inv
\* What is selected is what was picked, and no search is stale.
LogsInv == L!Inv
\* The pane shows the newest line, and a drag scrolls while it may and then ends.
PaneInv == V!Inv
\* One modal at a time, a cursor in its list, and ctrl+c always taken.
KeysInv == K!Inv
\* Rows and lines agree, bars fill the width, modals leave them visible.
LayoutInv == Y!Inv

\* New lines and new tabs leave the reader where he is.
ReaderUndisturbed == L!ReaderUndisturbed

\* No tick outlives its drag for long.
TicksEnd == (part = "pane" /\ V!Ticking) ~> ~V!Ticking
===============================================================================
