------------------------------- MODULE TUILogs -------------------------------
(***************************************************************************)
(* The logs of the terminal UI (internal/devserver/tui: model.go,          *)
(* search.go, selection.go): one bounded buffer per tab, tabs that come    *)
(* and go with the configuration, a search per tab that is kept up in the  *)
(* background, and one selection, by index, in the tab that is shown.      *)
(*                                                                         *)
(* A log line is its number; Hits says how often the query occurs in it.   *)
(* A query is its length: 0 finds nothing, 1 finds the hits.  Indexes      *)
(* count from 1.                                                           *)
(***************************************************************************)
EXTENDS Naturals, Sequences, SequencesExt, FiniteSetsExt

CONSTANTS
    Stacks,      \* compose entries
    MaxLogs,     \* lines a buffer holds (5000 in the code)
    Hits,        \* how often the query occurs in a line
    Layouts,     \* the lists of tabs that configurations ask for
    MaxSearches  \* bound: searches open at once

MaxLines == Len(Hits)  \* bound: lines ever logged

VARIABLES
    tabs, known, view,   \* dockerTabs, mcpKnown, viewMode
    logs, lines,         \* the buffers; lines logged so far
    search,              \* by buffer
    selected, anchor,    \* selectionState
    picked, origin       \* the lines the user picked, and from where (history)

selection == <<selected, anchor, picked, origin>>
vars == <<tabs, known, view, logs, lines, search, selected, anchor, picked, origin>>

Buffers == {"hamr", "mcp"} \cup Stacks

(* The buffer of a view: the MCP tab comes last.                           *)
Shown(v, ts) == IF v = 0 THEN "hamr" ELSE IF v <= Len(ts) THEN ts[v] ELSE "mcp"
Active == Shown(view, tabs)

Matches(buffer, query) ==
    IF query = 0 THEN <<>>
    ELSE FlattenSeq([i \in 1 .. Len(buffer) |-> [k \in 1 .. Hits[buffer[i]] |-> <<i, k>>]])

Closed == [stage |-> "closed", query |-> 0, matches |-> <<>>, cursor |-> 1, filter |-> FALSE]
NoMatch == <<0, 0>>
Current(s) == IF s.cursor \in DOMAIN s.matches THEN s.matches[s.cursor] ELSE NoMatch

TypeOK ==
    /\ tabs \in Layouts /\ known \in BOOLEAN
    /\ view \in 0 .. Len(tabs) + (IF known THEN 1 ELSE 0)
    /\ \A b \in Buffers : Len(logs[b]) <= MaxLogs /\ Range(logs[b]) \subseteq 1 .. MaxLines
    /\ \A b \in Buffers : search[b].stage \in {"closed", "prompting", "active"} /\ search[b].query \in {0, 1}
    /\ selected \subseteq 1 .. Len(logs[Active]) /\ anchor \in 1 .. MaxLogs

Init ==
    /\ tabs \in Layouts /\ known = FALSE /\ view = 0
    /\ logs = [b \in Buffers |-> <<>>] /\ lines = 0
    /\ search = [b \in Buffers |-> Closed]
    /\ selected = {} /\ anchor = 1 /\ picked = {} /\ origin = 0

-----------------------------------------------------------------------------
(* Searching.                                                              *)

(* Mutant: the current match is looked for where it was before the buffer  *)
(* lost its head.                                                          *)
RecomputeUnshifted(s, buffer, evicted) ==
    LET prev == Current(s)
        ms   == Matches(buffer, s.query)
    IN IF s.stage = "closed" THEN s
       ELSE [s EXCEPT !.matches = ms,
                      !.cursor  = IF s.stage = "active" /\ prev \in Range(ms)
                                     THEN CHOOSE i \in DOMAIN ms : ms[i] = prev ELSE 1]

(* recompute: a committed search stays with its match.                     *)
Recompute(s, buffer, evicted) ==
    LET cur  == Current(s)
        prev == IF cur[1] > evicted THEN <<cur[1] - evicted, cur[2]>> ELSE NoMatch
        ms   == Matches(buffer, s.query)
    IN IF s.stage = "closed" THEN s
       ELSE [s EXCEPT !.matches = ms,
                      !.cursor  = IF s.stage = "active" /\ prev \in Range(ms)
                                     THEN CHOOSE i \in DOMAIN ms : ms[i] = prev ELSE 1]

Prompting == search[Active].stage = "prompting"
Committed == search[Active].stage = "active"
SetSearch(s) ==
    /\ search' = [search EXCEPT ![Active] = s]
    /\ UNCHANGED <<tabs, known, view, logs, lines, selection>>

OpenSearch ==
    /\ ~Prompting
    /\ Cardinality({b \in Buffers \ {Active} : search[b].stage # "closed"}) < MaxSearches
    /\ SetSearch([Closed EXCEPT !.stage = "prompting"])
TypeQuery(q) ==
    /\ Prompting /\ q # search[Active].query
    /\ SetSearch(Recompute([search[Active] EXCEPT !.query = q], logs[Active], 0))
CommitSearch ==
    /\ Prompting
    /\ SetSearch(IF search[Active].query = 0 THEN Closed
                 ELSE Recompute([search[Active] EXCEPT !.stage = "active"], logs[Active], 0))
Cycled(i, n, forward) == 1 + ((i - 1 + (IF forward THEN 1 ELSE n - 1)) % n)
NextMatch(forward) ==
    LET n == Len(search[Active].matches)
    IN /\ Committed /\ n > 0
       /\ SetSearch([search[Active] EXCEPT !.cursor = Cycled(@, n, forward)])
ToggleFilter ==
    /\ Committed
    /\ SetSearch([search[Active] EXCEPT !.filter = ~@])

-----------------------------------------------------------------------------
(* Selecting.  Lines are clicked, or dragged over, as they are rendered.   *)

(* In filter view only the lines with a match are rendered.                *)
Filtered == search[Active].stage = "active" /\ search[Active].filter /\ search[Active].matches # <<>>
Rendered ==
    IF Filtered THEN {search[Active].matches[i][1] : i \in DOMAIN search[Active].matches}
                ELSE 1 .. Len(logs[Active])

NoSelection == selected' = {} /\ anchor' = 1 /\ picked' = {} /\ origin' = 0
LineAt(i) == logs[Active][i]
Alive == picked \cap Range(logs[Active])

ClickPlain(i) ==
    /\ i \in Rendered
    /\ selected' = {i} /\ anchor' = i
    /\ picked' = {LineAt(i)} /\ origin' = LineAt(i)
    /\ UNCHANGED <<tabs, known, view, logs, lines, search>>

ClickToggle(i) ==
    /\ i \in Rendered
    /\ selected' = (selected \ {i}) \cup ({i} \ selected) /\ anchor' = i
    /\ picked' = (Alive \ {LineAt(i)}) \cup ({LineAt(i)} \ Alive) /\ origin' = LineAt(i)
    /\ UNCHANGED <<tabs, known, view, logs, lines, search>>

Between(x, y) == (x .. y) \cup (y .. x)

(* Mutant: hidden lines between two rendered ones are taken too.           *)
RangeOf(from, i) == Between(from, i)

(* clickRange, with the set rangeVisibleSet returns.                       *)
ClickedRange(from, i) == Between(from, i) \cap Rendered

ClickRange(i) ==
    LET from == IF selected = {} THEN i ELSE anchor
        first == IF Alive = {} THEN LineAt(i) ELSE origin
    IN /\ i \in Rendered
       /\ selected' = ClickedRange(from, i) /\ anchor' = from
       /\ origin' = first
       /\ picked' = {LineAt(k) : k \in Rendered} \cap Between(first, LineAt(i))
       /\ UNCHANGED <<tabs, known, view, logs, lines, search>>

Clear ==
    /\ selected # {} /\ NoSelection
    /\ UNCHANGED <<tabs, known, view, logs, lines, search>>

(* esc drops the selection first, then the search.                         *)
Escape ==
    \/ Prompting /\ SetSearch(Closed)
    \/ ~Prompting /\ Clear
    \/ Committed /\ selected = {} /\ SetSearch(Closed)

-----------------------------------------------------------------------------
(* Logging.                                                                *)

(* Mutant: an anchor that is evicted stays where it is.                    *)
ShiftedAnchorStays(n, kept) == IF anchor > n THEN anchor - n ELSE anchor

(* The anchor moves with its line, and to the first line kept if it is     *)
(* evicted.                                                                *)
ShiftedAnchor(n, kept) ==
    IF anchor > n THEN anchor - n ELSE IF kept = {} THEN 1 ELSE Min(kept)

(* shiftEvicted, in the tab that is shown.                                 *)
ShiftEvicted(n) ==
    LET kept == {i - n : i \in {j \in selected : j > n}}
    IN IF n = 0 \/ selected = {} THEN UNCHANGED selection
       ELSE /\ selected' = kept /\ anchor' = ShiftedAnchor(n, kept)
            /\ LET left == picked \cap Range(logs'[Active])
               IN /\ picked' = left
                  /\ origin' = IF origin \in Range(logs'[Active]) THEN origin
                               ELSE IF left = {} THEN 0 ELSE Min(left)

(* appendHamrLog, appendDockerLog, appendMCPLog.                           *)
AppendLine(b) ==
    LET full == Append(logs[b], lines + 1)
        evicted == IF Len(full) > MaxLogs THEN Len(full) - MaxLogs ELSE 0
    IN /\ lines < MaxLines /\ lines' = lines + 1
       /\ b = "mcp" => known
       /\ logs' = [logs EXCEPT ![b] = SubSeq(full, evicted + 1, Len(full))]
       /\ search' = [search EXCEPT ![b] = Recompute(@, logs'[b], evicted)]
       /\ IF b = Active THEN ShiftEvicted(evicted) ELSE UNCHANGED selection
       /\ UNCHANGED <<tabs, known, view>>

(* y: the lines go to the clipboard; if there is none, the log says so.    *)
Copy ==
    /\ ~Prompting /\ selected # {}
    /\ Clear \/ AppendLine("hamr")

(* Mutant: the search still finds what was there.                          *)
ClearTabOnly ==
    /\ ~Prompting
    /\ logs' = [logs EXCEPT ![Active] = <<>>]
    /\ NoSelection
    /\ UNCHANGED <<tabs, known, view, lines, search>>

(* c empties the buffer of the tab that is shown.                          *)
ClearTab ==
    /\ ~Prompting
    /\ logs' = [logs EXCEPT ![Active] = <<>>]
    /\ search' = [search EXCEPT ![Active] = Recompute(@, <<>>, 0)]
    /\ NoSelection
    /\ UNCHANGED <<tabs, known, view, lines>>

-----------------------------------------------------------------------------
(* Tabs.                                                                   *)

TabCount == 1 + Len(tabs) + (IF known THEN 1 ELSE 0)

CycleTab(forward) ==
    /\ ~Prompting /\ TabCount > 1
    /\ view' = Cycled(view + 1, TabCount, forward) - 1
    /\ NoSelection
    /\ UNCHANGED <<tabs, known, logs, lines, search>>

(* mcpStatusMsg: the gateway is known from now on.                         *)
MCPStatus ==
    /\ ~known /\ known' = TRUE
    /\ UNCHANGED <<tabs, view, logs, lines, search, selection>>

(* Mutant: the view keeps its number when the list of tabs changes.        *)
SetTabsByNumber(ts) ==
    /\ ts # tabs /\ tabs' = ts
    /\ view' = IF view > Len(ts) THEN 0 ELSE view
    /\ IF view > Len(ts) THEN NoSelection ELSE UNCHANGED selection
    /\ UNCHANGED <<known, logs, lines, search>>

(* setDockerTabs: follow the active stack by its name.                     *)
SetTabs(ts) ==
    LET at == {i \in DOMAIN ts : ts[i] = Active}
    IN /\ ts # tabs /\ tabs' = ts
       /\ CASE Active = "hamr" -> UNCHANGED <<view, selection>>
            [] Active = "mcp"  -> view' = Len(ts) + 1 /\ UNCHANGED selection
            [] Active \in Stacks /\ at # {} -> view' \in at /\ UNCHANGED selection
            [] OTHER -> view' = 0 /\ NoSelection
       /\ UNCHANGED <<known, logs, lines, search>>

-----------------------------------------------------------------------------
Next ==
    \/ \E b \in Buffers : AppendLine(b)
    \/ \E ts \in Layouts : SetTabs(ts)
    \/ MCPStatus \/ ClearTab \/ Copy \/ Escape \/ OpenSearch \/ CommitSearch \/ ToggleFilter
    \/ \E q \in {0, 1} : TypeQuery(q)
    \/ \E forward \in BOOLEAN : CycleTab(forward) \/ NextMatch(forward)
    \/ \E i \in 1 .. MaxLogs : ClickPlain(i) \/ ClickToggle(i) \/ ClickRange(i)

Spec == Init /\ [][Next]_vars

-----------------------------------------------------------------------------
(* However lines are evicted and tabs come, go and move: what is selected, *)
(* and what y would copy, is what the user picked among the lines that     *)
(* were rendered, as far as it is still there (selection.go 12-20, 92-97,  *)
(* model.go 733-741, 1071-1076).                                           *)
SelectsWhatWasPicked == {LineAt(i) : i \in selected} = Alive

(* The counter, n/N and the filter never use a stale list, also in a tab   *)
(* in the background (model.go 649-652, 1041-1043).                        *)
SearchIsFresh ==
    \A b \in Buffers : search[b].stage # "closed" =>
        /\ search[b].matches = Matches(logs[b], search[b].query)
        /\ search[b].cursor \in {1} \cup DOMAIN search[b].matches

(* The invariant: types, the selection and the searches.                   *)
Inv == TypeOK /\ SelectsWhatWasPicked /\ SearchIsFresh

(* A new line does not move the reader of a search from the match it is at *)
(* (search.go 157-166), and a new list of tabs leaves the user in the tab  *)
(* it was in, if that is still there (model.go 733-741).                   *)
AtMatch(s, buffer) == IF Current(s) = NoMatch THEN <<0, 0>> ELSE <<buffer[Current(s)[1]], Current(s)[2]>>
Undisturbed ==
    /\ lines' # lines => \A b \in Buffers :
          LET at == AtMatch(search[b], logs[b])
          IN search[b].stage = "active" /\ at[1] \in Range(logs'[b]) => AtMatch(search'[b], logs'[b]) = at
    /\ tabs' # tabs =>
          Shown(view', tabs') = IF Active \in Range(tabs') \cup {"mcp"} THEN Active ELSE "hamr"
ReaderUndisturbed == [][Undisturbed]_vars
=============================================================================
