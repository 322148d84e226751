----------------------------- MODULE TUI_proofs -----------------------------
(***************************************************************************)
(* What is proved about the terminal UI: the pane, the keys, the layout of *)
(* bars and modals, the status bar, and the logs.  Each of MCTUI's parts   *)
(* has an inductive invariant of its own and a lemma for every action.     *)
(***************************************************************************)
EXTENDS MCTUI, FiniteSetTheorems, WellFoundedInduction, TLAPS

-----------------------------------------------------------------------------
(* The pane.                                                               *)

(* What is shown at the bottom, and what SetContent keeps, lies in the     *)
(* buffer.                                                                 *)
LEMMA BottomIs ==
    ASSUME NEW n \in 0 .. MaxLogs, NEW h \in PaneHeights
    PROVE  V!Bottom(n, h) \in 0 .. MaxLogs
BY PaneAssumption DEF V!Bottom, V!Larger

LEMMA KeptIs ==
    ASSUME V!TypeOK, NEW n \in 0 .. MaxLogs, NEW h \in PaneHeights
    PROVE  V!Kept(n, h) \in 0 .. MaxLogs
BY BottomIs DEF V!Kept, V!TypeOK

LEMMA RefreshIs ==
    ASSUME V!TypeOK, NEW n \in 0 .. MaxLogs, NEW h \in PaneHeights, NEW b, V!Refresh(n, h, b)
    PROVE  /\ top' \in 0 .. MaxLogs
           /\ b /\ ~reading' /\ ~chosen' => top' = V!Bottom(n, h)
BY BottomIs, KeptIs DEF V!Refresh

(* Whoever moves the pane is known to have moved it, and what moves by     *)
(* itself moves to the bottom.                                             *)
LEMMA ByUserTails ==
    ASSUME V!TypeOK', V!ByUser PROVE V!Tailing'
<1>1. top' \in Int /\ V!Bottom(total', height') \in Int
  BY BottomIs DEF V!TypeOK
<1>2. (top' < V!Bottom(total', height')) \/ top' >= V!Bottom(total', height')
  BY <1>1
<1>3. V!AtBottom' <=> top' >= V!Bottom(total', height')
  BY DEF V!AtBottom, V!Bottom, V!Larger
<1> QED  BY <1>2, <1>3 DEF V!ByUser, V!Tailing

LEMMA ByItselfTails ==
    ASSUME V!TypeOK', V!Tailing, V!ByItself,
           V!AtBottom => V!AtBottom' \/ reading' \/ chosen' \/ reading \/ chosen
    PROVE  V!Tailing'
<1>1. top' \in Int /\ V!Bottom(total', height') \in Int
  BY BottomIs DEF V!TypeOK
<1>2. (top' < V!Bottom(total', height')) \/ top' >= V!Bottom(total', height')
  BY <1>1
<1>3. V!AtBottom' <=> top' >= V!Bottom(total', height')
  BY DEF V!AtBottom, V!Bottom, V!Larger
<1> QED  BY <1>2, <1>3 DEF V!ByItself, V!Tailing

(* Every handler leaves the top row inside the buffer, and a drag and its  *)
(* ticks within their ranges.                                              *)
LEMMA PaneTypeStep ==
    ASSUME V!Inv, V!Next
    PROVE  V!TypeOK'
<1> USE PaneAssumption
<1>0. V!TypeOK /\ V!Tailing /\ V!DragEndsWithButton /\ V!FlagMeansChain
  BY DEF V!Inv
<1>1. CASE V!AppendLine
  <2>1. total' \in 0 .. MaxLogs /\ UNCHANGED <<height, reading, drag, dticks, down, modal>>
    BY <1>1, <1>0 DEF V!TypeOK, V!AppendLine, V!Smaller
  <2>2. top' \in 0 .. MaxLogs
    BY <1>1, <2>1, <1>0, RefreshIs DEF V!TypeOK, V!AppendLine
  <2>3. chosen' \in BOOLEAN
    BY <1>1, <1>0 DEF V!TypeOK, V!AppendLine
  <2> QED  BY <2>1, <2>2, <2>3, <1>0 DEF V!TypeOK
<1>2. CASE V!ClearTab
  <2>1. total' = 0 /\ chosen' = FALSE /\ UNCHANGED <<height, reading, drag, dticks, down, modal>>
    BY <1>2 DEF V!ClearTab
  <2>2. top' \in 0 .. MaxLogs
    BY <1>2, <1>0, KeptIs DEF V!TypeOK, V!ClearTab
  <2>3. total' \in 0 .. MaxLogs
    BY <2>1
  <2> QED  BY <2>1, <2>2, <2>3, <1>0 DEF V!TypeOK
<1>3. CASE V!Tail
  BY <1>3, <1>0, BottomIs, KeptIs DEF V!TypeOK, V!Tail
<1>4. CASE V!Escape
  BY <1>4, <1>0, BottomIs, KeptIs DEF V!TypeOK, V!Escape, V!Refresh
<1>5. CASE V!Modal
  BY <1>5, <1>0 DEF V!TypeOK, V!Modal
<1>6. CASE V!Release
  BY <1>6, <1>0, BottomIs, KeptIs DEF V!TypeOK, V!Tailing, V!DragEndsWithButton,
     V!FlagMeansChain, V!AtBottom, V!NoDrag, V!Smaller, V!Release
<1>7. CASE V!Tick
  <2>1. UNCHANGED <<total, height, reading, down, modal>> /\ chosen' \in BOOLEAN
    BY <1>7, <1>0 DEF V!TypeOK, V!Tick
  <2>2. top' \in 0 .. MaxLogs
    <3>1. V!Bottom(total, height) \in 0 .. MaxLogs /\ top \in 0 .. MaxLogs /\ drag.edge \in {-1, 0, 1}
      BY <1>0, BottomIs DEF V!TypeOK
    <3>2. CASE top' = top
      BY <3>1, <3>2
    <3>3. CASE top' = top + drag.edge /\ drag.edge # 0 /\ ~(drag.edge = -1 /\ V!AtTop)
               /\ ~(drag.edge = 1 /\ V!AtBottom)
      BY <3>1, <3>3 DEF V!AtTop, V!AtBottom
    <3> QED  BY <1>7, <3>2, <3>3 DEF V!Tick
  <2>3. /\ dticks' \in 0 .. MaxTicks
        /\ drag' \in [active : BOOLEAN, extend : BOOLEAN, edge : {-1, 0, 1}, ticking : BOOLEAN]
    <3>1. V!ChainEnds \/ UNCHANGED <<dticks, drag>>
      BY <1>7 DEF V!Tick
    <3>2. CASE V!ChainEnds
      <4>1. dticks > 0 /\ dticks \in 0 .. MaxTicks
        BY <1>7, <1>0 DEF V!Tick, V!TypeOK
      <4>2. dticks' \in 0 .. MaxTicks
        BY <3>2, <4>1 DEF V!ChainEnds
      <4>3. drag' = [drag EXCEPT !.ticking = FALSE]
        BY <3>2 DEF V!ChainEnds
      <4> QED  BY <4>2, <4>3, <1>0 DEF V!TypeOK
    <3> QED  BY <3>1, <3>2, <1>0 DEF V!TypeOK
  <2> QED  BY <2>1, <2>2, <2>3, <1>0 DEF V!TypeOK
<1>8. ASSUME NEW h \in PaneHeights, V!Resize(h) PROVE V!TypeOK'
  BY <1>8, <1>0, BottomIs, KeptIs, SMTT(30) DEF V!TypeOK, V!Tailing, V!DragEndsWithButton,
     V!FlagMeansChain, V!AtBottom, V!Kept, V!Bottom, V!Larger, V!NoDrag, V!Smaller, V!ByUser,
     V!ByItself, V!Resize, V!Refresh
<1>9. ASSUME NEW n \in 0 .. MaxLogs, NEW s \in BOOLEAN, V!CycleTab(n, s) PROVE V!TypeOK'
  <2>1. total' = n /\ reading' = s /\ chosen' = FALSE /\ UNCHANGED <<height, drag, dticks, down, modal>>
    BY <1>9 DEF V!CycleTab
  <2>2. top' \in 0 .. MaxLogs
    <3>1. V!Bottom(n, height) \in 0 .. MaxLogs /\ V!Kept(n, height) \in 0 .. MaxLogs
      BY <1>0, BottomIs, KeptIs DEF V!TypeOK
    <3> QED  BY <1>9, <3>1 DEF V!CycleTab
  <2> QED  BY <2>1, <2>2, <1>0 DEF V!TypeOK
<1>10. ASSUME NEW n \in 0 .. MaxLogs, NEW s \in BOOLEAN, V!TabRemoved(n, s) PROVE V!TypeOK'
  BY <1>10, <1>0, BottomIs, KeptIs DEF V!TypeOK, V!TabRemoved, V!Refresh
<1>11. ASSUME NEW by \in {-1, 1}, V!Scroll(by) PROVE V!TypeOK'
  BY <1>11, <1>0, BottomIs, KeptIs DEF V!TypeOK, V!Scroll
<1>12. ASSUME NEW row \in 0 .. MaxLogs, V!Search(row) PROVE V!TypeOK'
  BY <1>12, <1>0, BottomIs, KeptIs, SMTT(30) DEF V!TypeOK, V!Tailing, V!DragEndsWithButton,
     V!FlagMeansChain, V!AtBottom, V!Kept, V!Bottom, V!Larger, V!NoDrag, V!Smaller, V!ByUser,
     V!ByItself, V!Search
<1>13. ASSUME NEW row \in 0 .. MaxLogs, NEW ctrl \in BOOLEAN, V!Press(row, ctrl) PROVE V!TypeOK'
  <2>1. /\ UNCHANGED <<total, height, reading, dticks, modal>> /\ down' = TRUE
        /\ \/ UNCHANGED <<top, chosen, drag>>
           \/ /\ chosen' \in BOOLEAN /\ drag' = [V!NoDrag EXCEPT !.active = TRUE, !.extend = ~ctrl]
              /\ V!Refresh(total, height, V!AtBottom)
    BY <1>13 DEF V!Press
  <2>2. top' \in 0 .. MaxLogs
    BY <2>1, <1>0, RefreshIs DEF V!TypeOK
  <2> QED  BY <2>1, <2>2, <1>0 DEF V!TypeOK, V!NoDrag
<1>14. ASSUME NEW edge \in {-1, 0, 1}, V!Motion(edge) PROVE V!TypeOK'
  <2>1. /\ UNCHANGED <<total, height, reading, down, modal>> /\ chosen' \in BOOLEAN
        /\ V!Refresh(total, height, V!AtBottom)
    BY <1>14, <1>0 DEF V!Motion, V!TypeOK
  <2>2. top' \in 0 .. MaxLogs
    BY <2>1, <1>0, RefreshIs DEF V!TypeOK
  <2>3. dticks' \in 0 .. MaxTicks
    BY <1>14, <1>0 DEF V!Motion, V!TypeOK
  <2>4. drag' \in [active : BOOLEAN, extend : BOOLEAN, edge : {-1, 0, 1}, ticking : BOOLEAN]
    BY <1>14, <1>0 DEF V!Motion, V!TypeOK
  <2> QED  BY <2>1, <2>2, <2>3, <2>4, <1>0 DEF V!TypeOK
<1> QED  BY <1>1, <1>2, <1>3, <1>4, <1>5, <1>6, <1>7, <1>8, <1>9, <1>10, <1>11, <1>12, <1>13,
   <1>14 DEF V!Next

(* A pane that left the bottom was taken away from it by the user, and one *)
(* that shows neither a search nor a choice stands at the bottom.          *)
LEMMA TailingStep ==
    ASSUME V!Inv, V!Next, V!TypeOK'
    PROVE  V!Tailing'
<1> USE PaneAssumption
<1>0. V!TypeOK /\ V!Tailing /\ V!DragEndsWithButton /\ V!FlagMeansChain
  BY DEF V!Inv
<1>1. CASE V!AppendLine
  <2>1. total' \in 0 .. MaxLogs /\ height \in PaneHeights /\ height' = height
    BY <1>1, <1>0 DEF V!TypeOK, V!AppendLine
  <2>2. V!AtBottom /\ ~reading' /\ ~chosen' => top' = V!Bottom(total', height)
    BY <1>1, <2>1, <1>0, RefreshIs DEF V!AppendLine
  <2>3. V!Bottom(total', height) \in Int
    BY <2>1, BottomIs
  <2>4. V!AtBottom' <=> top' >= V!Bottom(total', height)
    BY <2>1 DEF V!AtBottom, V!Bottom, V!Larger
  <2> QED  BY <1>1, <2>2, <2>3, <2>4, <1>0, ByItselfTails DEF V!AppendLine
<1>2. CASE V!ClearTab
  BY <1>2, <1>0, BottomIs, KeptIs, SMTT(30) DEF V!TypeOK, V!Tailing, V!DragEndsWithButton,
     V!FlagMeansChain, V!AtBottom, V!Kept, V!Bottom, V!Larger, V!NoDrag, V!Smaller, V!ByUser,
     V!ByItself, V!ClearTab
<1>3. CASE V!Tail
  BY <1>3, ByUserTails DEF V!Tail
<1>4. CASE V!Escape
  BY <1>4, ByUserTails DEF V!Escape
<1>5. CASE V!Modal
  BY <1>5, <1>0 DEF V!Tailing, V!AtBottom, V!ByUser, V!ByItself, V!Modal
<1>6. CASE V!Release
  BY <1>6, <1>0 DEF V!Tailing, V!AtBottom, V!ByUser, V!ByItself, V!Release
<1>7. CASE V!Tick
  BY <1>7, ByUserTails DEF V!Tick
<1>8. ASSUME NEW h \in PaneHeights, V!Resize(h) PROVE V!Tailing'
  <2>1. total' = total /\ height' = h /\ total \in 0 .. MaxLogs /\ V!Bottom(total, h) \in Int
    BY <1>8, <1>0, BottomIs DEF V!TypeOK, V!Resize
  <2>2. V!AtBottom' <=> top' >= V!Bottom(total, h)
    BY <2>1 DEF V!AtBottom, V!Bottom, V!Larger
  <2>3. V!AtBottom => top' = V!Bottom(total, h)
    BY <1>8 DEF V!Resize
  <2> QED  BY <1>8, <2>1, <2>2, <2>3, <1>0, ByItselfTails DEF V!Resize
<1>9. ASSUME NEW n \in 0 .. MaxLogs, NEW s \in BOOLEAN, V!CycleTab(n, s) PROVE V!Tailing'
  BY <1>9, <1>0, BottomIs, KeptIs DEF V!Tailing, V!TypeOK, V!AtBottom, V!ByUser, V!ByItself,
     V!CycleTab
<1>10. ASSUME NEW n \in 0 .. MaxLogs, NEW s \in BOOLEAN, V!TabRemoved(n, s) PROVE V!Tailing'
  <2>1. total' = n /\ height' = height /\ height \in PaneHeights /\ V!Bottom(n, height) \in Int
    BY <1>10, <1>0, BottomIs DEF V!TypeOK, V!TabRemoved
  <2>2. V!AtBottom' <=> top' >= V!Bottom(n, height)
    BY <2>1 DEF V!AtBottom, V!Bottom, V!Larger
  <2>3. CASE s
    BY <1>10, <2>3, ByUserTails DEF V!TabRemoved
  <2>4. CASE ~s
    <3>1. V!AtBottom => top' = V!Bottom(n, height)
      BY <1>10, <2>4, <2>1, <1>0, RefreshIs DEF V!TabRemoved
    <3> QED  BY <1>10, <2>4, <2>1, <2>2, <3>1, <1>0, ByItselfTails DEF V!TabRemoved
  <2> QED  BY <2>3, <2>4
<1>11. ASSUME NEW by \in {-1, 1}, V!Scroll(by) PROVE V!Tailing'
  BY <1>11, ByUserTails DEF V!Scroll
<1>12. ASSUME NEW row \in 0 .. MaxLogs, V!Search(row) PROVE V!Tailing'
  BY <1>12, ByUserTails DEF V!Search
<1>13. ASSUME NEW row \in 0 .. MaxLogs, NEW ctrl \in BOOLEAN, V!Press(row, ctrl) PROVE V!Tailing'
  <2>1. CASE UNCHANGED <<top, chosen, away>>
    <3>1. UNCHANGED <<total, height, reading>>
      BY <1>13 DEF V!Press
    <3> QED  BY <2>1, <3>1, <1>0 DEF V!Tailing, V!AtBottom, V!Bottom, V!Larger
  <2> QED  BY <1>13, <2>1, ByUserTails DEF V!Press
<1>14. ASSUME NEW edge \in {-1, 0, 1}, V!Motion(edge) PROVE V!Tailing'
  BY <1>14, ByUserTails DEF V!Motion
<1> QED  BY <1>1, <1>2, <1>3, <1>4, <1>5, <1>6, <1>7, <1>8, <1>9, <1>10, <1>11, <1>12, <1>13,
   <1>14 DEF V!Next

(* A drag begins with the button down and no handler lets go of the one    *)
(* without the other.                                                      *)
LEMMA DragStep ==
    ASSUME V!Inv, V!Next
    PROVE  V!DragEndsWithButton'
<1> USE PaneAssumption
<1>0. V!TypeOK /\ V!Tailing /\ V!DragEndsWithButton /\ V!FlagMeansChain
  BY DEF V!Inv
<1>1. CASE V!AppendLine
  BY <1>1, <1>0 DEF V!DragEndsWithButton, V!AppendLine, V!Refresh
<1>2. CASE V!ClearTab
  BY <1>2, <1>0 DEF V!DragEndsWithButton, V!ClearTab
<1>3. CASE V!Tail
  BY <1>3, <1>0 DEF V!DragEndsWithButton, V!Tail
<1>4. CASE V!Escape
  BY <1>4, <1>0 DEF V!DragEndsWithButton, V!Escape, V!Refresh
<1>5. CASE V!Modal
  BY <1>5, <1>0 DEF V!DragEndsWithButton, V!Modal
<1>6. CASE V!Release
  BY <1>6, <1>0, BottomIs, KeptIs DEF V!TypeOK, V!Tailing, V!DragEndsWithButton,
     V!FlagMeansChain, V!AtBottom, V!NoDrag, V!Smaller, V!Release
<1>7. CASE V!Tick
  BY <1>7, <1>0, BottomIs, KeptIs DEF V!DragEndsWithButton, V!TypeOK, V!AtBottom, V!ByUser,
     V!ByItself, V!Tick, V!AtTop, V!CanScroll, V!ChainEnds
<1>8. ASSUME NEW h \in PaneHeights, V!Resize(h) PROVE V!DragEndsWithButton'
  BY <1>8, <1>0 DEF V!DragEndsWithButton, V!Resize, V!Refresh
<1>9. ASSUME NEW n \in 0 .. MaxLogs, NEW s \in BOOLEAN, V!CycleTab(n, s) PROVE V!DragEndsWithButton'
  BY <1>9, <1>0 DEF V!DragEndsWithButton, V!CycleTab
<1>10. ASSUME NEW n \in 0 .. MaxLogs, NEW s \in BOOLEAN, V!TabRemoved(n, s) PROVE V!DragEndsWithButton'
  BY <1>10, <1>0 DEF V!DragEndsWithButton, V!TabRemoved, V!Refresh
<1>11. ASSUME NEW by \in {-1, 1}, V!Scroll(by) PROVE V!DragEndsWithButton'
  BY <1>11, <1>0 DEF V!DragEndsWithButton, V!Scroll
<1>12. ASSUME NEW row \in 0 .. MaxLogs, V!Search(row) PROVE V!DragEndsWithButton'
  BY <1>12, <1>0 DEF V!DragEndsWithButton, V!Search
<1>13. ASSUME NEW row \in 0 .. MaxLogs, NEW ctrl \in BOOLEAN, V!Press(row, ctrl) PROVE V!DragEndsWithButton'
  BY <1>13, <1>0 DEF V!DragEndsWithButton, V!Press, V!Refresh
<1>14. ASSUME NEW edge \in {-1, 0, 1}, V!Motion(edge) PROVE V!DragEndsWithButton'
  BY <1>14, <1>0 DEF V!DragEndsWithButton, V!Motion, V!Refresh, V!CanScroll
<1> QED  BY <1>1, <1>2, <1>3, <1>4, <1>5, <1>6, <1>7, <1>8, <1>9, <1>10, <1>11, <1>12, <1>13,
   <1>14 DEF V!Next

(* A drag that says it is ticking has a tick on its way: whatever ends the *)
(* one ends the other.                                                     *)
LEMMA TicksStep ==
    ASSUME V!Inv, V!Next
    PROVE  V!FlagMeansChain'
<1> USE PaneAssumption
<1>0. V!TypeOK /\ V!Tailing /\ V!DragEndsWithButton /\ V!FlagMeansChain
  BY DEF V!Inv
<1>1. CASE V!AppendLine
  BY <1>1, <1>0 DEF V!FlagMeansChain, V!AppendLine, V!Refresh
<1>2. CASE V!ClearTab
  BY <1>2, <1>0 DEF V!FlagMeansChain, V!ClearTab
<1>3. CASE V!Tail
  BY <1>3, <1>0 DEF V!FlagMeansChain, V!Tail
<1>4. CASE V!Escape
  BY <1>4, <1>0 DEF V!FlagMeansChain, V!Escape, V!Refresh
<1>5. CASE V!Modal
  BY <1>5, <1>0 DEF V!FlagMeansChain, V!Modal
<1>6. CASE V!Release
  BY <1>6, <1>0, BottomIs, KeptIs DEF V!TypeOK, V!Tailing, V!DragEndsWithButton,
     V!FlagMeansChain, V!AtBottom, V!NoDrag, V!Smaller, V!Release
<1>7. CASE V!Tick
  BY <1>7, <1>0, BottomIs, KeptIs DEF V!FlagMeansChain, V!TypeOK, V!AtBottom, V!ByUser,
     V!ByItself, V!Tick, V!AtTop, V!CanScroll, V!ChainEnds
<1>8. ASSUME NEW h \in PaneHeights, V!Resize(h) PROVE V!FlagMeansChain'
  BY <1>8, <1>0 DEF V!FlagMeansChain, V!Resize, V!Refresh
<1>9. ASSUME NEW n \in 0 .. MaxLogs, NEW s \in BOOLEAN, V!CycleTab(n, s) PROVE V!FlagMeansChain'
  BY <1>9, <1>0 DEF V!FlagMeansChain, V!CycleTab
<1>10. ASSUME NEW n \in 0 .. MaxLogs, NEW s \in BOOLEAN, V!TabRemoved(n, s) PROVE V!FlagMeansChain'
  BY <1>10, <1>0 DEF V!FlagMeansChain, V!TabRemoved, V!Refresh
<1>11. ASSUME NEW by \in {-1, 1}, V!Scroll(by) PROVE V!FlagMeansChain'
  BY <1>11, <1>0 DEF V!FlagMeansChain, V!Scroll
<1>12. ASSUME NEW row \in 0 .. MaxLogs, V!Search(row) PROVE V!FlagMeansChain'
  BY <1>12, <1>0 DEF V!FlagMeansChain, V!Search
<1>13. ASSUME NEW row \in 0 .. MaxLogs, NEW ctrl \in BOOLEAN, V!Press(row, ctrl) PROVE V!FlagMeansChain'
  BY <1>13, <1>0, BottomIs, KeptIs DEF V!TypeOK, V!Tailing, V!DragEndsWithButton,
     V!FlagMeansChain, V!AtBottom, V!NoDrag, V!Smaller, V!Press, V!Refresh
<1>14. ASSUME NEW edge \in {-1, 0, 1}, V!Motion(edge) PROVE V!FlagMeansChain'
  BY <1>14, <1>0, BottomIs, KeptIs DEF V!FlagMeansChain, V!TypeOK, V!AtBottom, V!ByUser,
     V!ByItself, V!Motion, V!Refresh, V!CanScroll
<1> QED  BY <1>1, <1>2, <1>3, <1>4, <1>5, <1>6, <1>7, <1>8, <1>9, <1>10, <1>11, <1>12, <1>13,
   <1>14 DEF V!Next

(* A pane that the user did not scroll away shows the newest line, through *)
(* every resize, tab and clearing, and a drag scrolls only while there is  *)
(* somewhere to scroll to and ends with the button (model.go's viewport).  *)
THEOREM PaneShowsTheNewest == MCSpec => []PaneInv
<1>1. ASSUME MCInit PROVE PaneInv
  <2>1. /\ total = 0 /\ top = 0 /\ height \in PaneHeights /\ reading = FALSE /\ chosen = FALSE
        /\ drag = V!NoDrag /\ dticks = 0 /\ down = FALSE /\ modal = FALSE /\ away = FALSE
    BY <1>1 DEF MCInit, V!Init
  <2>2. V!TypeOK
    <3>1. 0 \in 0 .. MaxLogs /\ 0 \in 0 .. MaxTicks
      BY PaneAssumption
    <3>2. V!NoDrag \in [active : BOOLEAN, extend : BOOLEAN, edge : {-1, 0, 1}, ticking : BOOLEAN]
      BY DEF V!NoDrag
    <3> QED  BY <2>1, <3>1, <3>2 DEF V!TypeOK
  <2>3. V!AtBottom
    BY <2>1, PaneAssumption DEF V!AtBottom, V!Bottom, V!Larger
  <2>4. V!DragEndsWithButton /\ V!FlagMeansChain
    BY <2>1 DEF V!DragEndsWithButton, V!FlagMeansChain, V!NoDrag
  <2> QED  BY <2>2, <2>3, <2>4 DEF PaneInv, V!Inv, V!Tailing
<1>2. PaneInv /\ [MCNext]_mcvars => PaneInv'
  <2> SUFFICES ASSUME PaneInv, [MCNext]_mcvars PROVE PaneInv'
    OBVIOUS
  <2>1. CASE V!Next
    BY <2>1, PaneTypeStep, TailingStep, DragStep, TicksStep DEF PaneInv, V!Inv
  <2>2. CASE UNCHANGED paneVars
    BY <2>2 DEF paneVars, PaneInv, V!Inv, V!TypeOK, V!Tailing, V!AtBottom, V!Bottom, V!Larger,
       V!DragEndsWithButton, V!FlagMeansChain
  <2> QED  BY <2>1, <2>2 DEF MCNext, mcvars
<1> QED  BY <1>1, <1>2, PTL DEF MCSpec

-----------------------------------------------------------------------------
(* Keys.                                                                   *)

PaletteType ==
    [open : BOOLEAN, entries : SUBSET (K!Always \cup Gated \cup Targets), query : Queries, cursor : Nat]

KeysIInv == K!Inv /\ palette \in PaletteType

(* What a key does to the rest: it may open one modal, with the cursor in  *)
(* its list, and send one command, which is `q` for ctrl+c.                *)
KeyEffect(key) ==
    /\ help' \in BOOLEAN /\ palette' \in PaletteType /\ some' \in BOOLEAN
    /\ tab' \in Tabs /\ stage' \in [Tabs -> {"closed", "prompting", "active"}]
    /\ ~(help' /\ palette'.open)
    /\ palette'.open => palette'.cursor < K!Cardinality(K!Hits(palette')) \/ palette'.cursor = 0
    /\ UNCHANGED hotkeys \/ \E c \in K!Commands : K!Send(c)
    /\ key = "ctrl+c" => K!Send("q")

(* What is shown is finite, and has as many rows as the library counts.    *)
LEMMA HitsCounted ==
    ASSUME NEW p \in PaletteType PROVE K!Cardinality(K!Hits(p)) \in Nat
<1>1. IsFiniteSet(K!Always \cup Gated \cup Targets)
  <2>1. IsFiniteSet(K!Always)
    <3>1. IsFiniteSet({"r"} \cup {"R"})
      BY FS_Singleton, FS_AddElement
    <3>2. IsFiniteSet(({"r"} \cup {"R"}) \cup {"o"})
      BY <3>1, FS_AddElement
    <3>3. IsFiniteSet((({"r"} \cup {"R"}) \cup {"o"}) \cup {"c"})
      BY <3>2, FS_AddElement
    <3>4. IsFiniteSet(((({"r"} \cup {"R"}) \cup {"o"}) \cup {"c"}) \cup {"?"})
      BY <3>3, FS_AddElement
    <3>5. IsFiniteSet((((({"r"} \cup {"R"}) \cup {"o"}) \cup {"c"}) \cup {"?"}) \cup {"q"})
      BY <3>4, FS_AddElement
    <3>6. (((({"r"} \cup {"R"}) \cup {"o"}) \cup {"c"}) \cup {"?"}) \cup {"q"} = K!Always
      BY DEF K!Always
    <3> QED  BY <3>5, <3>6
  <2> QED  BY <2>1, KeysAssumption, FS_Union
<1>2. K!Hits(p) \subseteq K!Always \cup Gated \cup Targets
  BY DEF K!Hits, PaletteType
<1>3. IsFiniteSet(K!Hits(p))
  BY <1>1, <1>2, FS_Subset
<1>4. \A T : K!Cardinality(T) = Cardinality(T)
  BY DEF K!Cardinality, Cardinality
<1> QED  BY <1>3, <1>4, FS_CardinalityType

(* A palette that is closed, and one that was just opened.                 *)
LEMMA NoPaletteIs == K!NoPalette \in PaletteType /\ ~K!NoPalette.open
BY KeysAssumption DEF K!NoPalette, PaletteType

LEMMA OpenedIs ==
    ASSUME K!TypeOK, NEW q \in Queries
    PROVE  K!Opened(q) \in PaletteType /\ K!Opened(q).cursor = 0
BY DEF K!Opened, K!Entries, PaletteType, K!TypeOK

(* A binding runs when no modal is open, or for the palette it closes.     *)
LEMMA BindingEffect ==
    ASSUME K!TypeOK, NEW key, NEW before \in PaletteType, ~before.open, help = FALSE,
           K!Binding(key, before)
    PROVE  KeyEffect(key)
<1> USE KeysAssumption
<1>1. /\ palette' \in {K!Opened(""), K!Opened("make:"), before}
      /\ key = "?" => palette' = before
      /\ help' = IF key = "?" THEN TRUE ELSE FALSE
  BY DEF K!Binding
<1>2. /\ palette' \in PaletteType /\ ~(help' /\ palette'.open) /\ help' \in BOOLEAN
      /\ palette'.open => palette'.cursor = 0
  <2>1. palette' \in PaletteType /\ (palette'.open => palette'.cursor = 0)
    BY <1>1, OpenedIs
  <2> QED  BY <2>1, <1>1
<1>3. UNCHANGED hotkeys \/ \E c \in K!Commands : K!Send(c)
  BY DEF K!Binding, K!Commands
<1>4. key = "ctrl+c" => K!Send("q")
  BY DEF K!Binding, K!Commands
<1>5. tab' \in Tabs /\ some' \in BOOLEAN
  BY DEF K!Binding, K!TypeOK
<1>6. stage' \in [Tabs -> {"closed", "prompting", "active"}]
  BY DEF K!Binding, K!TypeOK
<1> QED  BY <1>2, <1>3, <1>4, <1>5, <1>6 DEF KeyEffect

(* ctrl+c quits whatever is open.                                          *)
LEMMA QuitEffect ==
    ASSUME KeysIInv, NEW key, K!Quit PROVE KeyEffect(key)
<1>1. K!Send("q") /\ UNCHANGED <<help, palette, tab, stage, some>> /\ "q" \in K!Commands
  BY DEF K!Quit, K!Commands
<1>2. /\ help \in BOOLEAN /\ palette \in PaletteType /\ some \in BOOLEAN /\ tab \in Tabs
      /\ stage \in [Tabs -> {"closed", "prompting", "active"}] /\ ~(help /\ palette.open)
      /\ palette.open => palette.cursor < K!Cardinality(K!Hits(palette)) \/ palette.cursor = 0
  BY DEF KeysIInv, K!Inv, K!TypeOK, K!OneModal, K!CursorInList
<1> QED  BY <1>1, <1>2 DEF KeyEffect

(* The palette changes: it is closed, its query typed on, its cursor moved.*)
LEMMA PaletteEffect ==
    ASSUME KeysIInv, NEW key, key # "ctrl+c", help = FALSE, NEW p \in PaletteType,
           p.open => p.cursor < K!Cardinality(K!Hits(p)) \/ p.cursor = 0,
           K!SetPalette(p)
    PROVE  KeyEffect(key)
BY DEF KeysIInv, K!Inv, K!TypeOK, K!SetPalette, KeyEffect

LEMMA RetypedEffect ==
    ASSUME KeysIInv, NEW key, key # "ctrl+c", help = FALSE, NEW q \in Queries, K!Retyped(q)
    PROVE  KeyEffect(key)
<1> DEFINE p == [palette EXCEPT !.query = q, !.cursor = 0]
<1>1. p \in PaletteType /\ p.cursor = 0 /\ K!SetPalette(p)
  BY DEF KeysIInv, PaletteType, K!Retyped
<1> HIDE DEF p
<1> QED  BY <1>1, PaletteEffect

LEMMA MovedEffect ==
    ASSUME KeysIInv, NEW key, key # "ctrl+c", help = FALSE, NEW n \in Nat, K!Moved(n),
           n < K!Cardinality(K!Hits(palette)) \/ n = 0
    PROVE  KeyEffect(key)
<1> DEFINE p == [palette EXCEPT !.cursor = n]
<1>1. p \in PaletteType /\ p.cursor = n /\ K!SetPalette(p)
  BY DEF KeysIInv, PaletteType, K!Moved
<1>2. K!Hits(p) = K!Hits(palette)
  BY DEF KeysIInv, PaletteType, K!Hits
<1> HIDE DEF p
<1> QED  BY <1>1, <1>2, PaletteEffect

(* The help closes with any key; the palette takes every key it is given.  *)
LEMMA HelpKeyEffect ==
    ASSUME KeysIInv, NEW key, help, K!HelpKey(key) PROVE KeyEffect(key)
<1>1. CASE key = "ctrl+c"
  <2>1. K!Quit
    BY <1>1 DEF K!HelpKey
  <2> QED  BY <2>1, QuitEffect
<1>2. CASE key # "ctrl+c"
  <2>1. help' = FALSE /\ UNCHANGED <<palette, tab, stage, some, hotkeys>>
    BY <1>2 DEF K!HelpKey
  <2>2. /\ palette \in PaletteType /\ some \in BOOLEAN /\ tab \in Tabs
        /\ stage \in [Tabs -> {"closed", "prompting", "active"}]
        /\ palette.open => palette.cursor < K!Cardinality(K!Hits(palette)) \/ palette.cursor = 0
    BY DEF KeysIInv, K!Inv, K!TypeOK, K!CursorInList
  <2> QED  BY <1>2, <2>1, <2>2 DEF KeyEffect
<1> QED  BY <1>1, <1>2

LEMMA PaletteKeyEffect ==
    ASSUME KeysIInv, NEW key, help = FALSE, palette.open, K!PaletteKey(key) PROVE KeyEffect(key)
<1>p. palette \in PaletteType
  BY DEF KeysIInv
<1>t. K!TypeOK /\ (palette.cursor < K!Cardinality(K!Hits(palette)) \/ palette.cursor = 0)
  BY DEF KeysIInv, K!Inv, K!CursorInList
<1>h. K!Cardinality(K!Hits(palette)) \in Nat /\ palette.cursor \in Nat
  BY <1>p, HitsCounted DEF PaletteType
<1>s. ASSUME K!SetPalette(palette), key # "ctrl+c" PROVE KeyEffect(key)
  BY <1>p, <1>t, <1>s, PaletteEffect
<1>1. CASE key = "ctrl+c"
  <2>1. K!Quit
    BY <1>1 DEF K!PaletteKey
  <2> QED  BY <2>1, QuitEffect
<1>2. CASE key = "esc" /\ K!SetPalette(K!NoPalette)
  BY <1>2, NoPaletteIs, PaletteEffect
<1>3. CASE key = "enter" /\ K!Confirm
  <2>1. CASE K!SetPalette(palette)
    BY <1>3, <2>1, <1>s
  <2>2. CASE K!SetPalette(K!NoPalette)
    BY <1>3, <2>2, NoPaletteIs, PaletteEffect
  <2>3. ASSUME NEW e, K!Binding(e, K!NoPalette) PROVE KeyEffect(key)
    <3>1. KeyEffect(e)
      BY <1>t, <2>3, NoPaletteIs, BindingEffect
    <3> QED  BY <3>1, <1>3 DEF KeyEffect
  <2> QED  BY <1>3, <2>1, <2>2, <2>3 DEF K!Confirm
<1>4. CASE key = "up" /\ K!Moved(IF palette.cursor > 0 THEN palette.cursor - 1 ELSE 0)
  <2> DEFINE n == IF palette.cursor > 0 THEN palette.cursor - 1 ELSE 0
  <2>1. n \in Nat /\ (n < K!Cardinality(K!Hits(palette)) \/ n = 0)
    BY <1>t, <1>h
  <2>2. K!Moved(n) /\ key # "ctrl+c"
    BY <1>4
  <2> HIDE DEF n
  <2> QED  BY <2>1, <2>2, MovedEffect
<1>5. CASE /\ key = "down"
           /\ K!Moved(IF palette.cursor + 1 < K!Cardinality(K!Hits(palette)) THEN palette.cursor + 1
                      ELSE palette.cursor)
  <2> DEFINE n == IF palette.cursor + 1 < K!Cardinality(K!Hits(palette)) THEN palette.cursor + 1
                  ELSE palette.cursor
  <2>1. n \in Nat /\ (n < K!Cardinality(K!Hits(palette)) \/ n = 0)
    BY <1>t, <1>h
  <2>2. K!Moved(n) /\ key # "ctrl+c"
    BY <1>5
  <2> HIDE DEF n
  <2> QED  BY <2>1, <2>2, MovedEffect
<1>6. CASE /\ key = "backspace"
           /\ IF palette.query = "" THEN K!SetPalette(palette) ELSE K!Retyped(Parent[palette.query])
  <2>1. palette.query # "" => Parent[palette.query] \in Queries
    BY <1>p, KeysAssumption DEF PaletteType
  <2> QED  BY <1>6, <2>1, <1>s, RetypedEffect
<1>7. CASE key = "text" /\ \E q \in Queries \ {""} : Parent[q] = palette.query /\ K!Retyped(q)
  BY <1>7, RetypedEffect
<1> QED  BY <1>1, <1>2, <1>3, <1>4, <1>5, <1>6, <1>7 DEF K!PaletteKey

(* The search prompt of a tab, and what keys do when nothing is open.      *)
LEMMA SetStageEffect ==
    ASSUME KeysIInv, NEW key, key # "ctrl+c", NEW s \in {"closed", "active"}, K!SetStage(s)
    PROVE  KeyEffect(key)
<1>1. stage' \in [Tabs -> {"closed", "prompting", "active"}]
  BY DEF KeysIInv, K!Inv, K!TypeOK, K!SetStage
<1>2. UNCHANGED <<help, palette, tab, some, hotkeys>>
  BY DEF K!SetStage
<1>3. /\ help \in BOOLEAN /\ palette \in PaletteType /\ some \in BOOLEAN /\ tab \in Tabs
      /\ ~(help /\ palette.open)
      /\ palette.open => palette.cursor < K!Cardinality(K!Hits(palette)) \/ palette.cursor = 0
  BY DEF KeysIInv, K!Inv, K!TypeOK, K!OneModal, K!CursorInList
<1> QED  BY <1>1, <1>2, <1>3 DEF KeyEffect

LEMMA PromptKeyEffect ==
    ASSUME KeysIInv, NEW key, K!PromptKey(key) PROVE KeyEffect(key)
<1>1. CASE key = "ctrl+c"
  <2>1. K!Quit
    BY <1>1 DEF K!PromptKey
  <2> QED  BY <2>1, QuitEffect
<1>2. CASE key # "ctrl+c"
  BY <1>2, SetStageEffect DEF K!PromptKey
<1> QED  BY <1>1, <1>2

LEMMA PlainKeyEffect ==
    ASSUME KeysIInv, NEW key, help = FALSE, palette.open = FALSE, K!PlainKey(key)
    PROVE  KeyEffect(key)
<1>1. CASE /\ some /\ key \in {"y", "esc"}
           /\ some' \in BOOLEAN /\ UNCHANGED <<help, palette, tab, stage, hotkeys>>
  BY <1>1 DEF KeysIInv, K!Inv, K!TypeOK, KeyEffect
<1>2. CASE key = "esc" /\ K!SetStage("closed")
  BY <1>2, SetStageEffect
<1>3. CASE K!Binding(key, palette)
  BY <1>3, BindingEffect DEF KeysIInv, K!Inv
<1> QED  BY <1>1, <1>2, <1>3 DEF K!PlainKey

(* Whoever of them takes the key, it does no more than that.               *)
LEMMA KeyStep ==
    ASSUME KeysIInv, NEW key, K!Press(key) PROVE KeyEffect(key)
<1>1. help \in BOOLEAN /\ palette.open \in BOOLEAN
  BY DEF KeysIInv, K!Inv, K!TypeOK
<1>2. CASE help /\ K!HelpKey(key)
  BY <1>2, HelpKeyEffect
<1>3. CASE ~help /\ palette.open /\ K!PaletteKey(key)
  BY <1>1, <1>3, PaletteKeyEffect
<1>4. CASE K!PromptKey(key)
  BY <1>4, PromptKeyEffect
<1>5. CASE ~help /\ ~palette.open /\ K!PlainKey(key)
  BY <1>1, <1>5, PlainKeyEffect
<1> QED  BY <1>2, <1>3, <1>4, <1>5 DEF K!Press

(* The queue to the dev server: a command is added while there is room and *)
(* taken from the front; no other command is lost.                         *)
LEMMA SentIs ==
    ASSUME hotkeys \in Seq(K!Commands), Len(hotkeys) <= Cap, NEW c \in K!Commands, K!Send(c)
    PROVE  /\ hotkeys' \in Seq(K!Commands) /\ Len(hotkeys') <= Cap
           /\ K!Range(hotkeys) \subseteq K!Range(hotkeys')
           /\ Len(hotkeys) < Cap => c \in K!Range(hotkeys')
<1>0. Cap \in Nat
  BY KeysAssumption
<1>1. Len(hotkeys) \in Nat
  OBVIOUS
<1>2. CASE Len(hotkeys) < Cap
  <2>1. hotkeys' = Append(hotkeys, c)
    BY <1>2 DEF K!Send
  <2>2. hotkeys' \in Seq(K!Commands) /\ Len(hotkeys') = Len(hotkeys) + 1
    BY <2>1
  <2>3. \A i \in 1 .. Len(hotkeys) : hotkeys'[i] = hotkeys[i]
    BY <2>1
  <2>4. hotkeys'[Len(hotkeys) + 1] = c
    BY <2>1
  <2>5. DOMAIN hotkeys = 1 .. Len(hotkeys) /\ DOMAIN hotkeys' = 1 .. Len(hotkeys) + 1
    BY <2>2
  <2>6. K!Range(hotkeys) \subseteq K!Range(hotkeys')
    BY <1>1, <2>3, <2>5 DEF K!Range
  <2>7. c \in K!Range(hotkeys')
    BY <1>1, <2>4, <2>5 DEF K!Range
  <2> QED  BY <1>0, <1>1, <1>2, <2>2, <2>6, <2>7
<1>3. CASE ~(Len(hotkeys) < Cap)
  BY <1>3 DEF K!Send
<1> QED  BY <1>2, <1>3

LEMMA TakenIs ==
    ASSUME hotkeys \in Seq(K!Commands), Len(hotkeys) <= Cap, hotkeys # <<>>
    PROVE  /\ Tail(hotkeys) \in Seq(K!Commands) /\ Len(Tail(hotkeys)) <= Cap
           /\ K!Range(hotkeys) \subseteq K!Range(Tail(hotkeys)) \cup {Head(hotkeys)}
<1>0. Cap \in Nat
  BY KeysAssumption
<1>1. /\ Tail(hotkeys) \in Seq(K!Commands) /\ Len(Tail(hotkeys)) = Len(hotkeys) - 1
      /\ Len(hotkeys) \in Nat \ {0}
  OBVIOUS
<1>2. \A i \in 1 .. Len(hotkeys) - 1 : Tail(hotkeys)[i] = hotkeys[i + 1]
  BY <1>1
<1>3. DOMAIN hotkeys = 1 .. Len(hotkeys) /\ DOMAIN Tail(hotkeys) = 1 .. Len(hotkeys) - 1
  BY <1>1
<1>4. ASSUME NEW i \in 1 .. Len(hotkeys)
      PROVE  hotkeys[i] \in K!Range(Tail(hotkeys)) \cup {Head(hotkeys)}
  <2>1. CASE i = 1
    BY <1>1, <2>1
  <2>2. CASE i # 1
    <3>1. i - 1 \in 1 .. Len(hotkeys) - 1 /\ hotkeys[i] = Tail(hotkeys)[i - 1]
      BY <1>1, <1>2, <2>2
    <3> QED  BY <1>3, <3>1 DEF K!Range
  <2> QED  BY <2>1, <2>2
<1> QED  BY <1>0, <1>1, <1>3, <1>4 DEF K!Range

(* A key, the taking of a command, and what changes around the keys.       *)
LEMMA PressStep ==
    ASSUME KeysIInv, NEW key, K!Press(key) PROVE KeysIInv'
<1>1. KeyEffect(key) /\ UNCHANGED <<features, makefile>>
  BY KeyStep DEF K!Press
<1>2. hotkeys \in Seq(K!Commands) /\ Len(hotkeys) <= Cap /\ (asked => "q" \in K!Range(hotkeys))
  BY DEF KeysIInv, K!Inv, K!TypeOK, K!QuitIsQueued
<1>3. /\ hotkeys' \in Seq(K!Commands) /\ Len(hotkeys') <= Cap
      /\ K!Range(hotkeys) \subseteq K!Range(hotkeys')
  BY <1>1, <1>2, SentIs DEF KeyEffect
<1>4. "q" \in K!Commands
  BY DEF K!Commands
<1>5. key = "ctrl+c" /\ Len(hotkeys) < Cap => "q" \in K!Range(hotkeys')
  BY <1>1, <1>2, <1>4, SentIs DEF KeyEffect
<1>6. asked' = (asked \/ (key = "ctrl+c" /\ Len(hotkeys) < Cap))
  BY DEF K!Press
<1>7. K!QuitIsQueued' /\ asked' \in BOOLEAN
  BY <1>2, <1>3, <1>5, <1>6 DEF K!QuitIsQueued
<1>8. palette' \in PaletteType /\ K!CursorInList' /\ K!OneModal'
  <2>1. /\ palette' \in PaletteType /\ ~(help' /\ palette'.open)
        /\ palette'.open => palette'.cursor < K!Cardinality(K!Hits(palette')) \/ palette'.cursor = 0
    BY <1>1 DEF KeyEffect
  <2>2. K!Hits(palette)' = K!Hits(palette')
    BY DEF K!Hits
  <2> QED  BY <2>1, <2>2 DEF K!CursorInList, K!OneModal
<1>9. K!TypeOK'
  <2>1. features' \subseteq Gated /\ makefile' \subseteq Targets
    BY <1>1 DEF KeysIInv, K!Inv, K!TypeOK
  <2>2. /\ palette'.open \in BOOLEAN /\ palette'.entries \subseteq K!Always \cup Gated \cup Targets
        /\ palette'.query \in Queries /\ palette'.cursor \in Nat
    BY <1>8 DEF PaletteType
  <2> QED  BY <1>1, <1>3, <1>7, <2>1, <2>2 DEF KeyEffect, K!TypeOK
<1> QED  BY <1>7, <1>8, <1>9 DEF KeysIInv, K!Inv

LEMMA TakeStep ==
    ASSUME KeysIInv, K!Take PROVE KeysIInv'
<1>1. hotkeys \in Seq(K!Commands) /\ Len(hotkeys) <= Cap /\ (asked => "q" \in K!Range(hotkeys))
  BY DEF KeysIInv, K!Inv, K!TypeOK, K!QuitIsQueued
<1>2. /\ hotkeys # <<>> /\ hotkeys' = Tail(hotkeys) /\ asked' = (asked /\ Head(hotkeys) # "q")
      /\ UNCHANGED <<help, palette, tab, stage, some, features, makefile>>
  BY DEF K!Take
<1>3. K!QuitIsQueued' /\ asked' \in BOOLEAN
  BY <1>1, <1>2, TakenIs DEF K!QuitIsQueued
<1>4. hotkeys' \in Seq(K!Commands) /\ Len(hotkeys') <= Cap
  BY <1>1, <1>2, TakenIs
<1>5. K!TypeOK'
  BY <1>2, <1>3, <1>4 DEF KeysIInv, K!Inv, K!TypeOK
<1> QED  BY <1>2, <1>3, <1>5 DEF KeysIInv, K!Inv, K!CursorInList, K!OneModal, K!Hits

LEMMA AroundStep ==
    ASSUME KeysIInv, K!Select \/ K!TabRemoved \/ (\E g \in Gated : K!Report(g)) \/ K!EditMakefile
    PROVE  KeysIInv'
<1>1. UNCHANGED <<help, palette, stage, hotkeys, asked>>
  BY DEF K!Select, K!TabRemoved, K!Report, K!EditMakefile
<1>2. /\ tab' \in Tabs /\ some' \in BOOLEAN
      /\ features' \subseteq Gated /\ makefile' \subseteq Targets
  BY KeysAssumption DEF KeysIInv, K!Inv, K!TypeOK, K!Select, K!TabRemoved, K!Report,
     K!EditMakefile
<1>3. K!TypeOK'
  BY <1>1, <1>2 DEF KeysIInv, K!Inv, K!TypeOK
<1> QED  BY <1>1, <1>3 DEF KeysIInv, K!Inv, K!CursorInList, K!OneModal, K!QuitIsQueued, K!Hits

(* One modal at a time, a cursor on an entry of the palette whatever was   *)
(* typed, and a ctrl+c that found room in the queue stays there until it   *)
(* is taken (model.go, handleKey).                                         *)
THEOREM KeysAreHeard == MCSpec => []KeysInv
<1>1. ASSUME MCInit PROVE KeysIInv
  <2>1. /\ help = FALSE /\ palette = K!NoPalette /\ tab = 0 /\ stage = [t \in Tabs |-> "closed"]
        /\ some = FALSE /\ features = {} /\ makefile \in {{}, Targets} /\ hotkeys = <<>> /\ asked = FALSE
    BY <1>1 DEF MCInit, K!Init
  <2>2. palette \in PaletteType /\ ~palette.open
    BY <2>1, NoPaletteIs
  <2>3. hotkeys \in Seq(K!Commands) /\ Len(hotkeys) <= Cap
    <3>1. Cap \in Nat
      BY KeysAssumption
    <3> QED  BY <2>1, <3>1
  <2>4. K!TypeOK
    BY KeysAssumption, <2>1, <2>2, <2>3 DEF K!TypeOK, PaletteType
  <2> QED  BY <2>1, <2>2, <2>4 DEF KeysIInv, K!Inv, K!CursorInList, K!OneModal, K!QuitIsQueued
<1>2. KeysIInv /\ [MCNext]_mcvars => KeysIInv'
  <2> SUFFICES ASSUME KeysIInv, [MCNext]_mcvars PROVE KeysIInv'
    OBVIOUS
  <2>1. CASE K!Next
    BY <2>1, PressStep, AroundStep, TakeStep DEF K!Next
  <2>2. CASE UNCHANGED keyVars
    BY <2>2 DEF keyVars, KeysIInv, K!Inv, K!TypeOK, K!CursorInList, K!OneModal, K!QuitIsQueued,
       K!Hits
  <2> QED  BY <2>1, <2>2 DEF MCNext, mcvars
<1>3. KeysIInv => KeysInv
  BY DEF KeysIInv, KeysInv
<1> QED  BY <1>1, <1>2, <1>3, PTL DEF MCSpec

-----------------------------------------------------------------------------
(* The layout: bars and modals.  Rows are folds over characters.           *)

(* The greater and the lesser of two numbers, and the least of any.        *)
LEMMA MaxOfTwo ==
    ASSUME NEW a \in Int, NEW b \in Int
    PROVE  Y!Max({a, b}) \in {a, b} /\ Y!Max({a, b}) >= a /\ Y!Max({a, b}) >= b
<1>1. \E x \in {a, b} : \A y \in {a, b} : x >= y
  OBVIOUS
<1> QED  BY <1>1 DEF Y!Max

LEMMA MinOfTwo ==
    ASSUME NEW a \in Int, NEW b \in Int
    PROVE  Y!Min({a, b}) \in {a, b} /\ Y!Min({a, b}) <= a /\ Y!Min({a, b}) <= b
<1>1. \E x \in {a, b} : \A y \in {a, b} : x <= y
  OBVIOUS
<1> QED  BY <1>1 DEF Y!Min

LEMMA LeastIsOne ==
    ASSUME NEW T \in SUBSET Nat, T # {} PROVE Y!Min(T) \in Nat
<1>1. PICK x \in T : \A y \in T : ~ (<<y, x>> \in OpToRel(<, Nat))
  BY WFMin, NatLessThanWellFounded, Zenon
<1>2. \A y \in T : x <= y
  <2> TAKE y \in T
  <2>1. ~ (y < x) /\ x \in Nat /\ y \in Nat
    BY <1>1 DEF OpToRel
  <2> QED  BY <2>1
<1> QED  BY <1>2 DEF Y!Min

(* What is looked at is measured in columns and rows, and the cursor of    *)
(* the palette is in its list.                                             *)
Measured ==
    /\ width \in Nat /\ left \in Nat /\ right \in Nat /\ status \in Nat
    /\ screen \in Nat /\ hits \in Nat /\ cursor \in Nat /\ (cursor < hits \/ cursor = 0)

LEMMA MeasuredStep ==
    ASSUME Measured, Y!Next PROVE Measured'
<1> USE LayoutAssumption DEF Measured
<1>1. ASSUME NEW c \in Y!Characters, Y!Log(c) PROVE Measured'
  BY <1>1 DEF Y!Log
<1>2. ASSUME NEW w \in Widths, Y!Widen(w) PROVE Measured'
  BY <1>2 DEF Y!Widen
<1>3. ASSUME NEW h \in ScreenHeights, Y!Heighten(h) PROVE Measured'
  BY <1>3 DEF Y!Heighten
<1>4. ASSUME NEW l \in BarParts, NEW r \in BarParts, NEW s \in BarParts, Y!Bars(l, r, s) PROVE Measured'
  BY <1>4 DEF Y!Bars
<1>5. ASSUME NEW n \in 0 .. MaxHits, Y!Type(n) PROVE Measured'
  BY <1>5 DEF Y!Type
<1>6. CASE Y!Down
  BY <1>6 DEF Y!Down
<1> QED  BY <1>1, <1>2, <1>3, <1>4, <1>5, <1>6 DEF Y!Next

(* Both bars are as wide as the screen, and the status is shown whole from *)
(* sixteen columns on, for its column leaves room beside it.               *)
LEMMA BarsAreFull ==
    ASSUME Measured PROVE Y!BarsFill
<1> USE DEF Measured
<1>1. Y!StatusBar = width
  BY DEF Y!StatusBar, Y!FitBarLeft
<1>2. Y!BottomBar.total = width
  BY DEF Y!BottomBar, Y!FitBarLeft
<1>3. width >= status + 4 => Y!BottomBar.shown = status
  BY DEF Y!BottomBar
<1>4. ASSUME width >= 16, status <= Y!Max({Y!StatusWidth(width), 12}) PROVE width >= status + 4
  <2>1. width \div 3 \in Nat /\ width \div 3 <= width - 4
    BY <1>4
  <2>2. Y!Min({32, width \div 3}) \in Nat /\ Y!Min({32, width \div 3}) <= width - 4
    BY <2>1, MinOfTwo
  <2>3. Y!StatusWidth(width) \in Nat /\ Y!StatusWidth(width) <= width - 4
    <3> DEFINE m == Y!Min({32, width \div 3})
    <3>1. m \in Int /\ m <= width - 4
      BY <2>2
    <3>2. Y!StatusWidth(width) = Y!Max({m, 10})
      BY DEF Y!StatusWidth
    <3> HIDE DEF m
    <3>3. Y!Max({m, 10}) \in {m, 10} /\ Y!Max({m, 10}) >= 10
      BY <3>1, MaxOfTwo
    <3> QED  BY <1>4, <3>1, <3>2, <3>3
  <2>4. Y!Max({Y!StatusWidth(width), 12}) \in Nat /\ Y!Max({Y!StatusWidth(width), 12}) <= width - 4
    <3> DEFINE m == Y!StatusWidth(width)
    <3>1. m \in Int /\ m <= width - 4
      BY <2>3
    <3> HIDE DEF m
    <3>2. Y!Max({m, 12}) \in {m, 12} /\ Y!Max({m, 12}) >= 12
      BY <3>1, MaxOfTwo
    <3> QED  BY <1>4, <3>1, <3>2 DEF m
  <2> QED  BY <1>4, <2>4
<1> QED  BY <1>1, <1>2, <1>3, <1>4 DEF Y!BarsFill

(* There is at least a row between the bars, and from three rows on the    *)
(* frame fills the screen.                                                 *)
LEMMA FrameIs ==
    ASSUME Measured
    PROVE  /\ Y!Available \in Nat \ {0} /\ (screen >= 3 => Y!Available = screen - 2)
           /\ screen >= 3 => Y!Frame = screen
<1>1. screen - 2 \in Int /\ screen \in Nat
  BY DEF Measured
<1>2. /\ Y!Max({screen - 2, 1}) \in {screen - 2, 1}
      /\ Y!Max({screen - 2, 1}) >= screen - 2 /\ Y!Max({screen - 2, 1}) >= 1
  BY <1>1, MaxOfTwo
<1> QED  BY <1>1, <1>2 DEF Y!Frame, Y!Available

(* What of a modal's rows replaces rows of the screen.                     *)
LEMMA OverlaidIs ==
    ASSUME Measured, screen >= 3, NEW rows \in Nat \ {0}
    PROVE  /\ Y!Overlaid(rows) \subseteq 1 .. screen - 2
           /\ rows <= screen - 2 => Y!Cardinality(Y!Overlaid(rows)) = rows
<1> USE DEF Measured
<1> DEFINE mid == IF rows > screen THEN 0 ELSE (screen - rows) \div 2
           start == Y!Max({mid, 1})
<1>1. Y!Frame = screen
  BY FrameIs
<1>2. Y!Max({Y!Frame, screen}) = screen
  BY <1>1, MaxOfTwo
<1>3. mid \in Nat /\ (rows <= screen => 2 * mid <= screen - rows)
  OBVIOUS
<1>4. start \in Nat /\ start >= 1 /\ (start = mid \/ start = 1)
  <2> HIDE DEF mid
  <2>1. start \in {mid, 1} /\ start >= 1
    BY <1>3, MaxOfTwo
  <2> QED  BY <1>3, <2>1
<1>5. Y!Overlaid(rows) = {start + i : i \in 0 .. rows - 1} \cap 0 .. screen - 2
  BY <1>2 DEF Y!Overlaid
<1> HIDE DEF mid, start
<1>6. Y!Overlaid(rows) \subseteq 1 .. screen - 2
  BY <1>4, <1>5
<1>7. ASSUME rows <= screen - 2 PROVE Y!Cardinality(Y!Overlaid(rows)) = rows
  <2>1. start + rows - 1 <= screen - 2
    BY <1>3, <1>4, <1>7
  <2>2. Y!Overlaid(rows) = start .. start + rows - 1
    <3>1. ASSUME NEW k \in start .. start + rows - 1 PROVE k \in Y!Overlaid(rows)
      <4>1. k - start \in 0 .. rows - 1 /\ k = start + (k - start) /\ k \in 0 .. screen - 2
        BY <1>4, <2>1
      <4> QED  BY <1>5, <4>1
    <3>2. ASSUME NEW k \in Y!Overlaid(rows) PROVE k \in start .. start + rows - 1
      BY <1>4, <1>5
    <3> QED  BY <3>1, <3>2
  <2>3. Cardinality(start .. start + rows - 1) = rows
    BY <1>4, FS_Interval
  <2> QED  BY <2>2, <2>3 DEF Y!Cardinality, Cardinality
<1> QED  BY <1>6, <1>7

(* The palette's window holds its cursor, and both modals fit.             *)
LEMMA ModalsAreWhole ==
    ASSUME Measured PROVE Y!ModalsFit
<1> USE LayoutAssumption DEF Measured
<1>1. Y!Available \in Nat \ {0} /\ (screen >= 3 => Y!Available = screen - 2)
  BY FrameIs
<1>2. screen >= 3 => Y!Frame = screen
  BY FrameIs
<1>3. Y!HelpHeight \in Nat \ {0} /\ (screen >= 12 => Y!HelpHeight <= screen - 2)
  BY <1>1 DEF Y!HelpHeight, Y!HelpShown
<1>4. Y!MaxRows \in Nat \ {0} /\ (screen >= 14 => Y!MaxRows <= screen - 13)
  <2>1. Y!Min({Y!Available - 11, 12}) \in Int /\ Y!Min({Y!Available - 11, 12}) <= Y!Available - 11
    BY <1>1, MinOfTwo
  <2>2. Y!MaxRows \in {Y!Min({Y!Available - 11, 12}), 1} /\ Y!MaxRows >= 1
    <3> DEFINE m == Y!Min({Y!Available - 11, 12})
    <3> HIDE DEF m
    <3>1. m \in Int
      BY <2>1 DEF m
    <3>2. Y!Max({m, 1}) \in {m, 1} /\ Y!Max({m, 1}) >= 1
      BY <3>1, MaxOfTwo
    <3> QED  BY <3>2 DEF m, Y!MaxRows
  <2> QED  BY <1>1, <2>1, <2>2
<1>5. /\ Y!WindowStart \in Nat /\ Y!WindowEnd \in Nat
      /\ hits > 0 => cursor \in Y!WindowStart .. Y!WindowEnd - 1
      /\ Y!WindowEnd <= Y!WindowStart + Y!MaxRows /\ Y!WindowStart <= Y!WindowEnd
      /\ hits > 0 => Y!WindowEnd > Y!WindowStart
  <2>1. Y!WindowStart \in Nat /\ Y!WindowStart <= cursor /\ cursor < Y!WindowStart + Y!MaxRows
    BY <1>4 DEF Y!WindowStart
  <2>2. /\ Y!WindowEnd \in {Y!WindowStart + Y!MaxRows, hits}
        /\ Y!WindowEnd <= Y!WindowStart + Y!MaxRows /\ Y!WindowEnd <= hits
    BY <1>4, <2>1, MinOfTwo DEF Y!WindowEnd
  <2> QED  BY <1>4, <2>1, <2>2
<1>6. /\ Y!PaletteHeight \in Nat \ {0}
      /\ screen >= 14 => Y!PaletteHeight <= screen - 2
  BY <1>4, <1>5 DEF Y!PaletteHeight
<1>7. screen >= 3 => \A rows \in {Y!HelpHeight, Y!PaletteHeight} : Y!Overlaid(rows) \subseteq 1 .. screen - 2
  BY <1>3, <1>6, OverlaidIs
<1>8. screen >= 12 => Y!Cardinality(Y!Overlaid(Y!HelpHeight)) = Y!HelpHeight
  BY <1>3, OverlaidIs
<1>9. screen >= 14 => Y!Cardinality(Y!Overlaid(Y!PaletteHeight)) = Y!PaletteHeight
  BY <1>6, OverlaidIs
<1> QED  BY <1>2, <1>5, <1>7, <1>8, <1>9 DEF Y!ModalsFit

(* At every width and height, every length of the bar's parts and number   *)
(* of matches: the bars fill the width, and the modals leave the bars of   *)
(* the screen visible (view.go).                                           *)
THEOREM LayoutFits == MCSpec => [](Y!BarsFill /\ Y!ModalsFit)
<1>1. ASSUME MCInit PROVE Measured
  <2>1. /\ width = Y!Min(Widths) /\ screen = Y!Min(ScreenHeights)
        /\ left = Y!Min(BarParts) /\ right = Y!Min(BarParts) /\ status = Y!Min(BarParts)
        /\ hits = 0 /\ cursor = 0
    BY <1>1 DEF MCInit, Y!Init
  <2> QED  BY <2>1, LeastIsOne, LayoutAssumption DEF Measured
<1>2. Measured /\ [MCNext]_mcvars => Measured'
  <2> SUFFICES ASSUME Measured, [MCNext]_mcvars PROVE Measured'
    OBVIOUS
  <2>1. CASE Y!Next
    BY <2>1, MeasuredStep
  <2>2. CASE UNCHANGED layoutVars
    BY <2>2 DEF layoutVars, Measured
  <2> QED  BY <2>1, <2>2 DEF MCNext, mcvars
<1>3. Measured => Y!BarsFill /\ Y!ModalsFit
  BY BarsAreFull, ModalsAreWhole
<1> QED  BY <1>1, <1>2, <1>3, PTL DEF MCSpec

-----------------------------------------------------------------------------
(* Sequences: an element is added at the end, or one is removed.           *)
LEMMA AppendIs ==
    ASSUME NEW E, NEW s \in Seq(E), NEW e \in E
    PROVE  /\ Append(s, e) \in Seq(E) /\ Len(Append(s, e)) = Len(s) + 1
           /\ \A i \in 1 .. Len(s) : Append(s, e)[i] = s[i]
           /\ Append(s, e)[Len(s) + 1] = e
OBVIOUS

LEMMA TailIs ==
    ASSUME NEW E, NEW s \in Seq(E), s # <<>>
    PROVE  /\ Tail(s) \in Seq(E) /\ Len(Tail(s)) = Len(s) - 1 /\ Len(s) \in Nat \ {0}
           /\ \A i \in 1 .. Len(s) - 1 : Tail(s)[i] = s[i + 1]
           /\ Head(s) = s[1] /\ s[1] \in E
OBVIOUS

LEMMA RemoveAtIs ==
    ASSUME NEW E, NEW s \in Seq(E), NEW n \in 1 .. Len(s)
    PROVE  /\ S!RemoveAt(s, n) \in Seq(E) /\ Len(S!RemoveAt(s, n)) = Len(s) - 1
           /\ \A i \in 1 .. Len(s) - 1 : S!RemoveAt(s, n)[i] = IF i < n THEN s[i] ELSE s[i + 1]
<1>1. /\ SubSeq(s, 1, n - 1) \in Seq(E) /\ Len(SubSeq(s, 1, n - 1)) = n - 1
      /\ \A i \in 1 .. n - 1 : SubSeq(s, 1, n - 1)[i] = s[i]
  OBVIOUS
<1>2. /\ SubSeq(s, n + 1, Len(s)) \in Seq(E) /\ Len(SubSeq(s, n + 1, Len(s))) = Len(s) - n
      /\ \A i \in 1 .. Len(s) - n : SubSeq(s, n + 1, Len(s))[i] = s[n + i]
  OBVIOUS
<1> DEFINE a == SubSeq(s, 1, n - 1)
           b == SubSeq(s, n + 1, Len(s))
<1>3. S!RemoveAt(s, n) = a \o b
  BY DEF S!RemoveAt
<1>4. a \in Seq(E) /\ b \in Seq(E) /\ Len(a) = n - 1 /\ Len(b) = Len(s) - n
  BY <1>1, <1>2
<1>5. (\A i \in 1 .. n - 1 : a[i] = s[i]) /\ (\A i \in 1 .. Len(s) - n : b[i] = s[n + i])
  BY <1>1, <1>2
<1> HIDE DEF a, b
<1>6. a \o b \in Seq(E) /\ Len(a \o b) = Len(s) - 1
  BY <1>4
<1>7. ASSUME NEW i \in 1 .. Len(s) - 1
      PROVE  (a \o b)[i] = IF i < n THEN s[i] ELSE s[i + 1]
  <2>1. CASE i < n
    BY <1>4, <1>5, <2>1
  <2>2. CASE ~(i < n)
    <3>1. i - (n - 1) \in 1 .. Len(s) - n /\ n + (i - (n - 1)) = i + 1
      BY <2>2
    <3>2. (a \o b)[i] = b[i - (n - 1)]
      BY <1>4, <2>2
    <3>3. b[i - (n - 1)] = s[n + (i - (n - 1))]
      BY <1>5, <3>1
    <3>4. (a \o b)[i] = s[i + 1] /\ ~(i < n)
      BY <2>2, <3>1, <3>2, <3>3
    <3> QED  BY <3>4
  <2> QED  BY <2>1, <2>2
<1> QED  BY <1>3, <1>6, <1>7

(* A label is shown once: showing it again changes nothing, and taking it  *)
(* away takes nothing else.                                                *)
LEMMA ActivateIs ==
    ASSUME NEW E, active \in Seq(E), S!IsInjective(active), NEW l \in E
    PROVE  /\ S!Activate(l) \in Seq(E) /\ S!IsInjective(S!Activate(l))
           /\ S!Range(S!Activate(l)) = S!Range(active) \cup {l}
<1>1. CASE l \in S!Range(active)
  BY <1>1 DEF S!Activate
<1>2. CASE l \notin S!Range(active)
  <2>1. S!Activate(l) = Append(active, l)
    BY <1>2 DEF S!Activate
  <2>2. Append(active, l) \in Seq(E) /\ DOMAIN Append(active, l) = 1 .. Len(active) + 1
    OBVIOUS
  <2>3. (\A i \in 1 .. Len(active) : Append(active, l)[i] = active[i]) /\ Append(active, l)[Len(active) + 1] = l
    BY AppendIs
  <2>4. DOMAIN active = 1 .. Len(active) /\ Len(active) \in Nat
    OBVIOUS
  <2>5. \A i \in 1 .. Len(active) : active[i] # l
    BY <1>2, <2>4 DEF S!Range
  <2>6. S!IsInjective(Append(active, l))
    <3>1. ASSUME NEW i \in 1 .. Len(active) + 1, NEW j \in 1 .. Len(active) + 1,
                 Append(active, l)[i] = Append(active, l)[j]
          PROVE  i = j
      BY <3>1, <2>3, <2>4, <2>5 DEF S!IsInjective
    <3> QED  BY <2>2, <3>1 DEF S!IsInjective
  <2>7. S!Range(Append(active, l)) = S!Range(active) \cup {l}
    <3>1. ASSUME NEW i \in 1 .. Len(active) + 1 PROVE Append(active, l)[i] \in S!Range(active) \cup {l}
      BY <2>3, <2>4 DEF S!Range
    <3>2. S!Range(active) \subseteq S!Range(Append(active, l))
      <4>1. ASSUME NEW i \in 1 .. Len(active) PROVE active[i] \in S!Range(Append(active, l))
        <5>1. i \in DOMAIN Append(active, l) /\ active[i] = Append(active, l)[i]
          BY <2>2, <2>3, <2>4
        <5> QED  BY <5>1 DEF S!Range
      <4> QED  BY <4>1, <2>4 DEF S!Range
    <3>3. l \in S!Range(Append(active, l))
      <4>1. Len(active) + 1 \in DOMAIN Append(active, l)
        BY <2>2, <2>4
      <4> QED  BY <4>1, <2>3 DEF S!Range
    <3>4. S!Range(Append(active, l)) \subseteq S!Range(active) \cup {l}
      BY <2>2, <3>1 DEF S!Range
    <3> QED  BY <3>2, <3>3, <3>4
  <2> QED  BY <2>1, <2>2, <2>6, <2>7
<1> QED  BY <1>1, <1>2

LEMMA DeactivateIs ==
    ASSUME NEW E, active \in Seq(E), S!IsInjective(active), NEW l
    PROVE  /\ S!Deactivate(l) \in Seq(E) /\ S!IsInjective(S!Deactivate(l))
           /\ S!Range(S!Deactivate(l)) = S!Range(active) \ {l}
           /\ S!Deactivate(l) # <<>> => active # <<>>
<1>0. DOMAIN active = 1 .. Len(active) /\ Len(active) \in Nat
  OBVIOUS
<1>1. CASE l \notin S!Range(active)
  BY <1>1 DEF S!Deactivate
<1>2. CASE l \in S!Range(active)
  <2> DEFINE n == CHOOSE i \in DOMAIN active : active[i] = l
             rest == S!RemoveAt(active, n)
  <2>1. n \in 1 .. Len(active) /\ active[n] = l /\ S!Deactivate(l) = rest
    <3>1. \E i \in DOMAIN active : active[i] = l
      BY <1>2 DEF S!Range
    <3> QED  BY <1>0, <1>2, <3>1 DEF S!Deactivate
  <2> HIDE DEF n
  <2>2. /\ rest \in Seq(E) /\ Len(rest) = Len(active) - 1
        /\ \A i \in 1 .. Len(active) - 1 : rest[i] = IF i < n THEN active[i] ELSE active[i + 1]
    BY <2>1, RemoveAtIs
  <2> HIDE DEF rest
  <2>3. DOMAIN rest = 1 .. Len(active) - 1
    BY <2>2
  <2>4. S!IsInjective(rest)
    <3>1. ASSUME NEW i \in 1 .. Len(active) - 1, NEW j \in 1 .. Len(active) - 1, rest[i] = rest[j]
          PROVE  i = j
      <4>1. \A a, b \in 1 .. Len(active) : active[a] = active[b] => a = b
        BY <1>0 DEF S!IsInjective
      <4>2. (IF i < n THEN i ELSE i + 1) = (IF j < n THEN j ELSE j + 1)
        BY <1>0, <2>1, <2>2, <3>1, <4>1
      <4> QED  BY <2>1, <4>2
    <3> QED  BY <2>3, <3>1 DEF S!IsInjective
  <2>5. S!Range(rest) \subseteq S!Range(active) \ {l}
    <3>1. ASSUME NEW i \in 1 .. Len(active) - 1 PROVE rest[i] \in S!Range(active) \ {l}
      <4>1. PICK k \in 1 .. Len(active) : rest[i] = active[k] /\ k # n
        BY <1>0, <2>1, <2>2
      <4> QED  BY <1>0, <2>1, <4>1 DEF S!Range, S!IsInjective
    <3> QED  BY <2>3, <3>1 DEF S!Range
  <2>6. S!Range(active) \ {l} \subseteq S!Range(rest)
    <3>1. ASSUME NEW k \in 1 .. Len(active), active[k] # l PROVE active[k] \in S!Range(rest)
      <4>1. CASE k < n
        <5>1. k \in 1 .. Len(active) - 1 /\ rest[k] = active[k]
          BY <2>1, <2>2, <4>1
        <5> QED  BY <2>3, <5>1 DEF S!Range
      <4>2. CASE k > n
        <5>1. k - 1 \in 1 .. Len(active) - 1 /\ ~(k - 1 < n) /\ (k - 1) + 1 = k
          BY <2>1, <4>2
        <5>2. rest[k - 1] = active[k]
          BY <2>2, <5>1
        <5> QED  BY <2>3, <5>1, <5>2 DEF S!Range
      <4> QED  BY <2>1, <3>1, <4>1, <4>2
    <3> QED  BY <1>0, <3>1 DEF S!Range
  <2>7. active # <<>>
    BY <1>0, <2>1
  <2> QED  BY <2>1, <2>2, <2>4, <2>5, <2>6, <2>7
<1> QED  BY <1>1, <1>2

-----------------------------------------------------------------------------
(* The status bar.  B is what the UI has yet to take of the run that is    *)
(* up, oldest first.                                                       *)
B == bus[run]
StartOf(j) == [kind |-> "start", job |-> j]
EndOf(j)   == [kind |-> "end", job |-> j]

StatusTypes ==
    /\ S!TypeOK
    /\ bus \in [1 .. MaxRuns -> Seq(S!Event)] /\ active \in Seq(S!Range(Label))
    /\ late \in BOOLEAN /\ overlap \in BOOLEAN

(* A run that is announced and not yet taken has done nothing, and none    *)
(* that is to come has.                                                    *)
RunsInTurn ==
    /\ ready <=> server = "coming"
    /\ server = "down" => run < MaxRuns
    /\ server = "coming" => work = {} /\ B = <<>>
    /\ \A r \in 1 .. MaxRuns : r > run => bus[r] = <<>>

(* One push at a time, and it carries the errors there are.                *)
PushesFresh ==
    server = "up" /\ ~overlap =>
        /\ \A p, q \in S!Everyone : push[p] # "idle" /\ push[q] # "idle" => p = q
        /\ \A p \in S!Everyone : push[p] = "send" => got[p] = errs
        /\ (\A p \in S!Everyone : push[p] = "idle") => errors = errs

NotRestarting ==
    server = "up" /\ ~late => ~restarting /\ \A i \in 1 .. Len(B) : B[i].kind # "restarting"

(* A job that is over is shown only until the UI learns of it: its end is  *)
(* on the bus or was evicted, and if the result came apart it did so while *)
(* the start was still on the bus, or is yet to come.                      *)
Apart(k)  == k \in Own => k \in early \cup results
EndAfter(i, k) == \E m \in 1 .. Len(B) : m > i /\ B[m] = EndOf(k)
Over(k)   == (EndAfter(0, k) \/ EndOf(k) \in lost) /\ Apart(k)
ShownIsMeant == \A l \in S!Range(active) : \E k \in Jobs : Label[k] = l /\ (k \in work \/ Over(k))
StartsAreMeant ==
    \A i \in 1 .. Len(B), k \in Jobs :
        B[i] = StartOf(k) => k \in work \/ (EndAfter(i, k) /\ Apart(k))

(* A job in flight is shown, or will be: no end of its label comes after.  *)
NoEndAfter(i, l) == \A m \in 1 .. Len(B), k \in Jobs : m > i /\ B[m] = EndOf(k) => Label[k] # l
WillShow(j) ==
    \/ StartOf(j) \in lost
    \/ \E i \in 1 .. Len(B) : B[i] = StartOf(j) /\ NoEndAfter(i, Label[j])
    \/ Label[j] \in S!Range(active) /\ NoEndAfter(0, Label[j])
WorkIsShown == \A j \in work \ twin : WillShow(j)

Truth == server # "coming" /\ ~late => ShownIsMeant /\ StartsAreMeant /\ WorkIsShown

StatusIInv == StatusTypes /\ RunsInTurn /\ S!SpinnerTurns /\ PushesFresh /\ NotRestarting /\ Truth

(* What Broadcast does to the bus: an event is added after the others, the *)
(* oldest of which goes if the channel is full, and is noted as lost.      *)
Added(d, e) ==
    /\ d \in 0 .. 1 /\ d <= Len(B) /\ Len(bus'[run]) = Len(B) - d + 1
    /\ \A i \in 1 .. Len(B) - d : bus'[run][i] = B[i + d]
    /\ bus'[run][Len(B) - d + 1] = e
    /\ lost \subseteq lost' /\ (d = 1 => B[1] \in lost')

LEMMA BroadcastIs ==
    ASSUME StatusTypes, NEW kind \in {"start", "end", "restarting"}, NEW j \in Jobs,
           S!Broadcast(kind, j)
    PROVE  /\ bus' \in [1 .. MaxRuns -> Seq(S!Event)]
           /\ \A r \in 1 .. MaxRuns : Len(bus'[r]) <= BusCap /\ S!Range(bus'[r]) \subseteq S!Event
           /\ \A r \in 1 .. MaxRuns : r # run => bus'[r] = bus[r]
           /\ \E d \in 0 .. 1 : Added(d, [kind |-> kind, job |-> j])
<1> DEFINE e == [kind |-> kind, job |-> j]
           full == Len(B) = BusCap
           rest == IF full THEN Tail(B) ELSE B
<1>0. /\ run \in 1 .. MaxRuns /\ bus \in [1 .. MaxRuns -> Seq(S!Event)] /\ BusCap \in Nat \ {0}
      /\ \A r \in 1 .. MaxRuns : Len(bus[r]) <= BusCap /\ S!Range(bus[r]) \subseteq S!Event
  BY StatusAssumption DEF StatusTypes, S!TypeOK
<1>1. e \in S!Event /\ B \in Seq(S!Event) /\ Len(B) \in Nat /\ Len(B) <= BusCap
  <2>1. e \in S!Event
    BY DEF S!Event
  <2>2. B \in Seq(S!Event) /\ Len(B) <= BusCap
    BY <1>0 DEF B
  <2> QED  BY <2>1, <2>2
<1>2. bus' = [bus EXCEPT ![run] = Append(rest, e)] /\ lost' = IF full THEN lost \cup {Head(B)} ELSE lost
  BY DEF S!Broadcast, B
<1> HIDE DEF e
<1>3. \E d \in 0 .. 1 :
        /\ rest \in Seq(S!Event) /\ d <= Len(B) /\ Len(rest) = Len(B) - d /\ Len(B) - d < BusCap
        /\ \A i \in 1 .. Len(B) - d : rest[i] = B[i + d]
        /\ lost \subseteq lost' /\ (d = 1 => B[1] \in lost')
  <2>1. CASE full
    <3>1. B # <<>>
      BY <1>0, <1>1, <2>1
    <3>2. /\ Tail(B) \in Seq(S!Event) /\ Len(Tail(B)) = Len(B) - 1 /\ Len(B) \in Nat \ {0}
          /\ (\A i \in 1 .. Len(B) - 1 : Tail(B)[i] = B[i + 1]) /\ Head(B) = B[1]
      BY <1>1, <3>1, TailIs
    <3>3. rest = Tail(B) /\ lost' = lost \cup {B[1]}
      BY <1>2, <2>1, <3>2
    <3> HIDE DEF rest, full
    <3>4. Len(B) - 1 < BusCap /\ 1 <= Len(B) /\ 1 \in 0 .. 1
      BY <1>0, <1>1, <3>2
    <3>5. /\ rest \in Seq(S!Event) /\ Len(rest) = Len(B) - 1
          /\ \A i \in 1 .. Len(B) - 1 : rest[i] = B[i + 1]
          /\ lost \subseteq lost' /\ B[1] \in lost'
      BY <3>2, <3>3
    <3> QED  BY <3>4, <3>5
  <2>2. CASE ~full
    <3>1. rest = B /\ lost' = lost /\ Len(B) < BusCap
      BY <1>0, <1>1, <1>2, <2>2
    <3> HIDE DEF rest, full
    <3>2. /\ 0 \in 0 .. 1 /\ 0 <= Len(B) /\ Len(rest) = Len(B) - 0 /\ Len(B) - 0 < BusCap
          /\ \A i \in 1 .. Len(B) - 0 : i + 0 = i
      BY <1>1, <3>1
    <3>3. \A i \in 1 .. Len(B) - 0 : rest[i] = B[i + 0]
      BY <3>1, <3>2
    <3>4. rest \in Seq(S!Event) /\ lost \subseteq lost' /\ (0 = 1 => B[1] \in lost')
      BY <1>1, <3>1
    <3> QED  BY <3>2, <3>3, <3>4
  <2> QED  BY <2>1, <2>2
<1> HIDE DEF rest, full
<1>4. PICK d \in 0 .. 1 :
        /\ rest \in Seq(S!Event) /\ d <= Len(B) /\ Len(rest) = Len(B) - d /\ Len(B) - d < BusCap
        /\ \A i \in 1 .. Len(B) - d : rest[i] = B[i + d]
        /\ lost \subseteq lost' /\ (d = 1 => B[1] \in lost')
  BY <1>3
<1>5. /\ Append(rest, e) \in Seq(S!Event) /\ Len(Append(rest, e)) = Len(B) - d + 1
      /\ \A i \in 1 .. Len(B) - d : Append(rest, e)[i] = B[i + d]
      /\ Append(rest, e)[Len(B) - d + 1] = e
  BY <1>1, <1>4, AppendIs
<1>6. bus'[run] = Append(rest, e) /\ (\A r \in 1 .. MaxRuns : r # run => bus'[r] = bus[r])
      /\ bus' \in [1 .. MaxRuns -> Seq(S!Event)]
  BY <1>0, <1>2, <1>5
<1>7. Len(bus'[run]) <= BusCap /\ S!Range(bus'[run]) \subseteq S!Event
  <2>1. Len(Append(rest, e)) <= BusCap
    BY <1>0, <1>1, <1>4, <1>5
  <2>2. \A s \in Seq(S!Event) : S!Range(s) \subseteq S!Event
    BY DEF S!Range
  <2> QED  BY <1>5, <1>6, <2>1, <2>2
<1>8. Added(d, e)
  BY <1>4, <1>5, <1>6 DEF Added
<1> QED  BY <1>0, <1>6, <1>7, <1>8 DEF e

(* What an event that is added leaves of what is said of the bus.          *)
LEMMA AddedKeeps ==
    ASSUME B \in Seq(S!Event), NEW d, NEW e, Added(d, e), run' = run
    PROVE  /\ \A k : EndAfter(0, k) \/ EndOf(k) \in lost => EndAfter(0, k)' \/ EndOf(k) \in lost'
           /\ \A k : e = EndOf(k) => EndAfter(0, k)'
           /\ \A i \in 1 .. Len(bus'[run]), k \in Jobs :
                bus'[run][i] = StartOf(k) /\ e # StartOf(k) /\ StartsAreMeant
                   => \/ k \in work \/ (e = EndOf(k) /\ EndAfter(i, k)')
                      \/ (EndAfter(i, k)' /\ Apart(k))
           /\ \A j \in Jobs :
                /\ active' = active /\ WillShow(j)
                /\ \A k \in Jobs : e = EndOf(k) => Label[k] # Label[j]
                => WillShow(j)'
           /\ \A j \in Jobs : e = StartOf(j) => WillShow(j)'
<1> DEFINE n == Len(B)
           C == bus'[run]
<1>0. n \in Nat /\ d \in 0 .. 1 /\ d <= n /\ Len(C) = n - d + 1
  BY DEF Added
<1>1. (\A i \in 1 .. n - d : C[i] = B[i + d]) /\ C[n - d + 1] = e /\ lost \subseteq lost' /\ (d = 1 => B[1] \in lost')
  BY DEF Added
<1>2. B' = C
  BY DEF B
<1> HIDE DEF n, C
<1>3. \A m \in 1 .. n : m > d => m - d \in 1 .. n - d + 1 /\ C[m - d] = B[m]
  <2> TAKE m \in 1 .. n
  <2> HAVE m > d
  <2>1. m - d \in 1 .. n - d /\ (m - d) + d = m
    BY <1>0
  <2>2. C[m - d] = B[(m - d) + d]
    BY <1>1, <2>1
  <2> QED  BY <1>0, <2>1, <2>2
<1>4. \A m \in 1 .. n - d + 1 : m = n - d + 1 \/ (m + d \in 1 .. n /\ C[m] = B[m + d])
  BY <1>0, <1>1
<1>5. ASSUME NEW k, EndAfter(0, k) \/ EndOf(k) \in lost PROVE EndAfter(0, k)' \/ EndOf(k) \in lost'
  <2>1. CASE EndOf(k) \in lost
    BY <1>1, <2>1
  <2>2. CASE EndAfter(0, k)
    <3>1. PICK m \in 1 .. n : B[m] = EndOf(k)
      BY <2>2 DEF EndAfter, n
    <3>2. CASE m > d
      <4>1. m - d \in 1 .. Len(C) /\ m - d > 0 /\ C[m - d] = EndOf(k)
        BY <1>0, <1>3, <3>1, <3>2
      <4> QED  BY <1>2, <4>1 DEF EndAfter, EndOf
    <3>3. CASE ~(m > d)
      <4>1. d = 1 /\ m = 1
        BY <1>0, <3>3
      <4> QED  BY <1>1, <3>1, <4>1
    <3> QED  BY <3>2, <3>3
  <2> QED  BY <1>5, <2>1, <2>2
<1>6. ASSUME NEW i \in Nat, NEW k, e = EndOf(k), i < n - d + 1 PROVE EndAfter(i, k)'
  <2>1. n - d + 1 \in 1 .. Len(C) /\ n - d + 1 > i /\ C[n - d + 1] = EndOf(k)
    BY <1>0, <1>1, <1>6
  <2> QED  BY <1>2, <2>1 DEF EndAfter, EndOf
<1>7. ASSUME NEW i \in 1 .. n, NEW k, i > d, EndAfter(i, k) \/ e = EndOf(k) PROVE EndAfter(i - d, k)'
  <2>1. CASE EndAfter(i, k)
    <3>1. PICK m \in 1 .. n : m > i /\ B[m] = EndOf(k)
      BY <2>1 DEF EndAfter, n
    <3>2. m > d
      BY <1>0, <1>7, <3>1
    <3>3. m - d \in 1 .. Len(C) /\ m - d > i - d /\ C[m - d] = EndOf(k)
      <4>1. m - d \in 1 .. n - d + 1 /\ C[m - d] = B[m]
        BY <1>3, <3>2
      <4> QED  BY <1>0, <3>1, <4>1
    <3> QED  BY <1>2, <3>3 DEF EndAfter, EndOf
  <2>2. CASE e = EndOf(k)
    <3>1. i - d \in Nat /\ i - d < n - d + 1
      BY <1>0, <1>7
    <3> QED  BY <1>6, <2>2, <3>1
  <2> QED  BY <1>7, <2>1, <2>2
<1>8. ASSUME NEW i \in Nat, NEW o \in Nat, NEW l, \A k \in Jobs : e = EndOf(k) => Label[k] # l,
             NoEndAfter(i, l), \A m \in Nat : m > o => m + d > i
      PROVE  NoEndAfter(o, l)'
  <2>1. ASSUME NEW m \in 1 .. Len(C), NEW k \in Jobs, m > o, C[m] = EndOf(k) PROVE Label[k] # l
    <3>1. CASE m = n - d + 1
      BY <1>1, <1>8, <2>1, <3>1
    <3>2. CASE m + d \in 1 .. n /\ C[m] = B[m + d]
      <4>1. m + d > i
        BY <1>0, <1>8, <2>1
      <4> QED  BY <1>8, <2>1, <3>2, <4>1 DEF NoEndAfter, n
    <3> QED  BY <1>0, <1>4, <3>1, <3>2
  <2> QED  BY <1>2, <2>1 DEF NoEndAfter, EndOf
<1>9. ASSUME NEW i \in 1 .. Len(C), NEW k \in Jobs, C[i] = StartOf(k), e # StartOf(k), StartsAreMeant
      PROVE  \/ k \in work \/ (e = EndOf(k) /\ EndAfter(i, k)')
             \/ (EndAfter(i, k)' /\ Apart(k))
  <2>1. i + d \in 1 .. n /\ B[i + d] = StartOf(k)
    BY <1>0, <1>1, <1>4, <1>9
  <2>2. k \in work \/ (EndAfter(i + d, k) /\ Apart(k))
    BY <1>9, <2>1 DEF StartsAreMeant, n
  <2>3. ASSUME EndAfter(i + d, k) PROVE EndAfter(i, k)'
    <3>1. EndAfter((i + d) - d, k)'
      BY <1>0, <1>7, <2>1, <2>3
    <3>2. (i + d) - d = i
      BY <1>0
    <3> QED  BY <3>1, <3>2
  <2> QED  BY <2>2, <2>3
<1>10. ASSUME NEW j \in Jobs, active' = active, WillShow(j),
              \A k \in Jobs : e = EndOf(k) => Label[k] # Label[j]
       PROVE  WillShow(j)'
  <2>1. CASE StartOf(j) \in lost
    BY <1>1, <2>1 DEF WillShow, StartOf
  <2>2. ASSUME NEW i \in 1 .. n, B[i] = StartOf(j), NoEndAfter(i, Label[j]) PROVE WillShow(j)'
    <3>1. CASE i > d
      <4>1. i - d \in 1 .. Len(C) /\ C[i - d] = StartOf(j)
        <5>1. i - d \in 1 .. n - d + 1 /\ C[i - d] = B[i]
          BY <1>3, <3>1
        <5> QED  BY <1>0, <2>2, <5>1
      <4>2. NoEndAfter(i - d, Label[j])'
        <5>1. i - d \in Nat /\ i \in Nat /\ \A m \in Nat : m > i - d => m + d > i
          BY <1>0, <3>1
        <5> QED  BY <1>8, <1>10, <2>2, <5>1
      <4> QED  BY <1>2, <4>1, <4>2 DEF WillShow, StartOf
    <3>2. CASE ~(i > d)
      <4>1. d = 1 /\ i = 1
        BY <1>0, <3>2
      <4> QED  BY <1>1, <2>2, <4>1 DEF WillShow, StartOf
    <3> QED  BY <3>1, <3>2
  <2>3. CASE Label[j] \in S!Range(active) /\ NoEndAfter(0, Label[j])
    <3>1. 0 \in Nat /\ \A m \in Nat : m > 0 => m + d > 0
      BY <1>0
    <3>2. NoEndAfter(0, Label[j])'
      BY <1>8, <1>10, <2>3, <3>1
    <3> QED  BY <1>10, <2>3, <3>2 DEF WillShow
  <2> QED  BY <1>10, <2>1, <2>2, <2>3 DEF WillShow, n
<1>11. ASSUME NEW j \in Jobs, e = StartOf(j) PROVE WillShow(j)'
  <2>1. PICK i \in 1 .. Len(C) : C[i] = StartOf(j) /\ \A m \in 1 .. Len(C) : ~(m > i)
    BY <1>0, <1>1, <1>11
  <2>2. NoEndAfter(i, Label[j])'
    BY <1>2, <2>1 DEF NoEndAfter
  <2> QED  BY <1>2, <2>1, <2>2 DEF WillShow, StartOf
<1>12. \A k : e = EndOf(k) => EndAfter(0, k)'
  BY <1>0, <1>6
<1> QED  BY <1>5, <1>9, <1>10, <1>11, <1>12 DEF C

(* What is left when the oldest event is taken.                            *)
LEMMA TakenKeeps ==
    ASSUME B \in Seq(S!Event), B # <<>>, bus'[run] = Tail(B), run' = run, lost' = lost
    PROVE  /\ \A k : B[1] # EndOf(k) /\ (EndAfter(0, k) \/ EndOf(k) \in lost)
                   => EndAfter(0, k)' \/ EndOf(k) \in lost'
           /\ \A k : EndAfter(1, k) => EndAfter(0, k)'
           /\ \A i \in 1 .. Len(bus'[run]), k \in Jobs :
                bus'[run][i] = StartOf(k) /\ StartsAreMeant
                   => k \in work \/ (EndAfter(i, k)' /\ Apart(k))
           /\ \A j \in Jobs :
                /\ WillShow(j)
                /\ B[1] = StartOf(j) => Label[j] \in S!Range(active')
                /\ Label[j] \in S!Range(active) =>
                     \/ Label[j] \in S!Range(active')
                     \/ \E k \in Jobs : B[1] = EndOf(k) /\ Label[k] = Label[j]
                => WillShow(j)'
<1> DEFINE n == Len(B)
           C == bus'[run]
<1>0. n \in Nat \ {0} /\ Len(C) = n - 1 /\ \A i \in 1 .. n - 1 : C[i] = B[i + 1]
  BY TailIs
<1>1. B' = C
  BY DEF B
<1> HIDE DEF n, C
<1>2. \A m \in 1 .. n : m > 1 => m - 1 \in 1 .. n - 1 /\ C[m - 1] = B[m]
  <2> TAKE m \in 1 .. n
  <2> HAVE m > 1
  <2>1. m - 1 \in 1 .. n - 1 /\ (m - 1) + 1 = m
    BY <1>0
  <2>2. C[m - 1] = B[(m - 1) + 1]
    BY <1>0, <2>1
  <2> QED  BY <2>1, <2>2
<1>3. ASSUME NEW k, NEW o \in Nat, NEW m \in 1 .. n, m > o + 1, B[m] = EndOf(k) PROVE EndAfter(o, k)'
  <2>1. m - 1 \in 1 .. n - 1 /\ C[m - 1] = B[m] /\ m - 1 > o
    <3>1. m > 1
      BY <1>3
    <3> QED  BY <1>2, <1>3, <3>1
  <2> QED  BY <1>0, <1>1, <1>3, <2>1 DEF EndAfter, EndOf
<1>4. ASSUME NEW k, B[1] # EndOf(k), EndAfter(0, k) \/ EndOf(k) \in lost
      PROVE  EndAfter(0, k)' \/ EndOf(k) \in lost'
  <2>1. ASSUME EndAfter(0, k) PROVE EndAfter(0, k)'
    <3>1. PICK m \in 1 .. n : B[m] = EndOf(k)
      BY <2>1 DEF EndAfter, n
    <3>2. m > 0 + 1
      BY <1>4, <3>1
    <3> QED  BY <1>3, <3>1, <3>2
  <2> QED  BY <1>4, <2>1
<1>5. ASSUME NEW o \in Nat, NEW k, EndAfter(o + 1, k) PROVE EndAfter(o, k)'
  <2>1. PICK m \in 1 .. n : m > o + 1 /\ B[m] = EndOf(k)
    BY <1>5 DEF EndAfter, n
  <2> QED  BY <1>3, <2>1
<1>6. \A k : EndAfter(1, k) => EndAfter(0, k)'
  <2>1. 0 + 1 = 1 /\ 0 \in Nat
    OBVIOUS
  <2> QED  BY <1>5, <2>1
<1>7. ASSUME NEW i \in 1 .. Len(C), NEW k \in Jobs, C[i] = StartOf(k), StartsAreMeant
      PROVE  k \in work \/ (EndAfter(i, k)' /\ Apart(k))
  <2>1. i + 1 \in 1 .. n /\ B[i + 1] = StartOf(k) /\ i \in Nat
    BY <1>0, <1>7
  <2>2. k \in work \/ (EndAfter(i + 1, k) /\ Apart(k))
    BY <1>7, <2>1 DEF StartsAreMeant, n
  <2> QED  BY <1>5, <2>1, <2>2
<1>8. ASSUME NEW o \in Nat, NEW i \in Nat, NEW l, NoEndAfter(i, l), \A m \in Nat : m > o => m + 1 > i
      PROVE  NoEndAfter(o, l)'
  <2>1. ASSUME NEW m \in 1 .. Len(C), NEW k \in Jobs, m > o, C[m] = EndOf(k) PROVE Label[k] # l
    <3>1. m + 1 \in 1 .. n /\ m \in 1 .. n - 1 /\ m + 1 > i
      BY <1>0, <1>8, <2>1
    <3>2. B[m + 1] = EndOf(k)
      BY <1>0, <2>1, <3>1
    <3> QED  BY <1>8, <3>1, <3>2 DEF NoEndAfter, n
  <2> QED  BY <1>1, <2>1 DEF NoEndAfter, EndOf
<1>9. ASSUME NEW j \in Jobs, WillShow(j),
             B[1] = StartOf(j) => Label[j] \in S!Range(active'),
             Label[j] \in S!Range(active) =>
               \/ Label[j] \in S!Range(active')
               \/ \E k \in Jobs : B[1] = EndOf(k) /\ Label[k] = Label[j]
      PROVE  WillShow(j)'
  <2>1. CASE StartOf(j) \in lost
    BY <2>1 DEF WillShow, StartOf
  <2>2. ASSUME NEW i \in 1 .. n, B[i] = StartOf(j), NoEndAfter(i, Label[j]) PROVE WillShow(j)'
    <3>1. CASE i > 1
      <4>1. i - 1 \in 1 .. Len(C) /\ C[i - 1] = StartOf(j)
        BY <1>0, <1>2, <2>2, <3>1
      <4>2. NoEndAfter(i - 1, Label[j])'
        <5>1. i - 1 \in Nat /\ i \in Nat /\ \A m \in Nat : m > i - 1 => m + 1 > i
          BY <3>1
        <5> QED  BY <1>8, <2>2, <5>1
      <4> QED  BY <1>1, <4>1, <4>2 DEF WillShow, StartOf
    <3>2. CASE ~(i > 1)
      <4>1. i = 1
        BY <3>2
      <4>2. 0 \in Nat /\ 1 \in Nat /\ \A m \in Nat : m > 0 => m + 1 > 1
        OBVIOUS
      <4>3. NoEndAfter(0, Label[j])'
        BY <1>8, <2>2, <4>1, <4>2
      <4>4. Label[j] \in S!Range(active')
        BY <1>9, <2>2, <4>1
      <4> QED  BY <4>3, <4>4 DEF WillShow, S!Range
    <3> QED  BY <3>1, <3>2
  <2>3. CASE Label[j] \in S!Range(active) /\ NoEndAfter(0, Label[j])
    <3>1. 0 \in Nat /\ \A m \in Nat : m > 0 => m + 1 > 0
      OBVIOUS
    <3>2. NoEndAfter(0, Label[j])'
      BY <1>8, <2>3, <3>1
    <3>3. 1 \in 1 .. n /\ 1 > 0
      BY <1>0
    <3>4. ~ \E k \in Jobs : B[1] = EndOf(k) /\ Label[k] = Label[j]
      BY <2>3, <3>3 DEF NoEndAfter, n
    <3>5. Label[j] \in S!Range(active')
      BY <1>9, <2>3, <3>4
    <3> QED  BY <3>2, <3>5 DEF WillShow, S!Range
  <2> QED  BY <1>9, <2>1, <2>2, <2>3 DEF WillShow, n
<1> QED  BY <1>4, <1>6, <1>7, <1>9 DEF C

(* The three parts of the truth, action by action.                         *)
LEMMA BusIs ==
    ASSUME StatusIInv
    PROVE  /\ run \in 1 .. MaxRuns /\ B \in Seq(S!Event) /\ Len(B) \in Nat
           /\ active \in Seq(S!Range(Label)) /\ S!IsInjective(active) /\ work \subseteq Jobs
           /\ results \subseteq Own /\ late \in BOOLEAN /\ server \in {"up", "down", "coming"}
BY DEF StatusIInv, StatusTypes, S!TypeOK, B

LEMMA KindsDiffer ==
    /\ \A j, k : StartOf(j) # EndOf(k)
    /\ \A j, k : StartOf(j) = StartOf(k) => j = k
    /\ \A j, k : EndOf(j) = EndOf(k) => j = k
    /\ \A j, k : [kind |-> "restarting", job |-> j] # EndOf(k)
    /\ \A j, k : [kind |-> "restarting", job |-> j] # StartOf(k)
<1>1. \A j, k : StartOf(j).kind = "start" /\ EndOf(k).kind = "end" /\ StartOf(j).job = j /\ EndOf(k).job = k
  BY DEF StartOf, EndOf
<1>2. \A j : [kind |-> "restarting", job |-> j].kind = "restarting"
  OBVIOUS
<1>3. "start" # "end" /\ "restarting" # "start" /\ "restarting" # "end"
  OBVIOUS
<1> QED  BY <1>1, <1>2, <1>3

LEMMA StartWorkTruth ==
    ASSUME StatusIInv, NEW j \in Jobs, S!StartWork(j) PROVE Truth'
<1>0. /\ server = "up" /\ work' = work \cup {j} /\ twin' = twin \ {j} /\ early' = early \ {j}
      /\ S!Broadcast("start", j) /\ UNCHANGED <<run, server, results, active, late>>
  BY DEF S!StartWork, S!barVars
<1>1. PICK d \in 0 .. 1 : Added(d, StartOf(j))
  BY <1>0, BroadcastIs DEF StatusIInv, StartOf
<1>2. B' = bus'[run]
  BY <1>0 DEF B
<1> SUFFICES ASSUME ~late PROVE ShownIsMeant' /\ StartsAreMeant' /\ WorkIsShown'
  BY <1>0 DEF Truth
<1>3. ShownIsMeant /\ StartsAreMeant /\ WorkIsShown
  BY <1>0 DEF StatusIInv, Truth
<1>4. /\ \A k : EndAfter(0, k) \/ EndOf(k) \in lost => EndAfter(0, k)' \/ EndOf(k) \in lost'
      /\ \A i \in 1 .. Len(bus'[run]), k \in Jobs :
           bus'[run][i] = StartOf(k) /\ StartOf(j) # StartOf(k)
             => k \in work \/ (EndAfter(i, k)' /\ Apart(k))
      /\ \A k \in Jobs : WillShow(k) => WillShow(k)'
      /\ WillShow(j)'
  <2>1. \A k : StartOf(j) # EndOf(k)
    BY KindsDiffer
  <2> QED  BY <1>0, <1>1, <1>3, <2>1, BusIs, AddedKeeps
<1>5. \A k \in Jobs : Apart(k) => k = j \/ Apart(k)'
  BY <1>0 DEF Apart
<1>6. ShownIsMeant'
  <2> SUFFICES ASSUME NEW l \in S!Range(active)
               PROVE  \E k \in Jobs : Label[k] = l /\ (k \in work' \/ Over(k)')
    BY <1>0 DEF ShownIsMeant
  <2>1. PICK k \in Jobs : Label[k] = l /\ (k \in work \/ Over(k))
    BY <1>3 DEF ShownIsMeant
  <2>2. k \in work' \/ Over(k)'
    BY <1>0, <1>4, <1>5, <2>1 DEF Over, EndOf
  <2> QED  BY <2>1, <2>2
<1>7. StartsAreMeant'
  <2> SUFFICES ASSUME NEW i \in 1 .. Len(bus'[run]), NEW k \in Jobs, bus'[run][i] = StartOf(k)
               PROVE  k \in work' \/ (EndAfter(i, k)' /\ Apart(k)')
    BY <1>2 DEF StartsAreMeant, StartOf
  <2>1. CASE k = j
    BY <1>0, <2>1
  <2>2. CASE k # j
    <3>1. StartOf(j) # StartOf(k)
      BY <2>2, KindsDiffer
    <3> QED  BY <1>0, <1>4, <1>5, <2>2, <3>1
  <2> QED  BY <2>1, <2>2
<1>8. WorkIsShown'
  BY <1>0, <1>3, <1>4, BusIs DEF WorkIsShown
<1> QED  BY <1>6, <1>7, <1>8

LEMMA EndWorkTruth ==
    ASSUME StatusIInv, NEW j \in Jobs, S!EndWork(j) PROVE Truth'
<1>0. /\ server # "coming" /\ work' = work \ {j}
      /\ results' = IF j \in Own THEN results \cup {j} ELSE results
      /\ twin' = twin \cup {i \in work \ {j} : Label[i] = Label[j]}
      /\ S!Broadcast("end", j) /\ UNCHANGED <<run, server, active, late, early>>
  BY DEF S!EndWork, S!barVars
<1>1. PICK d \in 0 .. 1 : Added(d, EndOf(j))
  BY <1>0, BroadcastIs DEF StatusIInv, EndOf
<1>2. B' = bus'[run]
  BY <1>0 DEF B
<1> SUFFICES ASSUME ~late PROVE ShownIsMeant' /\ StartsAreMeant' /\ WorkIsShown'
  BY <1>0 DEF Truth
<1>3. ShownIsMeant /\ StartsAreMeant /\ WorkIsShown
  BY <1>0 DEF StatusIInv, Truth
<1>4. /\ \A k : EndAfter(0, k) \/ EndOf(k) \in lost => EndAfter(0, k)' \/ EndOf(k) \in lost'
      /\ EndAfter(0, j)'
      /\ \A i \in 1 .. Len(bus'[run]), k \in Jobs :
           bus'[run][i] = StartOf(k)
             => k \in work \/ (EndOf(j) = EndOf(k) /\ EndAfter(i, k)') \/ (EndAfter(i, k)' /\ Apart(k))
      /\ \A k \in Jobs : WillShow(k) /\ (\A i \in Jobs : EndOf(j) = EndOf(i) => Label[i] # Label[k])
                           => WillShow(k)'
  <2>1. \A k : EndOf(j) # StartOf(k)
    BY KindsDiffer
  <2> QED  BY <1>0, <1>1, <1>3, <2>1, BusIs, AddedKeeps
<1>5. \A k \in Jobs : (Apart(k) => Apart(k)') /\ Apart(j)'
  BY <1>0 DEF Apart
<1>6. ShownIsMeant'
  <2> SUFFICES ASSUME NEW l \in S!Range(active)
               PROVE  \E k \in Jobs : Label[k] = l /\ (k \in work' \/ Over(k)')
    BY <1>0 DEF ShownIsMeant
  <2>1. PICK k \in Jobs : Label[k] = l /\ (k \in work \/ Over(k))
    BY <1>3 DEF ShownIsMeant
  <2>2. k \in work' \/ Over(k)'
    BY <1>0, <1>4, <1>5, <2>1 DEF Over, EndOf
  <2> QED  BY <2>1, <2>2
<1>7. StartsAreMeant'
  <2> SUFFICES ASSUME NEW i \in 1 .. Len(bus'[run]), NEW k \in Jobs, bus'[run][i] = StartOf(k)
               PROVE  k \in work' \/ (EndAfter(i, k)' /\ Apart(k)')
    BY <1>2 DEF StartsAreMeant, StartOf
  <2>1. CASE k \in work /\ k # j
    BY <1>0, <2>1
  <2>2. CASE k = j
    <3>1. EndAfter(i, j)'
      <4>1. i \in 1 .. Len(bus'[run]) /\ bus'[run][i] # EndOf(j)
        BY KindsDiffer
      <4>2. bus'[run][Len(B) - d + 1] = EndOf(j) /\ Len(bus'[run]) = Len(B) - d + 1 /\ Len(B) - d + 1 \in Nat
        BY <1>1, BusIs DEF Added
      <4>3. PICK m \in Nat : m = Len(B) - d + 1
        BY <4>2
      <4>4. i # m
        BY <4>1, <4>2, <4>3
      <4>5. m \in 1 .. Len(bus'[run]) /\ m > i /\ bus'[run][m] = EndOf(j)
        BY <4>2, <4>3, <4>4
      <4> QED  BY <1>2, <4>5 DEF EndAfter, EndOf
    <3> QED  BY <1>5, <2>2, <3>1
  <2>3. CASE k \notin work /\ k # j
    <3>1. EndOf(j) # EndOf(k)
      BY <2>3, KindsDiffer
    <3> QED  BY <1>4, <1>5, <2>3, <3>1
  <2> QED  BY <2>1, <2>2, <2>3
<1>8. WorkIsShown'
  <2> SUFFICES ASSUME NEW k \in work' \ twin' PROVE WillShow(k)'
    BY DEF WorkIsShown
  <2>1. k \in Jobs /\ k \in work \ twin /\ Label[k] # Label[j]
    BY <1>0, BusIs
  <2>2. \A i \in Jobs : EndOf(j) = EndOf(i) => Label[i] # Label[k]
    BY <2>1, KindsDiffer
  <2> QED  BY <1>3, <1>4, <2>1, <2>2 DEF WorkIsShown
<1> QED  BY <1>6, <1>7, <1>8

LEMMA RestartTruth ==
    ASSUME StatusIInv, S!Restart PROVE Truth'
<1> DEFINE j == CHOOSE k \in Jobs : TRUE
<1>0. /\ server = "up" /\ server' = "down" /\ j \in Jobs /\ S!Broadcast("restarting", j)
      /\ UNCHANGED <<run, work, results, active, late, early, twin>>
  BY StatusAssumption DEF S!Restart, S!barVars
<1> HIDE DEF j
<1>1. PICK d \in 0 .. 1 : Added(d, [kind |-> "restarting", job |-> j])
  BY <1>0, BroadcastIs DEF StatusIInv
<1>2. B' = bus'[run]
  BY <1>0 DEF B
<1> SUFFICES ASSUME ~late PROVE ShownIsMeant' /\ StartsAreMeant' /\ WorkIsShown'
  BY <1>0 DEF Truth
<1>3. ShownIsMeant /\ StartsAreMeant /\ WorkIsShown
  BY <1>0 DEF StatusIInv, Truth
<1>4. /\ \A k : EndAfter(0, k) \/ EndOf(k) \in lost => EndAfter(0, k)' \/ EndOf(k) \in lost'
      /\ \A i \in 1 .. Len(bus'[run]), k \in Jobs :
           bus'[run][i] = StartOf(k) => k \in work \/ (EndAfter(i, k)' /\ Apart(k))
      /\ \A k \in Jobs : WillShow(k) => WillShow(k)'
  <2> DEFINE e == [kind |-> "restarting", job |-> j]
  <2>1. (\A k : e # StartOf(k)) /\ (\A k : e # EndOf(k)) /\ Added(d, e)
    BY <1>1, KindsDiffer
  <2> HIDE DEF e
  <2> QED  BY <1>0, <1>3, <2>1, BusIs, AddedKeeps
<1>5. \A k \in Jobs : Apart(k) => Apart(k)'
  BY <1>0 DEF Apart
<1>6. ShownIsMeant'
  BY <1>0, <1>3, <1>4, <1>5 DEF ShownIsMeant, Over, EndOf
<1>7. StartsAreMeant'
  BY <1>0, <1>2, <1>4, <1>5 DEF StartsAreMeant, StartOf
<1>8. WorkIsShown'
  BY <1>0, <1>3, <1>4, BusIs DEF WorkIsShown
<1> QED  BY <1>6, <1>7, <1>8

LEMMA TakeEventTruth ==
    ASSUME StatusIInv, NEW r \in 1 .. MaxRuns, S!TakeEvent(r) PROVE Truth'
<1>0. /\ bus[r] # <<>> /\ S!ApplyEvent(Head(bus[r])) /\ bus' = [bus EXCEPT ![r] = Tail(@)]
      /\ late' = (late \/ (r < run /\ ~ready))
      /\ UNCHANGED <<run, server, work, results, twin, lost, early>>
  BY DEF S!TakeEvent, S!serverVars
<1> SUFFICES ASSUME server # "coming", ~late' PROVE ShownIsMeant' /\ StartsAreMeant' /\ WorkIsShown'
  BY <1>0 DEF Truth
<1>1. r = run /\ ~late /\ run \in 1 .. MaxRuns /\ bus \in [1 .. MaxRuns -> Seq(S!Event)]
  <2>1. ~ready /\ ~(r > run)
    BY <1>0 DEF StatusIInv, RunsInTurn
  <2>2. ~late /\ ~(r < run)
    <3>1. late' = (late \/ (r < run /\ ~ready))
      BY <1>0
    <3> HIDE <1>0
    <3> QED  BY <2>1, <3>1, Zenon
  <2>3. run \in 1 .. MaxRuns /\ bus \in [1 .. MaxRuns -> Seq(S!Event)]
    BY DEF StatusIInv, StatusTypes, S!TypeOK
  <2> QED  BY <2>1, <2>2, <2>3
<1>2. bus'[run] = Tail(B) /\ B # <<>> /\ B' = bus'[run] /\ B \in Seq(S!Event)
  BY <1>0, <1>1 DEF B
<1>3. ShownIsMeant /\ StartsAreMeant /\ WorkIsShown
  BY <1>0, <1>1 DEF StatusIInv, Truth
<1>4. Head(bus[r]) = B[1] /\ B[1] \in S!Event /\ 1 \in 1 .. Len(B)
  BY <1>1, <1>2, TailIs DEF B
<1>5. /\ \A k : B[1] # EndOf(k) /\ (EndAfter(0, k) \/ EndOf(k) \in lost) => EndAfter(0, k)' \/ EndOf(k) \in lost'
      /\ \A k : EndAfter(1, k) => EndAfter(0, k)'
      /\ \A i \in 1 .. Len(bus'[run]), k \in Jobs :
           bus'[run][i] = StartOf(k) => k \in work \/ (EndAfter(i, k)' /\ Apart(k))
      /\ \A j \in Jobs :
           /\ WillShow(j)
           /\ B[1] = StartOf(j) => Label[j] \in S!Range(active')
           /\ Label[j] \in S!Range(active) =>
                \/ Label[j] \in S!Range(active')
                \/ \E k \in Jobs : B[1] = EndOf(k) /\ Label[k] = Label[j]
           => WillShow(j)'
  BY <1>0, <1>2, <1>3, TakenKeeps
<1>6. \A k \in Jobs : Apart(k) <=> Apart(k)'
  BY <1>0 DEF Apart
<1>7. PICK e \in Jobs : B[1] \in {StartOf(e), EndOf(e), [kind |-> "restarting", job |-> e]}
  <2>1. B[1].job \in Jobs /\ B[1].kind \in {"start", "end", "restarting"}
        /\ B[1] = [kind |-> B[1].kind, job |-> B[1].job]
    BY <1>4 DEF S!Event
  <2> QED  BY <2>1 DEF StartOf, EndOf
<1>8. /\ B[1] = StartOf(e) => S!Range(active') = S!Range(active) \cup {Label[e]}
      /\ B[1] = EndOf(e) => S!Range(active') = S!Range(active) \ {Label[e]}
      /\ B[1] = [kind |-> "restarting", job |-> e] => active' = active
  <2>1. active \in Seq(S!Range(Label)) /\ S!IsInjective(active) /\ Label[e] \in S!Range(Label)
    BY BusIs, StatusAssumption
  <2>2. ASSUME B[1] = StartOf(e) PROVE active' = S!Activate(Label[e])
    BY <1>0, <1>4, <2>2 DEF S!ApplyEvent, StartOf
  <2>3. ASSUME B[1] = EndOf(e) PROVE active' = S!Deactivate(Label[e])
    BY <1>0, <1>4, <2>3 DEF S!ApplyEvent, EndOf
  <2>4. ASSUME B[1] = [kind |-> "restarting", job |-> e] PROVE active' = active
    BY <1>0, <1>4, <2>4 DEF S!ApplyEvent
  <2> QED  BY <2>1, <2>2, <2>3, <2>4, ActivateIs, DeactivateIs
<1>9. ShownIsMeant'
  <2> SUFFICES ASSUME NEW l \in S!Range(active')
               PROVE  \E k \in Jobs : Label[k] = l /\ (k \in work \/ Over(k)')
    BY <1>0 DEF ShownIsMeant, S!Range
  <2>1. ASSUME l \in S!Range(active), B[1] = EndOf(e) => l # Label[e]
        PROVE  \E k \in Jobs : Label[k] = l /\ (k \in work \/ Over(k)')
    <3>1. PICK k \in Jobs : Label[k] = l /\ (k \in work \/ Over(k))
      BY <1>3, <2>1 DEF ShownIsMeant
    <3>2. B[1] # EndOf(k)
      BY <1>7, <2>1, <3>1, KindsDiffer
    <3>3. k \in work \/ Over(k)'
      BY <1>0, <1>5, <1>6, <3>1, <3>2 DEF Over, EndOf
    <3> QED  BY <3>1, <3>3
  <2>2. CASE B[1] = StartOf(e) /\ l = Label[e]
    <3>1. e \in work \/ (EndAfter(1, e) /\ Apart(e))
      BY <1>3, <1>4, <2>2 DEF StartsAreMeant
    <3>2. e \in work \/ Over(e)'
      BY <1>5, <1>6, <3>1 DEF Over
    <3> QED  BY <2>2, <3>2
  <2> QED  BY <1>7, <1>8, <2>1, <2>2, KindsDiffer
<1>10. StartsAreMeant'
  BY <1>0, <1>2, <1>5, <1>6 DEF StartsAreMeant, StartOf
<1>11. WorkIsShown'
  <2> SUFFICES ASSUME NEW k \in work \ twin PROVE WillShow(k)'
    BY <1>0 DEF WorkIsShown
  <2>1. k \in Jobs /\ WillShow(k)
    BY <1>3, BusIs DEF WorkIsShown
  <2>2. B[1] = StartOf(k) => Label[k] \in S!Range(active')
    BY <1>7, <1>8, KindsDiffer
  <2>3. Label[k] \in S!Range(active) =>
          \/ Label[k] \in S!Range(active')
          \/ \E i \in Jobs : B[1] = EndOf(i) /\ Label[i] = Label[k]
    BY <1>7, <1>8
  <2> QED  BY <1>5, <2>1, <2>2, <2>3
<1> QED  BY <1>9, <1>10, <1>11

LEMMA TakeResultTruth ==
    ASSUME StatusIInv, NEW j \in Own, S!TakeResult(j) PROVE Truth'
<1>0. /\ j \in results /\ results' = results \ {j} /\ active' = S!Deactivate(Label[j])
      /\ early' = IF S!OnTheBus("start", j) THEN early \cup {j} ELSE early
      /\ twin' = twin \cup {i \in work : Label[i] = Label[j]}
      /\ UNCHANGED <<run, server, work, bus, lost, late>>
  BY DEF S!TakeResult
<1> SUFFICES ASSUME server # "coming", ~late PROVE ShownIsMeant' /\ StartsAreMeant' /\ WorkIsShown'
  BY <1>0 DEF Truth
<1>1. ShownIsMeant /\ StartsAreMeant /\ WorkIsShown
  BY DEF StatusIInv, Truth
<1>2. S!Range(active') = S!Range(active) \ {Label[j]}
  BY <1>0, BusIs, DeactivateIs
<1>3. B' = B /\ lost' = lost /\ \A k : (EndAfter(0, k) <=> EndAfter(0, k)') /\ (StartOf(k)' = StartOf(k))
  BY <1>0 DEF B, EndAfter, EndOf, StartOf
<1>4. \A k \in Jobs : Apart(k) /\ k # j => Apart(k)'
  BY <1>0 DEF Apart
<1>5. ShownIsMeant'
  <2> SUFFICES ASSUME NEW l \in S!Range(active')
               PROVE  \E k \in Jobs : Label[k] = l /\ (k \in work \/ Over(k)')
    BY <1>0 DEF ShownIsMeant, S!Range
  <2>1. PICK k \in Jobs : Label[k] = l /\ (k \in work \/ Over(k)) /\ k # j
    BY <1>1, <1>2 DEF ShownIsMeant
  <2>2. k \in work \/ Over(k)'
    BY <1>3, <1>4, <2>1 DEF Over, EndOf
  <2> QED  BY <2>1, <2>2
<1>6. StartsAreMeant'
  <2> SUFFICES ASSUME NEW i \in 1 .. Len(B), NEW k \in Jobs, B[i] = StartOf(k)
               PROVE  k \in work \/ (EndAfter(i, k)' /\ Apart(k)')
    BY <1>0, <1>3 DEF StartsAreMeant, StartOf
  <2>1. k \in work \/ (EndAfter(i, k) /\ Apart(k))
    BY <1>1 DEF StartsAreMeant
  <2>2. EndAfter(i, k) => EndAfter(i, k)'
    BY <1>3 DEF EndAfter, EndOf
  <2>3. k = j => Apart(k)'
    <3>1. k = j => S!OnTheBus("start", j)
      BY DEF S!OnTheBus, B, StartOf
    <3> QED  BY <1>0, <3>1 DEF Apart
  <2> QED  BY <1>4, <2>1, <2>2, <2>3
<1>7. WorkIsShown'
  <2> SUFFICES ASSUME NEW k \in work \ twin' PROVE WillShow(k)'
    BY <1>0 DEF WorkIsShown
  <2>1. WillShow(k) /\ Label[k] # Label[j]
    BY <1>0, <1>1 DEF WorkIsShown
  <2>2. \A i, l : NoEndAfter(i, l) => NoEndAfter(i, l)'
    BY <1>3 DEF NoEndAfter, EndOf
  <2>3. Label[k] \in S!Range(active) => Label[k] \in S!Range(active')
    BY <1>2, <2>1
  <2>4. CASE StartOf(k) \in lost
    BY <1>3, <2>4 DEF WillShow, StartOf
  <2>5. ASSUME NEW i \in 1 .. Len(B), B[i] = StartOf(k), NoEndAfter(i, Label[k]) PROVE WillShow(k)'
    BY <1>3, <2>2, <2>5 DEF WillShow, StartOf
  <2>6. CASE Label[k] \in S!Range(active) /\ NoEndAfter(0, Label[k])
    <3>1. NoEndAfter(0, Label[k])' /\ Label[k] \in S!Range(active')
      BY <2>2, <2>3, <2>6
    <3> QED  BY <3>1 DEF WillShow, S!Range
  <2> QED  BY <2>1, <2>4, <2>5, <2>6 DEF WillShow
<1> QED  BY <1>5, <1>6, <1>7

(* A run that is taken begins with nothing in flight and nothing shown.    *)
LEMMA TakeReadyTruth ==
    ASSUME StatusIInv, S!TakeReady PROVE Truth'
<1>0. ready /\ active' = <<>> /\ UNCHANGED <<run, bus, work, twin>>
  BY DEF S!TakeReady
<1>1. work = {} /\ B = <<>>
  BY <1>0 DEF StatusIInv, RunsInTurn, StatusTypes, S!TypeOK
<1>2. B' = <<>> /\ Len(B') = 0 /\ work' = {} /\ S!Range(active') = {}
  BY <1>0, <1>1 DEF B, S!Range
<1> QED  BY <1>2 DEF Truth, ShownIsMeant, StartsAreMeant, WorkIsShown

LEMMA TruthStep ==
    ASSUME StatusIInv, S!Next PROVE Truth'
<1>1. CASE S!NewRun
  BY <1>1 DEF S!NewRun, Truth
<1>2. CASE UNCHANGED <<run, server, bus, work, results, twin, active, lost, late, early>>
  <2>1. B' = B /\ Truth
    BY <1>2 DEF B, StatusIInv
  <2>2. /\ \A i, k : EndAfter(i, k) <=> EndAfter(i, k)'
        /\ \A k : Apart(k) <=> Apart(k)'
        /\ \A k : Over(k) <=> Over(k)'
        /\ \A i, l : NoEndAfter(i, l) <=> NoEndAfter(i, l)'
        /\ \A k : WillShow(k) <=> WillShow(k)'
    BY <1>2, <2>1 DEF EndAfter, Apart, Over, NoEndAfter, WillShow, EndOf, StartOf
  <2> QED
    BY <1>2, <2>1, <2>2 DEF Truth, ShownIsMeant, StartsAreMeant, WorkIsShown, StartOf
<1>3. CASE S!Tick \/ (\E p \in Pushers : S!ChangeErrors(p))
           \/ (\E p \in S!Everyone : S!Look(p) \/ S!TakeErrors(p))
  BY <1>2, <1>3 DEF S!Tick, S!ChangeErrors, S!Look, S!TakeErrors, S!serverVars, S!barVars
<1> QED
  BY <1>1, <1>3, StartWorkTruth, EndWorkTruth, RestartTruth, TakeEventTruth, TakeResultTruth,
     TakeReadyTruth DEF S!Next, S!Take

(* The bus of a run changes while that run is up or going down.            *)
LEMMA RunsStep ==
    ASSUME StatusIInv, S!Next PROVE RunsInTurn'
<1>0. RunsInTurn /\ run \in 1 .. MaxRuns /\ bus \in [1 .. MaxRuns -> Seq(S!Event)] /\ MaxRuns \in Nat
  BY StatusAssumption DEF StatusIInv, StatusTypes, S!TypeOK
<1>1. ASSUME NEW j \in Jobs, S!StartWork(j) \/ S!EndWork(j) PROVE RunsInTurn'
  <2>1. server # "coming" /\ UNCHANGED <<run, server, ready>> /\ \E kind \in {"start", "end"} : S!Broadcast(kind, j)
    BY <1>1 DEF S!StartWork, S!EndWork
  <2>2. \A r \in 1 .. MaxRuns : r # run => bus'[r] = bus[r]
    BY <2>1, BroadcastIs DEF StatusIInv
  <2>3. \A r \in 1 .. MaxRuns : r > run => bus'[r] = <<>>
    BY <1>0, <2>2 DEF RunsInTurn
  <2> QED  BY <1>0, <2>1, <2>3 DEF RunsInTurn
<1>2. CASE S!Restart
  <2> DEFINE j == CHOOSE k \in Jobs : TRUE
  <2>1. /\ server' = "down" /\ server = "up" /\ run < MaxRuns /\ j \in Jobs /\ S!Broadcast("restarting", j)
        /\ UNCHANGED <<run, ready>>
    BY <1>2, StatusAssumption DEF S!Restart
  <2> HIDE DEF j
  <2>2. \A r \in 1 .. MaxRuns : r # run => bus'[r] = bus[r]
    BY <2>1, BroadcastIs DEF StatusIInv
  <2>3. \A r \in 1 .. MaxRuns : r > run => bus'[r] = <<>>
    BY <1>0, <2>2 DEF RunsInTurn
  <2> QED  BY <1>0, <2>1, <2>3 DEF RunsInTurn
<1>3. CASE S!NewRun
  <2>1. server = "down" /\ server' = "coming" /\ run' = run + 1 /\ ready' = TRUE /\ work' = {} /\ bus' = bus
    BY <1>3 DEF S!NewRun
  <2>2. run < MaxRuns /\ \A r \in 1 .. MaxRuns : r > run => bus[r] = <<>>
    BY <1>0, <2>1 DEF RunsInTurn
  <2>3. B' = <<>> /\ \A r \in 1 .. MaxRuns : r > run' => bus'[r] = <<>>
    BY <1>0, <2>1, <2>2 DEF B
  <2> QED  BY <2>1, <2>3 DEF RunsInTurn
<1>4. CASE S!TakeReady
  BY <1>0, <1>4 DEF S!TakeReady, RunsInTurn
<1>5. ASSUME NEW r \in 1 .. MaxRuns, S!TakeEvent(r) PROVE RunsInTurn'
  <2>1. bus[r] # <<>> /\ bus' = [bus EXCEPT ![r] = Tail(@)] /\ UNCHANGED <<run, server, work, ready>>
    BY <1>5 DEF S!TakeEvent, S!serverVars
  <2>2. ~(r > run) /\ (server = "coming" => r # run)
    BY <1>0, <2>1 DEF RunsInTurn, B
  <2>3. \A q \in 1 .. MaxRuns : q # r => bus'[q] = bus[q]
    BY <1>0, <2>1
  <2>4. \A q \in 1 .. MaxRuns : q > run => bus'[q] = <<>>
    BY <1>0, <2>2, <2>3 DEF RunsInTurn
  <2>5. server = "coming" => work = {} /\ bus'[run] = <<>>
    BY <1>0, <2>2, <2>3 DEF RunsInTurn, B
  <2> QED  BY <1>0, <2>1, <2>4, <2>5 DEF RunsInTurn, B
<1>6. CASE UNCHANGED <<run, server, work, bus, ready>>
  BY <1>0, <1>6 DEF RunsInTurn, B
<1> QED
  BY <1>1, <1>2, <1>3, <1>4, <1>5, <1>6 DEF S!Next, S!Take, S!Tick, S!TakeResult, S!ChangeErrors,
     S!Look, S!TakeErrors, S!serverVars

(* A chain of ticks goes on while the bar is busy, and no second one.      *)
LEMMA SpinnerStep ==
    ASSUME StatusIInv, S!Next PROVE S!SpinnerTurns'
<1>0. S!SpinnerTurns /\ ticks \in Nat /\ spinning \in BOOLEAN /\ restarting \in BOOLEAN
  BY PaneAssumption DEF StatusIInv, StatusTypes, S!TypeOK
<1>1. CASE UNCHANGED <<active, restarting, spinning, ticks>>
  BY <1>0, <1>1 DEF S!SpinnerTurns, S!Busy
<1>2. ASSUME NEW r \in 1 .. MaxRuns, S!TakeEvent(r) PROVE S!SpinnerTurns'
  <2>1. IF S!Busy(restarting', active') /\ ~spinning
          THEN spinning' = TRUE /\ ticks' = ticks + 1
          ELSE UNCHANGED <<spinning, ticks>>
    BY <1>2 DEF S!TakeEvent, S!SpinIfBusy
  <2>2. CASE S!Busy(restarting', active') /\ ~spinning
    <3>1. spinning' = TRUE /\ ticks' > 0
      BY <1>0, <2>1, <2>2
    <3> QED  BY <3>1 DEF S!SpinnerTurns
  <2>3. CASE ~(S!Busy(restarting', active') /\ ~spinning)
    BY <1>0, <2>1, <2>3 DEF S!SpinnerTurns, S!Busy
  <2> QED  BY <2>2, <2>3
<1>3. CASE S!TakeReady
  BY <1>3 DEF S!TakeReady, S!SpinnerTurns, S!Busy
<1>4. ASSUME NEW j \in Own, S!TakeResult(j) PROVE S!SpinnerTurns'
  <2>1. UNCHANGED <<restarting, spinning, ticks>> /\ (active' # <<>> => active # <<>>)
    BY <1>4, BusIs, DeactivateIs DEF S!TakeResult
  <2> QED  BY <1>0, <2>1 DEF S!SpinnerTurns, S!Busy
<1>5. CASE S!Tick
  BY <1>0, <1>5 DEF S!Tick, S!SpinnerTurns, S!Busy
<1> QED
  BY <1>1, <1>2, <1>3, <1>4, <1>5 DEF S!Next, S!Take, S!StartWork, S!EndWork, S!Restart, S!NewRun,
     S!ChangeErrors, S!Look, S!TakeErrors, S!barVars

(* Who changes the errors while nobody else pushes them is alone with what *)
(* he saw, until it is shown.                                              *)
LEMMA PushesStep ==
    ASSUME StatusIInv, S!Next PROVE PushesFresh'
<1>0. /\ PushesFresh /\ overlap \in BOOLEAN
      /\ errs \in BOOLEAN /\ errors \in BOOLEAN /\ got \in [S!Everyone -> BOOLEAN]
      /\ push \in [S!Everyone -> {"idle", "look", "send"}]
  BY DEF StatusIInv, StatusTypes, S!TypeOK
<1>1. CASE UNCHANGED <<errs, push, got, errors, overlap>> /\ (server' = "up" => server = "up")
  BY <1>0, <1>1 DEF PushesFresh
<1>2. CASE S!NewRun
  BY <1>2 DEF S!NewRun, PushesFresh
<1>3. CASE S!TakeReady
  <2>1. /\ push' = [push EXCEPT ![Runner] = "look"] /\ overlap' = (\E p \in Pushers : push[p] # "idle")
        /\ UNCHANGED <<errs, got, errors>>
    BY <1>3 DEF S!TakeReady
  <2>2. /\ push'[Runner] = "look" /\ Runner \in S!Everyone
        /\ \A p \in S!Everyone : p # Runner => p \in Pushers /\ push'[p] = push[p]
    BY <1>0, <2>1 DEF S!Everyone
  <2>3. ~overlap' => \A p \in S!Everyone : p # Runner => push'[p] = "idle"
    BY <2>1, <2>2
  <2> QED  BY <2>2, <2>3 DEF PushesFresh
<1>4. ASSUME NEW p \in Pushers, S!ChangeErrors(p) PROVE PushesFresh'
  <2>1. /\ push' = [push EXCEPT ![p] = "look"] /\ overlap' = (\E q \in S!Everyone \ {p} : push[q] # "idle")
    BY <1>4 DEF S!ChangeErrors
  <2>2. p \in S!Everyone /\ push'[p] = "look" /\ \A q \in S!Everyone : q # p => push'[q] = push[q]
    BY <1>0, <2>1 DEF S!Everyone
  <2>3. ~overlap' => \A q \in S!Everyone : q # p => push'[q] = "idle"
    BY <2>1, <2>2
  <2> QED  BY <2>2, <2>3 DEF PushesFresh
<1>5. ASSUME NEW p \in S!Everyone, S!Look(p) PROVE PushesFresh'
  <2>1. /\ push[p] = "look" /\ push' = [push EXCEPT ![p] = "send"] /\ got' = [got EXCEPT ![p] = errs]
        /\ UNCHANGED <<server, errs, errors, overlap>>
    BY <1>5 DEF S!Look, S!serverVars
  <2> SUFFICES ASSUME server = "up", ~overlap
               PROVE  /\ \A r, q \in S!Everyone : push'[r] # "idle" /\ push'[q] # "idle" => r = q
                      /\ \A q \in S!Everyone : push'[q] = "send" => got'[q] = errs
                      /\ (\A q \in S!Everyone : push'[q] = "idle") => errors = errs
    BY <2>1 DEF PushesFresh
  <2>2. \A q \in S!Everyone : q # p => push[q] = "idle"
    BY <1>0, <2>1 DEF PushesFresh
  <2>3. /\ push'[p] = "send" /\ got'[p] = errs
        /\ \A q \in S!Everyone : q # p => push'[q] = "idle"
    BY <1>0, <2>1, <2>2
  <2> QED  BY <2>3
<1>6. ASSUME NEW p \in S!Everyone, S!TakeErrors(p) PROVE PushesFresh'
  <2>1. /\ push[p] = "send" /\ push' = [push EXCEPT ![p] = "idle"] /\ errors' = got[p]
        /\ UNCHANGED <<server, errs, got, overlap>>
    BY <1>6 DEF S!TakeErrors, S!serverVars
  <2> SUFFICES ASSUME server = "up", ~overlap
               PROVE  /\ \A r, q \in S!Everyone : push'[r] # "idle" /\ push'[q] # "idle" => r = q
                      /\ \A q \in S!Everyone : push'[q] = "send" => got[q] = errs
                      /\ errors' = errs
    BY <2>1 DEF PushesFresh
  <2>2. (\A q \in S!Everyone : q # p => push[q] = "idle") /\ got[p] = errs
    BY <1>0, <2>1 DEF PushesFresh
  <2>3. \A q \in S!Everyone : push'[q] = "idle"
    BY <1>0, <2>1, <2>2
  <2> QED  BY <2>1, <2>2, <2>3
<1> QED
  BY <1>1, <1>2, <1>3, <1>4, <1>5, <1>6 DEF S!Next, S!Take, S!StartWork, S!EndWork, S!Restart,
     S!TakeEvent, S!TakeResult, S!Tick, S!errVars, S!serverVars

(* The event that says "restarting" is the last of its run.                *)
LEMMA NotRestartingStep ==
    ASSUME StatusIInv, S!Next PROVE NotRestarting'
<1>0. NotRestarting /\ RunsInTurn /\ restarting \in BOOLEAN /\ late \in BOOLEAN
      /\ run \in 1 .. MaxRuns /\ bus \in [1 .. MaxRuns -> Seq(S!Event)]
  BY DEF StatusIInv, StatusTypes, S!TypeOK
<1>1. ASSUME NEW j \in Jobs, NEW kind \in {"start", "end"}, S!Broadcast(kind, j),
             UNCHANGED <<run, server, restarting, late>>
      PROVE  NotRestarting'
  <2>1. PICK d \in 0 .. 1 : Added(d, [kind |-> kind, job |-> j])
    BY <1>1, BroadcastIs DEF StatusIInv
  <2> SUFFICES ASSUME server = "up", ~late, NEW i \in 1 .. Len(bus'[run])
               PROVE  bus'[run][i].kind # "restarting"
    BY <1>0, <1>1 DEF NotRestarting, B
  <2>2. i = Len(B) - d + 1 \/ (i + d \in 1 .. Len(B) /\ bus'[run][i] = B[i + d])
    <3>1. Len(B) \in Nat /\ d <= Len(B) /\ Len(bus'[run]) = Len(B) - d + 1
      BY <2>1, BusIs DEF Added
    <3>2. i = Len(B) - d + 1 \/ (i \in 1 .. Len(B) - d /\ i + d \in 1 .. Len(B))
      BY <3>1
    <3>3. \A m \in 1 .. Len(B) - d : bus'[run][m] = B[m + d]
      BY <2>1 DEF Added
    <3> QED  BY <3>2, <3>3
  <2>3. bus'[run][Len(B) - d + 1].kind = kind
    BY <2>1 DEF Added
  <2> QED  BY <1>0, <2>2, <2>3 DEF NotRestarting
<1>2. ASSUME NEW r \in 1 .. MaxRuns, S!TakeEvent(r) PROVE NotRestarting'
  <2>0. /\ bus[r] # <<>> /\ S!ApplyEvent(Head(bus[r])) /\ bus' = [bus EXCEPT ![r] = Tail(@)]
        /\ late' = (late \/ (r < run /\ ~ready)) /\ UNCHANGED <<run, server>>
    BY <1>2 DEF S!TakeEvent, S!serverVars
  <2> SUFFICES ASSUME server = "up", ~late'
               PROVE  ~restarting' /\ \A i \in 1 .. Len(bus'[run]) : bus'[run][i].kind # "restarting"
    BY <2>0 DEF NotRestarting, B
  <2>1. ~ready /\ ~(r > run)
    BY <1>0, <2>0 DEF RunsInTurn
  <2>2. ~late /\ ~(r < run)
    <3>1. late' = (late \/ (r < run /\ ~ready))
      BY <2>0
    <3> HIDE <2>0
    <3> QED  BY <2>1, <3>1, Zenon
  <2>3. r = run
    BY <1>0, <2>1, <2>2
  <2>4. bus'[run] = Tail(B) /\ B # <<>> /\ B \in Seq(S!Event)
    BY <1>0, <2>0, <2>3 DEF B
  <2>5. /\ Len(bus'[run]) = Len(B) - 1 /\ Len(B) \in Nat \ {0} /\ Head(bus[r]) = B[1]
        /\ \A i \in 1 .. Len(B) - 1 : bus'[run][i] = B[i + 1]
    BY <2>3, <2>4, TailIs DEF B
  <2>6. ~restarting /\ \A i \in 1 .. Len(B) : B[i].kind # "restarting"
    BY <1>0, <2>2 DEF NotRestarting
  <2>7. B[1].kind \in {"start", "end"}
    <3>1. 1 \in 1 .. Len(B) /\ B[1] \in S!Event
      BY <2>4, <2>5
    <3> QED  BY <2>6, <3>1 DEF S!Event
  <2>8. ~restarting'
    BY <2>0, <2>5, <2>6, <2>7 DEF S!ApplyEvent
  <2>9. \A i \in 1 .. Len(bus'[run]) : bus'[run][i].kind # "restarting"
    BY <2>5, <2>6
  <2> QED  BY <2>8, <2>9
<1>3. CASE S!TakeReady
  <2>1. restarting' = FALSE /\ UNCHANGED <<run, bus>> /\ ready
    BY <1>3 DEF S!TakeReady
  <2>2. Len(B') = 0
    BY <1>0, <2>1 DEF RunsInTurn, B
  <2> QED  BY <2>1, <2>2 DEF NotRestarting
<1>4. CASE S!Restart \/ S!NewRun
  BY <1>4 DEF S!Restart, S!NewRun, NotRestarting
<1>5. CASE UNCHANGED <<run, server, bus, restarting, late>>
  BY <1>0, <1>5 DEF NotRestarting, B
<1> QED
  BY <1>1, <1>2, <1>3, <1>4, <1>5 DEF S!Next, S!Take, S!StartWork, S!EndWork, S!TakeResult,
     S!Tick,
     S!ChangeErrors, S!Look, S!TakeErrors, S!barVars, S!serverVars

(* The types, kept by every action.                                        *)
LEMMA StatusTypesStep ==
    ASSUME StatusIInv, S!Next PROVE StatusTypes'
<1>0. StatusTypes /\ S!TypeOK /\ RunsInTurn
  BY DEF StatusIInv, StatusTypes
<1>1. run' \in 1 .. MaxRuns /\ server' \in {"up", "down", "coming"} /\ ready' \in BOOLEAN
  <2>1. CASE UNCHANGED <<run, server, ready>>
    BY <1>0, <2>1 DEF S!TypeOK
  <2>2. CASE S!NewRun
    <3>1. run < MaxRuns /\ run \in 1 .. MaxRuns /\ MaxRuns \in Nat
      BY <1>0, <2>2, StatusAssumption DEF S!NewRun, RunsInTurn, S!TypeOK
    <3>2. run' = run + 1 /\ server' = "coming" /\ ready' = TRUE
      BY <2>2 DEF S!NewRun
    <3> QED  BY <3>1, <3>2
  <2>3. CASE S!TakeReady \/ S!Restart
    BY <1>0, <2>3 DEF S!TakeReady, S!Restart, S!TypeOK
  <2> QED
    BY <2>1, <2>2, <2>3 DEF S!Next, S!Take, S!StartWork, S!EndWork, S!TakeEvent, S!TakeResult,
       S!Tick,
       S!ChangeErrors, S!Look, S!TakeErrors, S!serverVars
<1>2. work' \subseteq Jobs /\ results' \subseteq Own
  <2>1. work \subseteq Jobs /\ results \subseteq Own
    BY <1>0 DEF S!TypeOK
  <2> QED
    BY <2>1 DEF S!Next, S!Take, S!StartWork, S!EndWork, S!Restart, S!NewRun, S!TakeReady,
       S!TakeEvent, S!TakeResult, S!Tick, S!ChangeErrors, S!Look, S!TakeErrors, S!serverVars
<1>3. /\ bus' \in [1 .. MaxRuns -> Seq(S!Event)]
      /\ \A r \in 1 .. MaxRuns : Len(bus'[r]) <= BusCap /\ S!Range(bus'[r]) \subseteq S!Event
  <2>0. /\ bus \in [1 .. MaxRuns -> Seq(S!Event)] /\ BusCap \in Nat
        /\ \A r \in 1 .. MaxRuns : Len(bus[r]) <= BusCap /\ S!Range(bus[r]) \subseteq S!Event
    BY <1>0, StatusAssumption DEF StatusTypes, S!TypeOK
  <2>1. ASSUME NEW j \in Jobs, S!StartWork(j) \/ S!EndWork(j) PROVE <1>3!:
    <3>1. \E kind \in {"start", "end"} : S!Broadcast(kind, j)
      BY <2>1 DEF S!StartWork, S!EndWork
    <3> QED  BY <1>0, <3>1, BroadcastIs
  <2>2. CASE S!Restart
    <3>1. \E j \in Jobs : S!Broadcast("restarting", j)
      BY <2>2, StatusAssumption DEF S!Restart
    <3> QED  BY <1>0, <3>1, BroadcastIs
  <2>3. ASSUME NEW r \in 1 .. MaxRuns, S!TakeEvent(r) PROVE <1>3!:
    <3>1. bus[r] # <<>> /\ bus' = [bus EXCEPT ![r] = Tail(@)]
      BY <2>3 DEF S!TakeEvent
    <3>2. Tail(bus[r]) \in Seq(S!Event) /\ Len(Tail(bus[r])) <= BusCap
      BY <2>0, <3>1, TailIs
    <3>3. \A s \in Seq(S!Event) : S!Range(s) \subseteq S!Event
      BY DEF S!Range
    <3> QED  BY <2>0, <3>1, <3>2, <3>3
  <2>4. CASE bus' = bus
    BY <2>0, <2>4
  <2> QED
    BY <2>1, <2>2, <2>3, <2>4 DEF S!Next, S!Take, S!NewRun, S!TakeReady, S!TakeResult, S!Tick,
       S!ChangeErrors, S!Look, S!TakeErrors
<1>4. active' \in Seq(S!Range(Label)) /\ S!IsInjective(active') /\ restarting' \in BOOLEAN
  <2>0. active \in Seq(S!Range(Label)) /\ S!IsInjective(active) /\ restarting \in BOOLEAN
    BY <1>0 DEF StatusTypes, S!TypeOK
  <2>1. ASSUME NEW r \in 1 .. MaxRuns, S!TakeEvent(r) PROVE <1>4!:
    <3>1. bus[r] # <<>> /\ S!ApplyEvent(Head(bus[r])) /\ bus[r] \in Seq(S!Event)
      BY <1>0, <2>1 DEF S!TakeEvent, StatusTypes
    <3>2. PICK e : e = Head(bus[r]) /\ e \in S!Event
      BY <3>1, TailIs
    <3>3. Label[e.job] \in S!Range(Label)
      BY <3>2, StatusAssumption DEF S!Event
    <3>4. CASE e.kind = "start"
      <4>1. active' = S!Activate(Label[e.job]) /\ restarting' = (restarting /\ e.job \notin Builds)
        BY <3>1, <3>2, <3>4 DEF S!ApplyEvent
      <4> QED  BY <2>0, <3>3, <4>1, ActivateIs
    <3>5. CASE e.kind = "end"
      <4>1. active' = S!Deactivate(Label[e.job]) /\ restarting' = restarting
        BY <3>1, <3>2, <3>5 DEF S!ApplyEvent
      <4> QED  BY <2>0, <4>1, DeactivateIs
    <3>6. CASE e.kind # "start" /\ e.kind # "end"
      <4>1. restarting' = TRUE /\ active' = active
        BY <3>1, <3>2, <3>6 DEF S!ApplyEvent
      <4> QED  BY <2>0, <4>1
    <3> QED  BY <3>4, <3>5, <3>6
  <2>2. CASE S!TakeReady
    <3>1. active' = <<>> /\ restarting' = FALSE
      BY <2>2 DEF S!TakeReady
    <3>2. S!IsInjective(<<>>) /\ <<>> \in Seq(S!Range(Label))
      BY DEF S!IsInjective
    <3> QED  BY <3>1, <3>2
  <2>3. ASSUME NEW j \in Own, S!TakeResult(j) PROVE <1>4!:
    <3>1. active' = S!Deactivate(Label[j]) /\ restarting' = restarting
      BY <2>3 DEF S!TakeResult
    <3> QED  BY <2>0, <3>1, DeactivateIs
  <2>4. CASE UNCHANGED <<active, restarting>>
    BY <2>0, <2>4
  <2> QED
    BY <2>1, <2>2, <2>3, <2>4 DEF S!Next, S!Take, S!StartWork, S!EndWork, S!Restart, S!NewRun,
       S!Tick,
       S!ChangeErrors, S!Look, S!TakeErrors, S!barVars
<1>5. spinning' \in BOOLEAN /\ ticks' \in 0 .. MaxTicks
  <2>0. spinning \in BOOLEAN /\ ticks \in 0 .. MaxTicks /\ MaxTicks \in Nat
    BY <1>0, PaneAssumption DEF S!TypeOK
  <2>1. ASSUME NEW r \in 1 .. MaxRuns, S!TakeEvent(r) PROVE <1>5!:
    <3>1. S!SpinIfBusy /\ ticks' <= MaxTicks
      BY <2>1 DEF S!TakeEvent
    <3>2. ticks' = ticks + 1 \/ ticks' = ticks
      BY <3>1 DEF S!SpinIfBusy
    <3>3. ticks' \in 0 .. MaxTicks
      BY <2>0, <3>1, <3>2
    <3>4. spinning' = TRUE \/ spinning' = spinning
      BY <3>1 DEF S!SpinIfBusy
    <3>5. spinning' \in BOOLEAN
      BY <2>0, <3>4
    <3> QED  BY <3>3, <3>5
  <2>2. CASE S!TakeReady
    BY <2>0, <2>2 DEF S!TakeReady
  <2>3. CASE S!Tick
    <3>1. ticks > 0 /\ ticks' = ticks - 1
      BY <2>3 DEF S!Tick
    <3>2. ticks' \in 0 .. MaxTicks
      BY <2>0, <3>1
    <3>3. spinning' = FALSE
      BY <2>3 DEF S!Tick
    <3> QED  BY <3>2, <3>3
  <2>4. CASE UNCHANGED <<spinning, ticks>>
    BY <2>0, <2>4
  <2> QED
    BY <2>1, <2>2, <2>3, <2>4 DEF S!Next, S!Take, S!StartWork, S!EndWork, S!Restart, S!NewRun,
       S!TakeResult, S!ChangeErrors, S!Look, S!TakeErrors, S!barVars
<1>6. /\ errs' \in BOOLEAN /\ errors' \in BOOLEAN /\ got' \in [S!Everyone -> BOOLEAN]
      /\ push' \in [S!Everyone -> {"idle", "look", "send"}]
  <2>0. /\ errs \in BOOLEAN /\ errors \in BOOLEAN /\ got \in [S!Everyone -> BOOLEAN]
        /\ push \in [S!Everyone -> {"idle", "look", "send"}]
    BY <1>0 DEF S!TypeOK
  <2>1. CASE UNCHANGED <<errs, push, got, errors>>
    BY <2>0, <2>1
  <2>2. CASE S!NewRun \/ S!TakeReady
    BY <2>0, <2>2 DEF S!NewRun, S!TakeReady
  <2>3. ASSUME NEW p \in Pushers, S!ChangeErrors(p) PROVE <1>6!:
    BY <2>0, <2>3 DEF S!ChangeErrors
  <2>4. ASSUME NEW p \in S!Everyone, S!Look(p) \/ S!TakeErrors(p) PROVE <1>6!:
    BY <2>0, <2>4 DEF S!Look, S!TakeErrors
  <2> QED
    BY <2>1, <2>2, <2>3, <2>4 DEF S!Next, S!Take, S!StartWork, S!EndWork, S!Restart, S!TakeEvent,
       S!TakeResult, S!Tick, S!errVars
<1>7. late' \in BOOLEAN /\ overlap' \in BOOLEAN
  <2>0. late \in BOOLEAN /\ overlap \in BOOLEAN
    BY <1>0 DEF StatusTypes
  <2>1. late' \in {late, FALSE} \/ \E r \in 1 .. MaxRuns : late' = (late \/ (r < run /\ ~ready))
    BY DEF S!Next, S!Take, S!StartWork, S!EndWork, S!Restart, S!NewRun, S!TakeReady, S!TakeEvent,
       S!TakeResult, S!Tick, S!ChangeErrors, S!Look, S!TakeErrors
  <2>2. \/ overlap' = overlap \/ overlap' = (\E p \in Pushers : push[p] # "idle")
        \/ \E p \in Pushers : overlap' = (\E q \in S!Everyone \ {p} : push[q] # "idle")
    BY DEF S!Next, S!Take, S!StartWork, S!EndWork, S!Restart, S!NewRun, S!TakeReady, S!TakeEvent,
       S!TakeResult, S!Tick, S!ChangeErrors, S!Look, S!TakeErrors, S!errVars
  <2>3. late' \in BOOLEAN
    BY <2>0, <2>1
  <2>4. overlap' \in BOOLEAN
    BY <2>0, <2>2
  <2> QED  BY <2>3, <2>4
<1>8. S!Range(active') \subseteq S!Range(Label)
  BY <1>4 DEF S!Range
<1>9. S!TypeOK'
  BY <1>1, <1>2, <1>3, <1>4, <1>5, <1>6, <1>8 DEF S!TypeOK, S!Range, S!IsInjective
<1> QED  BY <1>3, <1>4, <1>7, <1>9 DEF StatusTypes

(* The bar tells the truth about the run that is up, for any jobs, labels, *)
(* senders and sizes of the channel: what it shows is in flight and what   *)
(* is in flight it shows, but for what was evicted or came late; its       *)
(* spinner turns; and it has the errors there are (model.go, runtime.go).  *)
THEOREM BarTellsTheTruth == MCSpec => []StatusInv
<1>1. ASSUME MCInit PROVE StatusIInv
  <2>1. /\ run = 1 /\ server = "up" /\ work = {} /\ bus = [r \in 1 .. MaxRuns |-> <<>>]
        /\ ready = FALSE /\ results = {} /\ active = <<>> /\ restarting = FALSE
        /\ spinning = FALSE /\ ticks = 0 /\ errs = FALSE /\ errors = FALSE
        /\ push = [p \in S!Everyone |-> "idle"] /\ got = [p \in S!Everyone |-> FALSE]
        /\ late = FALSE /\ overlap = FALSE
    BY <1>1 DEF MCInit, S!Init
  <2>2. MaxRuns \in Nat \ {0} /\ BusCap \in Nat \ {0} /\ MaxTicks \in Nat
    BY StatusAssumption, PaneAssumption
  <2>3. run \in 1 .. MaxRuns /\ B = <<>> /\ Len(B) = 0 /\ S!Range(active) = {}
    BY <2>1, <2>2 DEF B, S!Range
  <2>4. /\ bus \in [1 .. MaxRuns -> Seq(S!Event)]
        /\ \A r \in 1 .. MaxRuns : Len(bus[r]) <= BusCap /\ S!Range(bus[r]) \subseteq S!Event
    <3>1. Len(<<>>) = 0 /\ S!Range(<<>>) = {}
      BY DEF S!Range
    <3> QED  BY <2>1, <2>2, <3>1
  <2>5. S!IsInjective(active) /\ active \in Seq(S!Range(Label))
    BY <2>1 DEF S!IsInjective
  <2>6. 0 \in 0 .. MaxTicks
    BY <2>2
  <2>7. StatusTypes
    BY <2>1, <2>3, <2>4, <2>5, <2>6 DEF StatusTypes, S!TypeOK
  <2>8. RunsInTurn /\ S!SpinnerTurns /\ PushesFresh /\ NotRestarting
    <3>1. RunsInTurn
      BY <2>1, <2>3 DEF RunsInTurn
    <3>2. S!SpinnerTurns
      BY <2>1 DEF S!SpinnerTurns, S!Busy
    <3>3. PushesFresh
      BY <2>1 DEF PushesFresh
    <3>4. NotRestarting
      BY <2>1, <2>3 DEF NotRestarting
    <3> QED  BY <3>1, <3>2, <3>3, <3>4
  <2>9. Truth
    BY <2>1, <2>3 DEF Truth, ShownIsMeant, StartsAreMeant, WorkIsShown
  <2> QED  BY <2>7, <2>8, <2>9 DEF StatusIInv
<1>2. StatusIInv /\ [MCNext]_mcvars => StatusIInv'
  <2> SUFFICES ASSUME StatusIInv, [MCNext]_mcvars PROVE StatusIInv'
    OBVIOUS
  <2>1. CASE S!Next
    BY <2>1, StatusTypesStep, RunsStep, SpinnerStep, PushesStep, NotRestartingStep, TruthStep
       DEF StatusIInv
  <2>2. CASE UNCHANGED statusVars
    <3>1. B' = B
      BY <2>2 DEF statusVars, B
    <3>2. StatusTypes' /\ RunsInTurn' /\ S!SpinnerTurns' /\ PushesFresh' /\ NotRestarting'
      BY <2>2, <3>1 DEF statusVars, StatusIInv, StatusTypes, S!TypeOK, RunsInTurn, S!SpinnerTurns,
         S!Busy, PushesFresh, NotRestarting
    <3>3. Truth'
      <4>1. /\ \A i, k : EndAfter(i, k) <=> EndAfter(i, k)'
            /\ \A k : Apart(k) <=> Apart(k)'
            /\ \A k : Over(k) <=> Over(k)'
            /\ \A i, l : NoEndAfter(i, l) <=> NoEndAfter(i, l)'
            /\ \A k : WillShow(k) <=> WillShow(k)'
        BY <2>2, <3>1 DEF statusVars, EndAfter, Apart, Over, NoEndAfter, WillShow, EndOf, StartOf
      <4> QED
        BY <2>2, <3>1, <4>1 DEF statusVars, StatusIInv, Truth, ShownIsMeant, StartsAreMeant,
           WorkIsShown, StartOf
    <3> QED  BY <3>2, <3>3 DEF StatusIInv
  <2> QED  BY <2>1, <2>2 DEF MCNext, mcvars
<1>3. StatusIInv => StatusInv
  <2> SUFFICES ASSUME StatusIInv PROVE StatusInv
    OBVIOUS
  <2>1. S!TypeOK /\ S!SpinnerTurns /\ S!ErrorsShown
    BY DEF StatusIInv, StatusTypes, PushesFresh, S!ErrorsShown
  <2>2. S!TellsTheTruth
    <3> SUFFICES ASSUME S!Settled, ~late
                 PROVE  /\ ~restarting
                        /\ \A l \in S!Range(active) : \E j \in Jobs : Label[j] = l /\
                             (j \in work \/ (S!LostAn("end", j) /\ (j \in Own => j \in early)))
                        /\ \A j \in work \ twin : S!LostAn("start", j) \/ Label[j] \in S!Range(active)
      BY DEF S!TellsTheTruth
    <3>1. server = "up" /\ results = {} /\ B = <<>> /\ Len(B) = 0
      BY DEF S!Settled, B, StatusIInv, StatusTypes, S!TypeOK
    <3>2. ShownIsMeant /\ WorkIsShown /\ ~restarting
      BY <3>1 DEF StatusIInv, Truth, NotRestarting
    <3>3. \A k \in Jobs : Over(k) => S!LostAn("end", k) /\ (k \in Own => k \in early)
      BY <3>1 DEF Over, EndAfter, Apart, EndOf, S!LostAn
    <3>4. \A k \in Jobs : WillShow(k) => S!LostAn("start", k) \/ Label[k] \in S!Range(active)
      BY <3>1 DEF WillShow, StartOf, S!LostAn
    <3> QED  BY <3>2, <3>3, <3>4, BusIs DEF ShownIsMeant, WorkIsShown
  <2> QED  BY <2>1, <2>2 DEF StatusInv, S!Inv
<1> QED  BY <1>1, <1>2, <1>3, PTL DEF MCSpec

-----------------------------------------------------------------------------
(* The logs.                                                               *)

(* Induction over the numbers, for a set of them.                          *)
LEMMA NatBySteps ==
    ASSUME NEW T, 0 \in T, \A n \in Nat : n \in T => n + 1 \in T
    PROVE  Nat \subseteq T
<1> SUFFICES ASSUME Nat \ T # {} PROVE FALSE
  OBVIOUS
<1>1. PICK x \in Nat \ T : \A y \in Nat \ T : ~(<<y, x>> \in OpToRel(<, Nat))
  <2> DEFINE Q == OpToRel(<, Nat)
  <2>1. IsWellFoundedOn(Q, Nat)
    BY NatLessThanWellFounded
  <2> HIDE DEF Q
  <2>2. \E x \in Nat \ T : \A y \in Nat \ T : ~(<<y, x>> \in Q)
    BY <2>1, WFMin, Zenon
  <2> QED  BY <2>2 DEF Q
<1>2. x # 0
  OBVIOUS
<1>3. x - 1 \in Nat /\ x - 1 \notin T
  BY <1>2
<1>4. <<x - 1, x>> \in OpToRel(<, Nat)
  BY <1>3 DEF OpToRel
<1> QED  BY <1>1, <1>3, <1>4

(* What is in one sequence after another.                                  *)
LEMMA RangeOfConcat ==
    ASSUME NEW T, NEW s \in Seq(T), NEW t \in Seq(T)
    PROVE  s \o t \in Seq(T) /\ L!Range(s \o t) = L!Range(s) \cup L!Range(t)
<1>1. /\ DOMAIN (s \o t) = 1 .. Len(s) + Len(t) /\ DOMAIN s = 1 .. Len(s) /\ DOMAIN t = 1 .. Len(t)
      /\ Len(s) \in Nat /\ Len(t) \in Nat
  OBVIOUS
<1>2. \A i \in 1 .. Len(s) : i \in DOMAIN (s \o t) /\ (s \o t)[i] = s[i]
  OBVIOUS
<1>3. \A i \in 1 .. Len(t) : Len(s) + i \in DOMAIN (s \o t) /\ (s \o t)[Len(s) + i] = t[i]
  OBVIOUS
<1>4. \A i \in DOMAIN (s \o t) : i \in 1 .. Len(s) \/ \E k \in 1 .. Len(t) : i = Len(s) + k
  <2> TAKE i \in DOMAIN (s \o t)
  <2>1. i \in 1 .. Len(s) \/ i - Len(s) \in 1 .. Len(t)
    BY <1>1
  <2>2. i = Len(s) + (i - Len(s))
    BY <1>1
  <2> QED  BY <2>1, <2>2
<1>5. L!Range(s \o t) \subseteq L!Range(s) \cup L!Range(t)
  BY <1>1, <1>2, <1>3, <1>4 DEF L!Range
<1>6. L!Range(s) \subseteq L!Range(s \o t)
  BY <1>1, <1>2 DEF L!Range
<1>7. L!Range(t) \subseteq L!Range(s \o t)
  BY <1>1, <1>3 DEF L!Range
<1> QED  BY <1>5, <1>6, <1>7

(* Flattening keeps what is in the sequences: by induction over them.      *)
LEMMA Flattened ==
    ASSUME NEW T, NEW seqs \in Seq(Seq(T))
    PROVE  /\ L!FlattenSeq(seqs) \in Seq(T)
           /\ L!Range(L!FlattenSeq(seqs)) = UNION {L!Range(seqs[i]) : i \in 1 .. Len(seqs)}
<1> DEFINE N == Len(seqs)
           Unfolds(f, n) == f = [i \in 1 .. n |-> IF i = 1 THEN seqs[i] ELSE f[i - 1] \o seqs[i]]
           Good(f, n) == \A i \in 1 .. n :
               f[i] \in Seq(T) /\ L!Range(f[i]) = UNION {L!Range(seqs[j]) : j \in 1 .. i}
           flat == CHOOSE f : Unfolds(f, N)
<1>0. N \in Nat /\ \A i \in 1 .. N : seqs[i] \in Seq(T)
  OBVIOUS
<1>1. CASE N = 0
  <2>1. seqs = <<>>
    BY <1>1
  <2>2. L!FlattenSeq(seqs) = <<>>
    BY <2>1, <1>1 DEF L!FlattenSeq
  <2>3. L!Range(<<>>) = {} /\ <<>> \in Seq(T)
    BY DEF L!Range
  <2>4. {L!Range(seqs[i]) : i \in 1 .. Len(seqs)} = {}
    BY <1>1
  <2> QED  BY <2>2, <2>3, <2>4
<1>2. CASE N # 0
  <2>1. L!FlattenSeq(seqs) = flat[N]
    BY <1>2 DEF L!FlattenSeq
  <2>2. \E f : Unfolds(f, N)
    <3> DEFINE Some == {n \in Nat : \E f : Unfolds(f, n)}
    <3>1. 0 \in Some
      <4>1. Unfolds([i \in 1 .. 0 |-> seqs[i]], 0)
        OBVIOUS
      <4> QED  BY <4>1
    <3>2. ASSUME NEW n \in Nat, n \in Some PROVE n + 1 \in Some
      <4>1. PICK f : Unfolds(f, n)
        BY <3>2
      <4> DEFINE g == [i \in 1 .. n + 1 |->
                          IF i = n + 1 THEN IF n = 0 THEN seqs[i] ELSE f[n] \o seqs[i] ELSE f[i]]
      <4>2. \A i \in 1 .. n + 1 : g[i] = IF i = 1 THEN seqs[i] ELSE g[i - 1] \o seqs[i]
        <5> TAKE i \in 1 .. n + 1
        <5>1. CASE i = n + 1 /\ n = 0
          BY <5>1
        <5>2. CASE i = n + 1 /\ n # 0
          <6>1. i # 1 /\ i - 1 = n /\ n \in 1 .. n + 1 /\ n # n + 1
            BY <5>2
          <6>2. g[i] = f[n] \o seqs[i] /\ g[n] = f[n]
            BY <5>2, <6>1
          <6> QED  BY <6>1, <6>2
        <5>3. CASE i # n + 1
          <6>1. i \in 1 .. n /\ g[i] = f[i]
            BY <5>3
          <6>2. f[i] = IF i = 1 THEN seqs[i] ELSE f[i - 1] \o seqs[i]
            BY <4>1, <6>1
          <6>3. i # 1 => i - 1 \in 1 .. n + 1 /\ i - 1 # n + 1 /\ g[i - 1] = f[i - 1]
            BY <6>1
          <6> QED  BY <6>1, <6>2, <6>3
        <5> QED  BY <5>1, <5>2, <5>3
      <4>3. Unfolds(g, n + 1)
        <5> DEFINE h == [i \in 1 .. n + 1 |-> IF i = 1 THEN seqs[i] ELSE g[i - 1] \o seqs[i]]
        <5>1. \A i \in 1 .. n + 1 : g[i] = h[i]
          <6> HIDE DEF g
          <6> QED  BY <4>2
        <5>2. g = h
          BY <5>1
        <5> QED  BY <5>2
      <4> HIDE DEF g, Unfolds
      <4> QED  BY <4>3
    <3> HIDE DEF Some
    <3>3. Nat \subseteq Some
      BY <3>1, <3>2, NatBySteps
    <3> QED  BY <3>3, <1>0 DEF Some
  <2>3. Unfolds(flat, N)
    <3> HIDE DEF Unfolds
    <3> QED  BY <2>2
  <2> HIDE DEF flat
  <2>4. \A i \in 1 .. N : flat[i] = IF i = 1 THEN seqs[i] ELSE flat[i - 1] \o seqs[i]
    BY <2>3
  <2>5. Good(flat, N)
    <3> DEFINE Well == {n \in Nat : n <= N => Good(flat, n)}
    <3>1. 0 \in Well
      OBVIOUS
    <3>2. ASSUME NEW n \in Nat, n \in Well PROVE n + 1 \in Well
      <4>0. n <= N => Good(flat, n)
        <5> HIDE DEF Good
        <5> QED  BY <3>2
      <4>1. ASSUME n + 1 <= N PROVE Good(flat, n + 1)
        <5>1. Good(flat, n)
          <6> HIDE DEF Good
          <6> QED  BY <1>0, <4>0, <4>1
        <5>2. n + 1 \in 1 .. N /\ seqs[n + 1] \in Seq(T)
          BY <1>0, <4>1
        <5>3. flat[n + 1] \in Seq(T)
              /\ L!Range(flat[n + 1]) = UNION {L!Range(seqs[j]) : j \in 1 .. n + 1}
          <6>1. CASE n = 0
            <7>1. flat[1] = seqs[1] /\ 1 .. 1 = {1}
              BY <2>4, <5>2, <6>1
            <7>2. UNION {L!Range(seqs[j]) : j \in {1}} = L!Range(seqs[1])
              OBVIOUS
            <7> QED  BY <7>1, <7>2, <5>2, <6>1
          <6>2. CASE n # 0
            <7>0. n + 1 # 1 /\ (n + 1) - 1 = n
              BY <6>2
            <7>1. flat[n + 1] = flat[n] \o seqs[n + 1]
              BY <2>4, <5>2, <7>0
            <7>2. n \in 1 .. n
              BY <6>2
            <7>3. flat[n] \in Seq(T) /\ L!Range(flat[n]) = UNION {L!Range(seqs[j]) : j \in 1 .. n}
              BY <5>1, <7>2
            <7>4. flat[n + 1] \in Seq(T) /\ L!Range(flat[n + 1]) = L!Range(flat[n]) \cup L!Range(seqs[n + 1])
              BY <7>1, <7>3, <5>2, RangeOfConcat
            <7>5. 1 .. n + 1 = (1 .. n) \cup {n + 1}
              OBVIOUS
            <7>6. UNION {L!Range(seqs[j]) : j \in 1 .. n + 1}
                    = (UNION {L!Range(seqs[j]) : j \in 1 .. n}) \cup L!Range(seqs[n + 1])
              BY <7>5
            <7> QED  BY <7>3, <7>4, <7>6
          <6> QED  BY <6>1, <6>2
        <5>4. ASSUME NEW i \in 1 .. n + 1
              PROVE  flat[i] \in Seq(T) /\ L!Range(flat[i]) = UNION {L!Range(seqs[j]) : j \in 1 .. i}
          <6>1. i = n + 1 \/ i \in 1 .. n
            OBVIOUS
          <6> QED  BY <6>1, <5>1, <5>3
        <5> QED  BY <5>4
      <4> HIDE DEF Good
      <4> QED  BY <4>1
    <3> HIDE DEF Well
    <3>3. Nat \subseteq Well
      BY <3>1, <3>2, NatBySteps
    <3>4. N \in Well /\ N <= N
      BY <1>0, <3>3
    <3> HIDE DEF Good
    <3> QED  BY <3>4 DEF Well
  <2>6. N \in 1 .. N
    BY <1>0, <1>2
  <2> QED  BY <2>1, <2>5, <2>6
<1> QED  BY <1>1, <1>2

Searches ==
    [stage : {"closed", "prompting", "active"}, query : {0, 1},
     matches : Seq(Nat \X Nat), cursor : Nat, filter : BOOLEAN]

(* A buffer holds lines in the order they were logged, a view is one of    *)
(* the tabs, and every search has what its query finds now.                *)
Rising(buffer) == \A i, j \in 1 .. Len(buffer) : i < j => buffer[i] < buffer[j]
ViewIsTab ==
    /\ tabs \in {<<db>>, <<mail, db>>} /\ known \in BOOLEAN
    /\ view \in 0 .. Len(tabs) + (IF known THEN 1 ELSE 0)
LogsKept ==
    /\ lines \in 0 .. 4 /\ logs \in [L!Buffers -> Seq(1 .. lines)]
    /\ \A b \in L!Buffers : Rising(logs[b]) /\ Len(logs[b]) <= MaxLogs
Fresh(s, buffer) ==
    s.stage # "closed" =>
        s.matches = L!Matches(buffer, s.query) /\ s.cursor \in {1} \cup DOMAIN s.matches
SearchesFresh == search \in [L!Buffers -> Searches] /\ \A b \in L!Buffers : Fresh(search[b], logs[b])

(* The selection is of what was picked, and its anchor is where it began:  *)
(* a later range runs from there, among the lines and among the indexes.   *)
Picked(buffer, sel, anc, pick, org) ==
    /\ sel \subseteq 1 .. Len(buffer) /\ anc \in 1 .. MaxLogs
    /\ {buffer[i] : i \in sel} = pick \cap L!Range(buffer)
    /\ sel # {} => anc \in 1 .. Len(buffer) /\ org = buffer[anc]
SelectionIsPicked ==
    /\ picked \subseteq 1 .. lines /\ origin \in 0 .. lines
    /\ Picked(logs[L!Active], selected, anchor, picked, origin)
LogsIInv == ViewIsTab /\ LogsKept /\ SearchesFresh /\ SelectionIsPicked

(* The lists of tabs there are.                                            *)
LEMMA LayoutsAre ==
    ASSUME NEW ts \in {<<db>>, <<mail, db>>}
    PROVE  /\ ts \in Seq({db, mail}) /\ Len(ts) \in {1, 2} /\ DOMAIN ts = 1 .. Len(ts)
           /\ \A i \in 1 .. Len(ts) : ts[i] \in {db, mail}
<1>1. CASE ts = <<db>>
  <2>1. Len(ts) = 1 /\ ts[1] = db /\ 1 .. 1 = {1} /\ DOMAIN ts = 1 .. 1 /\ ts \in Seq({db, mail})
    BY <1>1
  <2> QED  BY <2>1
<1>2. CASE ts = <<mail, db>>
  <2>1. /\ Len(ts) = 2 /\ ts[1] = mail /\ ts[2] = db /\ 1 .. 2 = {1, 2} /\ DOMAIN ts = 1 .. 2
        /\ ts \in Seq({db, mail})
    BY <1>2
  <2> QED  BY <2>1
<1> QED  BY <1>1, <1>2

(* Some buffer is shown, whichever view it is.                             *)
LEMMA ShownIs ==
    ASSUME NEW ts \in {<<db>>, <<mail, db>>}, NEW v \in 0 .. Len(ts) + 1
    PROVE  /\ L!Shown(v, ts) \in L!Buffers
           /\ L!Shown(v, ts) = "hamr" <=> v = 0
           /\ L!Shown(v, ts) = "mcp" <=> v = Len(ts) + 1
           /\ L!Shown(v, ts) \in {db, mail} <=> v \in 1 .. Len(ts)
           /\ v \in 1 .. Len(ts) => L!Shown(v, ts) = ts[v]
<1>1. Len(ts) \in Nat
  BY LayoutsAre
<1>0. /\ "hamr" \notin {db, mail} /\ "mcp" \notin {db, mail} /\ "hamr" # "mcp"
      /\ L!Buffers = {"hamr", "mcp"} \cup {db, mail}
  BY TabsAssumption DEF L!Buffers
<1>2. CASE v = 0
  <2>1. L!Shown(v, ts) = "hamr"
    BY <1>2 DEF L!Shown
  <2>2. v # Len(ts) + 1 /\ v \notin 1 .. Len(ts)
    BY <1>1, <1>2
  <2> QED  BY <2>1, <2>2, <1>0, <1>2, Zenon
<1>3. CASE v \in 1 .. Len(ts)
  <2>1. L!Shown(v, ts) = ts[v]
    BY <1>1, <1>3 DEF L!Shown
  <2>2. L!Shown(v, ts) \in {db, mail}
    BY <2>1, <1>1, <1>3, LayoutsAre
  <2>3. v # Len(ts) + 1 /\ v # 0
    BY <1>1, <1>3
  <2>4. L!Shown(v, ts) # "hamr" /\ L!Shown(v, ts) # "mcp" /\ L!Shown(v, ts) \in L!Buffers
    BY <2>2, <1>0
  <2> QED  BY <2>1, <2>2, <2>3, <2>4, <1>3, Zenon
<1>4. CASE v = Len(ts) + 1
  <2>1. L!Shown(v, ts) = "mcp"
    BY <1>1, <1>4 DEF L!Shown
  <2>2. v # 0 /\ v \notin 1 .. Len(ts)
    BY <1>1, <1>4
  <2>3. L!Shown(v, ts) # "hamr" /\ L!Shown(v, ts) \notin {db, mail} /\ L!Shown(v, ts) \in L!Buffers
    BY <2>1, <1>0
  <2> QED  BY <2>1, <2>2, <2>3, <1>4, Zenon
<1> QED  BY <1>1, <1>2, <1>3, <1>4

(* What a search finds: an occurrence in a line that is there.             *)
LEMMA MatchesAre ==
    ASSUME NEW buffer \in Seq(1 .. 4), NEW query \in {0, 1}
    PROVE  /\ L!Matches(buffer, query) \in Seq((1 .. Len(buffer)) \X Nat)
           /\ query = 0 => L!Range(L!Matches(buffer, query)) = {}
           /\ query = 1 => \A i \in 1 .. Len(buffer), k \in Nat :
                 <<i, k>> \in L!Range(L!Matches(buffer, query))
                    <=> k \in 1 .. <<0, 1, 2, 0>>[buffer[i]]
<1> DEFINE Hits == <<0, 1, 2, 0>>
           T == (1 .. Len(buffer)) \X Nat
           One(i) == [k \in 1 .. Hits[buffer[i]] |-> <<i, k>>]
           seqs == [i \in 1 .. Len(buffer) |-> One(i)]
<1>0. Len(buffer) \in Nat /\ \A i \in 1 .. Len(buffer) : buffer[i] \in 1 .. 4 /\ Hits[buffer[i]] \in Nat
  <2>1. \A n \in 1 .. 4 : Hits[n] \in Nat
    <3> TAKE n \in 1 .. 4
    <3>1. n \in {1, 2, 3, 4}
      OBVIOUS
    <3> QED  BY <3>1
  <2> QED  BY <2>1
<1>1. CASE query = 0
  <2>1. L!Matches(buffer, query) = <<>>
    BY <1>1 DEF L!Matches
  <2> QED  BY <2>1, <1>1 DEF L!Range
<1>2. CASE query = 1
  <2>1. L!Matches(buffer, query) = L!FlattenSeq(seqs)
    BY <1>2 DEF L!Matches
  <2>2. \A i \in 1 .. Len(buffer) :
           One(i) \in Seq(T) /\ L!Range(One(i)) = {<<i, k>> : k \in 1 .. Hits[buffer[i]]}
    <3> TAKE i \in 1 .. Len(buffer)
    <3> DEFINE h == Hits[buffer[i]]
    <3>1. h \in Nat
      BY <1>0
    <3> HIDE DEF h
    <3>2. [k \in 1 .. h |-> <<i, k>>] \in Seq(T)
      BY <3>1, <1>0
    <3>3. L!Range([k \in 1 .. h |-> <<i, k>>]) = {<<i, k>> : k \in 1 .. h}
      BY DEF L!Range
    <3> QED  BY <3>2, <3>3 DEF h
  <2> HIDE DEF One, T
  <2>3. seqs \in Seq(Seq(T)) /\ Len(seqs) = Len(buffer)
    BY <2>2, <1>0
  <2>4. /\ L!FlattenSeq(seqs) \in Seq(T)
        /\ L!Range(L!FlattenSeq(seqs)) = UNION {L!Range(seqs[i]) : i \in 1 .. Len(seqs)}
    <3> HIDE DEF seqs
    <3> QED  BY <2>3, Flattened
  <2>5. ASSUME NEW i \in 1 .. Len(buffer), NEW k \in Nat
        PROVE  <<i, k>> \in L!Range(L!Matches(buffer, query)) <=> k \in 1 .. Hits[buffer[i]]
    <3>1. ASSUME <<i, k>> \in L!Range(L!FlattenSeq(seqs)) PROVE k \in 1 .. Hits[buffer[i]]
      <4>1. PICK j \in 1 .. Len(buffer) : <<i, k>> \in L!Range(One(j))
        BY <2>3, <2>4, <3>1
      <4>2. PICK m \in 1 .. Hits[buffer[j]] : <<i, k>> = <<j, m>>
        <5> HIDE DEF Hits
        <5> QED  BY <4>1, <2>2
      <4>3. i = j /\ k = m
        BY <4>2
      <4> QED  BY <4>2, <4>3
    <3>2. ASSUME k \in 1 .. Hits[buffer[i]] PROVE <<i, k>> \in L!Range(L!FlattenSeq(seqs))
      <4>1. <<i, k>> \in L!Range(One(i))
        <5> HIDE DEF Hits
        <5> QED  BY <2>2, <3>2
      <4>2. seqs[i] = One(i)
        OBVIOUS
      <4>3. L!Range(seqs[i]) \in {L!Range(seqs[j]) : j \in 1 .. Len(seqs)}
        <5> HIDE DEF seqs
        <5> QED  BY <2>3
      <4> HIDE DEF seqs
      <4> QED  BY <4>1, <4>2, <4>3, <2>4
    <3> QED  BY <2>1, <3>1, <3>2
  <2> QED  BY <2>1, <2>4, <2>5, <1>2 DEF T
<1> QED  BY <1>1, <1>2

(* Recomputing keeps a search what it is, with what its query finds now    *)
(* and a cursor among it.                                                  *)
LEMMA RecomputeIs ==
    ASSUME NEW s \in Searches, NEW buffer \in Seq(1 .. 4), NEW n
    PROVE  /\ L!Recompute(s, buffer, n) \in Searches
           /\ Fresh(L!Recompute(s, buffer, n), buffer)
           /\ L!Recompute(s, buffer, n).stage = s.stage
           /\ L!Recompute(s, buffer, n).query = s.query
<1> DEFINE ms == L!Matches(buffer, s.query)
           cur == L!Current(s)
           prev == IF cur[1] > n THEN <<cur[1] - n, cur[2]>> ELSE L!NoMatch
           at == IF s.stage = "active" /\ prev \in L!Range(ms)
                    THEN CHOOSE i \in DOMAIN ms : ms[i] = prev ELSE 1
<1>1. s.query \in {0, 1}
  BY DEF Searches
<1>2. ms \in Seq((1 .. Len(buffer)) \X Nat)
  BY <1>1, MatchesAre
<1>3. ms \in Seq(Nat \X Nat) /\ DOMAIN ms \subseteq Nat
  <2> HIDE DEF ms
  <2>1. Len(ms) \in Nat /\ DOMAIN ms = 1 .. Len(ms) /\ \A i \in 1 .. Len(ms) : ms[i] \in Nat \X Nat
    BY <1>2
  <2> QED  BY <2>1, <1>2
<1>4. at \in {1} \cup DOMAIN ms
  <2> HIDE DEF ms, prev
  <2> QED  BY DEF L!Range
<1>5. CASE s.stage = "closed"
  BY <1>5 DEF L!Recompute, Fresh
<1>6. CASE s.stage # "closed"
  <2>1. L!Recompute(s, buffer, n) = [s EXCEPT !.matches = ms, !.cursor = at]
    BY <1>6 DEF L!Recompute
  <2> HIDE DEF ms, at
  <2>2. [s EXCEPT !.matches = ms, !.cursor = at] \in Searches
    <3>1. at \in Nat
      BY <1>3, <1>4
    <3> QED  BY <1>3, <3>1 DEF Searches
  <2>3. /\ [s EXCEPT !.matches = ms, !.cursor = at].matches = ms
        /\ [s EXCEPT !.matches = ms, !.cursor = at].cursor = at
        /\ [s EXCEPT !.matches = ms, !.cursor = at].query = s.query
        /\ [s EXCEPT !.matches = ms, !.cursor = at].stage = s.stage
    BY DEF Searches
  <2>4. Fresh([s EXCEPT !.matches = ms, !.cursor = at], buffer)
    BY <2>3, <1>4 DEF Fresh, ms
  <2> QED  BY <2>1, <2>2, <2>3, <2>4
<1> QED  BY <1>5, <1>6

(* A sequence of some things is one of more.                               *)
LEMMA SeqWithin ==
    ASSUME NEW U, NEW T, U \subseteq T, NEW s \in Seq(U) PROVE s \in Seq(T)
<1>1. Len(s) \in Nat /\ s \in [1 .. Len(s) -> U]
  OBVIOUS
<1>2. s \in [1 .. Len(s) -> T]
  BY <1>1
<1> QED  BY <1>1, <1>2

LEMMA ClosedIs == L!Closed \in Searches /\ L!Closed.stage = "closed" /\ L!Closed.matches = <<>>
<1>1. <<>> \in Seq(Nat \X Nat)
  OBVIOUS
<1> QED  BY <1>1 DEF L!Closed, Searches

(* Where we are: the buffer of the tab that is shown.                      *)
LEMMA ActiveIs ==
    ASSUME LogsIInv
    PROVE  /\ L!Active \in L!Buffers /\ logs[L!Active] \in Seq(1 .. lines)
           /\ logs[L!Active] \in Seq(1 .. 4) /\ Rising(logs[L!Active])
           /\ Len(logs[L!Active]) \in Nat /\ Len(logs[L!Active]) <= MaxLogs
           /\ search[L!Active] \in Searches /\ Fresh(search[L!Active], logs[L!Active])
           /\ view \in 0 .. Len(tabs) + 1 /\ tabs \in {<<db>>, <<mail, db>>} /\ Len(tabs) \in {1, 2}
<1>1. tabs \in {<<db>>, <<mail, db>>} /\ Len(tabs) \in {1, 2}
  BY LayoutsAre DEF LogsIInv, ViewIsTab
<1>2. view \in 0 .. Len(tabs) + 1
  <2>1. view \in 0 .. Len(tabs) + (IF known THEN 1 ELSE 0) /\ known \in BOOLEAN
    BY DEF LogsIInv, ViewIsTab
  <2> QED  BY <2>1, <1>1
<1>3. L!Active \in L!Buffers
  BY <1>1, <1>2, ShownIs DEF L!Active
<1>4. logs[L!Active] \in Seq(1 .. lines) /\ lines \in 0 .. 4
  BY <1>3 DEF LogsIInv, LogsKept
<1>5. logs[L!Active] \in Seq(1 .. 4)
  <2>1. 1 .. lines \subseteq 1 .. 4
    BY <1>4
  <2> QED  BY <1>4, <2>1, SeqWithin
<1> QED  BY <1>1, <1>2, <1>3, <1>4, <1>5 DEF LogsIInv, LogsKept, SearchesFresh

(* What is rendered lies in the buffer.                                    *)
LEMMA RenderedIs ==
    ASSUME LogsIInv PROVE L!Rendered \subseteq 1 .. Len(logs[L!Active])
<1>1. CASE L!Filtered
  <2> DEFINE s == search[L!Active]
  <2>1. s.query \in {0, 1} /\ s.matches = L!Matches(logs[L!Active], s.query)
    BY <1>1, ActiveIs DEF L!Filtered, Fresh, Searches
  <2>2. s.matches \in Seq((1 .. Len(logs[L!Active])) \X Nat)
    BY <2>1, MatchesAre, ActiveIs
  <2>3. \A i \in DOMAIN s.matches : s.matches[i][1] \in 1 .. Len(logs[L!Active])
    <3> DEFINE m == s.matches  n == Len(logs[L!Active])
    <3>1. m \in Seq((1 .. n) \X Nat)
      BY <2>2
    <3> HIDE DEF m, n
    <3>2. \A i \in DOMAIN m : m[i] \in (1 .. n) \X Nat
      BY <3>1
    <3>3. \A i \in DOMAIN m : m[i][1] \in 1 .. n
      BY <3>2
    <3> QED  BY <3>3 DEF m, n
  <2> QED  BY <2>3, <1>1 DEF L!Rendered
<1>2. CASE ~L!Filtered
  BY <1>2 DEF L!Rendered
<1> QED  BY <1>1, <1>2

(* The least of some numbers.                                              *)
LEMMA LeastIs ==
    ASSUME NEW R \in SUBSET Nat, R # {}
    PROVE  L!Min(R) \in R /\ \A y \in R : L!Min(R) <= y
<1>1. \E x \in R : \A y \in R : x <= y
  <2>0. R \subseteq Nat
    OBVIOUS
  <2>1. PICK x \in R : \A y \in R : ~ (<<y, x>> \in OpToRel(<, Nat))
    BY <2>0, WFMin, NatLessThanWellFounded, Zenon
  <2>2. \A y \in R : ~ (y < x)
    BY <2>0, <2>1 DEF OpToRel
  <2> QED  BY <2>0, <2>2
<1> QED  BY <1>1 DEF L!Min

(* A selection survives what leaves its buffer alone, and an empty one is  *)
(* of nothing.                                                             *)
LEMMA SelectionStays ==
    ASSUME LogsIInv, L!Active' = L!Active, logs'[L!Active] = logs[L!Active],
           lines' \in Nat, lines <= lines', UNCHANGED L!selection
    PROVE  SelectionIsPicked'
<1>1. lines \in Nat /\ picked \subseteq 1 .. lines /\ origin \in 0 .. lines
  BY DEF LogsIInv, LogsKept, SelectionIsPicked
<1>2. picked \subseteq 1 .. lines' /\ origin \in 0 .. lines'
  BY <1>1
<1> QED  BY <1>2 DEF LogsIInv, SelectionIsPicked, Picked, L!selection

LEMMA NothingSelected ==
    ASSUME L!NoSelection, lines' \in Nat PROVE SelectionIsPicked'
<1>1. 1 \in 1 .. MaxLogs /\ 0 \in 0 .. lines'
  BY PaneAssumption
<1> QED  BY <1>1 DEF L!NoSelection, SelectionIsPicked, Picked

(* A search is set.                                                        *)
LEMMA SetSearchStep ==
    ASSUME LogsIInv, NEW s \in Searches, Fresh(s, logs[L!Active]), L!SetSearch(s)
    PROVE  LogsIInv'
<1>1. search' = [search EXCEPT ![L!Active] = s] /\ UNCHANGED <<tabs, known, view, logs, lines, L!selection>>
  BY DEF L!SetSearch
<1>2. ViewIsTab' /\ LogsKept'
  BY <1>1 DEF LogsIInv, ViewIsTab, LogsKept
<1>3. SearchesFresh'
  <2>1. search' \in [L!Buffers -> Searches]
    BY <1>1, ActiveIs DEF LogsIInv, SearchesFresh
  <2>2. \A b \in L!Buffers : search'[b] = IF b = L!Active THEN s ELSE search[b]
    BY <1>1 DEF LogsIInv, SearchesFresh
  <2>3. \A b \in L!Buffers : Fresh(search'[b], logs'[b])
    BY <1>1, <2>2 DEF LogsIInv, SearchesFresh
  <2> QED  BY <2>1, <2>3 DEF SearchesFresh
<1>4. SelectionIsPicked'
  <2>1. L!Active' = L!Active
    BY <1>1 DEF L!Active
  <2>2. lines \in Nat /\ lines <= lines
    BY DEF LogsIInv, LogsKept
  <2> QED  BY <1>1, <2>1, <2>2, SelectionStays
<1> QED  BY <1>2, <1>3, <1>4 DEF LogsIInv

(* The keys of a search.                                                   *)
LEMMA OpenStep == ASSUME LogsIInv, L!OpenSearch PROVE LogsIInv'
<1>1. <<>> \in Seq(Nat \X Nat)
  OBVIOUS
<1> DEFINE s == [L!Closed EXCEPT !.stage = "prompting"]
<1>2. s \in Searches /\ s.query = 0 /\ s.matches = <<>> /\ s.cursor = 1
  BY <1>1 DEF L!Closed, Searches
<1>3. Fresh(s, logs[L!Active])
  BY <1>2 DEF Fresh, L!Matches
<1> HIDE DEF s
<1>4. L!SetSearch(s)
  BY DEF L!OpenSearch, s
<1> QED  BY <1>2, <1>3, <1>4, SetSearchStep

LEMMA TypeQueryStep == ASSUME LogsIInv, NEW q \in {0, 1}, L!TypeQuery(q) PROVE LogsIInv'
<1> DEFINE s == [search[L!Active] EXCEPT !.query = q]
           r == L!Recompute(s, logs[L!Active], 0)
<1>1. s \in Searches
  BY ActiveIs DEF Searches
<1>2. r \in Searches /\ Fresh(r, logs[L!Active])
  <2> HIDE DEF s
  <2> QED  BY <1>1, ActiveIs, RecomputeIs
<1>3. L!SetSearch(r)
  BY DEF L!TypeQuery
<1> HIDE DEF r
<1> QED  BY <1>2, <1>3, SetSearchStep

LEMMA CloseStep == ASSUME LogsIInv, L!SetSearch(L!Closed) PROVE LogsIInv'
<1>1. Fresh(L!Closed, logs[L!Active])
  BY ClosedIs DEF Fresh
<1> QED  BY <1>1, ClosedIs, SetSearchStep

LEMMA CommitStep == ASSUME LogsIInv, L!CommitSearch PROVE LogsIInv'
<1> DEFINE s == [search[L!Active] EXCEPT !.stage = "active"]
           r == L!Recompute(s, logs[L!Active], 0)
<1>1. CASE search[L!Active].query = 0
  BY <1>1, CloseStep DEF L!CommitSearch
<1>2. CASE search[L!Active].query # 0
  <2>1. s \in Searches
    BY ActiveIs DEF Searches
  <2>2. r \in Searches /\ Fresh(r, logs[L!Active])
    <3> HIDE DEF s
    <3> QED  BY <2>1, ActiveIs, RecomputeIs
  <2>3. L!SetSearch(r)
    BY <1>2 DEF L!CommitSearch
  <2> HIDE DEF r
  <2> QED  BY <2>2, <2>3, SetSearchStep
<1> QED  BY <1>1, <1>2

(* Cycling stays among what is cycled through.                             *)
LEMMA CycledIs ==
    ASSUME NEW n \in Nat, n > 0, NEW i \in 1 .. n, NEW forward \in BOOLEAN
    PROVE  L!Cycled(i, n, forward) \in 1 .. n
<1>1. \A x \in Int : 0 <= x % n /\ x % n < n /\ x % n \in Int
  OBVIOUS
<1>2. (i - 1 + (IF forward THEN 1 ELSE n - 1)) \in Int
  OBVIOUS
<1> QED  BY <1>1, <1>2 DEF L!Cycled

LEMMA NextMatchStep == ASSUME LogsIInv, NEW forward \in BOOLEAN, L!NextMatch(forward) PROVE LogsIInv'
<1> DEFINE o == search[L!Active]
           n == Len(o.matches)
           s == [o EXCEPT !.cursor = L!Cycled(o.cursor, n, forward)]
<1>1. o.stage = "active" /\ n > 0 /\ L!SetSearch(s)
  BY DEF L!NextMatch, L!Committed
<1>2. o \in Searches /\ Fresh(o, logs[L!Active])
  BY ActiveIs
<1>3. n \in Nat /\ DOMAIN o.matches = 1 .. n
  BY <1>2 DEF Searches
<1>4. o.cursor \in 1 .. n
  BY <1>1, <1>2, <1>3 DEF Fresh
<1>5. L!Cycled(o.cursor, n, forward) \in 1 .. n
  <2> HIDE DEF n
  <2> QED  BY <1>1, <1>3, <1>4, CycledIs
<1>6. s \in Searches /\ s.stage = o.stage /\ s.query = o.query /\ s.matches = o.matches /\ s.cursor \in 1 .. n
  <2> HIDE DEF n
  <2>1. L!Cycled(o.cursor, n, forward) \in Nat
    BY <1>3, <1>5
  <2> HIDE DEF o
  <2> QED  BY <1>2, <1>5, <2>1 DEF Searches
<1>7. Fresh(s, logs[L!Active])
  BY <1>1, <1>2, <1>3, <1>6 DEF Fresh
<1> HIDE DEF s
<1> QED  BY <1>1, <1>6, <1>7, SetSearchStep

LEMMA FilterStep == ASSUME LogsIInv, L!ToggleFilter PROVE LogsIInv'
<1> DEFINE o == search[L!Active]
           s == [o EXCEPT !.filter = ~@]
<1>1. o \in Searches /\ Fresh(o, logs[L!Active]) /\ L!SetSearch(s)
  BY ActiveIs DEF L!ToggleFilter
<1>2. s \in Searches /\ s.stage = o.stage /\ s.query = o.query /\ s.matches = o.matches /\ s.cursor = o.cursor
  BY <1>1 DEF Searches
<1>3. Fresh(s, logs[L!Active])
  BY <1>1, <1>2 DEF Fresh
<1> HIDE DEF s
<1> QED  BY <1>1, <1>2, <1>3, SetSearchStep

-----------------------------------------------------------------------------
(* Selecting.                                                              *)

(* In a buffer that rises, lines and indexes are in the same order.        *)
LEMMA RisingIsOneToOne ==
    ASSUME NEW n \in Nat, NEW buffer \in Seq(1 .. n), Rising(buffer),
           NEW i \in 1 .. Len(buffer), NEW j \in 1 .. Len(buffer)
    PROVE  /\ buffer[i] \in 1 .. n /\ buffer[i] \in L!Range(buffer)
           /\ buffer[i] = buffer[j] => i = j
           /\ buffer[i] <= buffer[j] <=> i <= j
<1>1. buffer[i] \in 1 .. n /\ buffer[j] \in 1 .. n /\ i \in Nat /\ j \in Nat
  OBVIOUS
<1>2. buffer[i] \in L!Range(buffer)
  BY DEF L!Range
<1>3. (i < j => buffer[i] < buffer[j]) /\ (j < i => buffer[j] < buffer[i])
  BY DEF Rising
<1> QED  BY <1>1, <1>2, <1>3

LEMMA RangeIs ==
    ASSUME NEW T, NEW s \in Seq(T), NEW x \in L!Range(s) PROVE \E i \in 1 .. Len(s) : x = s[i]
BY DEF L!Range

(* What is clicked leaves everything but the selection.                    *)
LEMMA ClickLeaves ==
    ASSUME LogsIInv, UNCHANGED <<tabs, known, view, logs, lines, search>>,
           picked' \subseteq 1 .. lines, origin' \in 0 .. lines,
           Picked(logs[L!Active], selected', anchor', picked', origin')
    PROVE  LogsIInv'
<1>1. ViewIsTab' /\ LogsKept' /\ SearchesFresh'
  BY DEF LogsIInv, ViewIsTab, LogsKept, SearchesFresh
<1>2. L!Active' = L!Active
  BY DEF L!Active
<1>3. SelectionIsPicked'
  BY <1>2 DEF SelectionIsPicked
<1> QED  BY <1>1, <1>3 DEF LogsIInv

LEMMA PlainStep == ASSUME LogsIInv, NEW i \in 1 .. MaxLogs, L!ClickPlain(i) PROVE LogsIInv'
<1> DEFINE buffer == logs[L!Active]
<1>1. buffer \in Seq(1 .. lines) /\ Rising(buffer) /\ i \in 1 .. Len(buffer) /\ lines \in Nat
  BY ActiveIs, RenderedIs DEF L!ClickPlain, LogsIInv, LogsKept
<1>2. selected' = {i} /\ anchor' = i /\ picked' = {buffer[i]} /\ origin' = buffer[i]
  BY DEF L!ClickPlain, L!LineAt
<1>3. buffer[i] \in 1 .. lines /\ buffer[i] \in L!Range(buffer)
  <2> HIDE DEF buffer
  <2> QED  BY <1>1, RisingIsOneToOne
<1>4. {buffer[k] : k \in {i}} = {buffer[i]} \cap L!Range(buffer)
  <2> HIDE DEF buffer
  <2> QED  BY <1>3
<1>5. Picked(buffer, selected', anchor', picked', origin')
  <2> HIDE DEF buffer
  <2> QED  BY <1>1, <1>2, <1>4 DEF Picked
<1>6. picked' \subseteq 1 .. lines /\ origin' \in 0 .. lines
  <2> HIDE DEF buffer
  <2> QED  BY <1>1, <1>2, <1>3
<1> QED  BY <1>5, <1>6, ClickLeaves DEF L!ClickPlain

LEMMA ToggleStep == ASSUME LogsIInv, NEW i \in 1 .. MaxLogs, L!ClickToggle(i) PROVE LogsIInv'
<1> DEFINE buffer == logs[L!Active]
<1>1. buffer \in Seq(1 .. lines) /\ Rising(buffer) /\ i \in 1 .. Len(buffer) /\ lines \in Nat
  BY ActiveIs, RenderedIs DEF L!ClickToggle, LogsIInv, LogsKept
<1>2. /\ selected' = (selected \ {i}) \cup ({i} \ selected) /\ anchor' = i
      /\ picked' = (L!Alive \ {buffer[i]}) \cup ({buffer[i]} \ L!Alive) /\ origin' = buffer[i]
  BY DEF L!ClickToggle, L!LineAt
<1>3. selected \subseteq 1 .. Len(buffer) /\ {buffer[k] : k \in selected} = L!Alive
  BY DEF LogsIInv, SelectionIsPicked, Picked, L!Alive
<1> HIDE DEF buffer
<1>4. \A k \in 1 .. Len(buffer) : buffer[k] \in 1 .. lines /\ buffer[k] \in L!Range(buffer) /\ (buffer[k] = buffer[i] <=> k = i)
  BY <1>1, RisingIsOneToOne
<1>5. {buffer[k] : k \in selected'} = picked'
  BY <1>1, <1>2, <1>3, <1>4
<1>6. selected' \subseteq 1 .. Len(buffer)
  BY <1>1, <1>2, <1>3
<1>7. picked' \subseteq 1 .. lines /\ picked' \subseteq L!Range(buffer) /\ origin' \in 0 .. lines
  BY <1>1, <1>2, <1>4, <1>5, <1>6
<1>8. Picked(buffer, selected', anchor', picked', origin')
  BY <1>1, <1>2, <1>5, <1>6, <1>7 DEF Picked
<1> QED  BY <1>7, <1>8, ClickLeaves DEF L!ClickToggle, buffer

(* A range of indexes is a range of lines.                                 *)
LEMMA RangeStep == ASSUME LogsIInv, NEW i \in 1 .. MaxLogs, L!ClickRange(i) PROVE LogsIInv'
<1> DEFINE buffer == logs[L!Active]
           from == IF selected = {} THEN i ELSE anchor
           R == L!Rendered
<1>1. /\ buffer \in Seq(1 .. lines) /\ Rising(buffer) /\ lines \in Nat
      /\ R \subseteq 1 .. Len(buffer) /\ i \in R /\ Len(buffer) \in Nat
  BY ActiveIs, RenderedIs DEF L!ClickRange, LogsIInv, LogsKept
<1>2. {buffer[k] : k \in selected} = L!Alive /\ (selected # {} => anchor \in 1 .. Len(buffer) /\ origin = buffer[anchor])
      /\ anchor \in 1 .. MaxLogs
  BY DEF LogsIInv, SelectionIsPicked, Picked, L!Alive
<1>3. from \in 1 .. Len(buffer) /\ from \in 1 .. MaxLogs
  <2> HIDE DEF buffer, R
  <2> QED  BY <1>1, <1>2
<1>4. (IF L!Alive = {} THEN buffer[i] ELSE origin) = buffer[from]
  <2> HIDE DEF buffer, R
  <2>1. L!Alive = {} <=> selected = {}
    BY <1>2
  <2> QED  BY <2>1, <1>2
<1>5. /\ selected' = L!Between(from, i) \cap R /\ anchor' = from /\ origin' = buffer[from]
      /\ picked' = {buffer[k] : k \in R} \cap L!Between(buffer[from], buffer[i])
  <2>1. /\ selected' = L!ClickedRange(from, i) /\ anchor' = from
        /\ origin' = (IF L!Alive = {} THEN buffer[i] ELSE origin)
        /\ picked' = {buffer[k] : k \in R} \cap L!Between(IF L!Alive = {} THEN buffer[i] ELSE origin, buffer[i])
    BY DEF L!ClickRange, L!LineAt
  <2> QED  BY <2>1, <1>4 DEF L!ClickedRange
<1>6. UNCHANGED <<tabs, known, view, logs, lines, search>>
  BY DEF L!ClickRange
<1> HIDE DEF buffer, R, from
<1>7. \A k \in 1 .. Len(buffer) : buffer[k] \in 1 .. lines /\ buffer[k] \in L!Range(buffer)
  BY <1>1, RisingIsOneToOne
<1>8. ASSUME NEW k \in R PROVE k \in L!Between(from, i) <=> buffer[k] \in L!Between(buffer[from], buffer[i])
  <2>1. /\ buffer[k] <= buffer[i] <=> k <= i
        /\ buffer[i] <= buffer[k] <=> i <= k
        /\ buffer[k] <= buffer[from] <=> k <= from
        /\ buffer[from] <= buffer[k] <=> from <= k
    BY <1>1, <1>3, RisingIsOneToOne
  <2>2. k \in Int /\ i \in Int /\ from \in Int /\ buffer[k] \in Int /\ buffer[i] \in Int /\ buffer[from] \in Int
    BY <1>1, <1>3, <1>7
  <2>3. k \in (from .. i) \cup (i .. from) <=> (from <= k /\ k <= i) \/ (i <= k /\ k <= from)
    BY <2>2
  <2>4. buffer[k] \in (buffer[from] .. buffer[i]) \cup (buffer[i] .. buffer[from])
           <=> (buffer[from] <= buffer[k] /\ buffer[k] <= buffer[i]) \/ (buffer[i] <= buffer[k] /\ buffer[k] <= buffer[from])
    BY <2>2
  <2> QED  BY <2>1, <2>3, <2>4 DEF L!Between
<1>9. {buffer[k] : k \in selected'} = picked'
  BY <1>5, <1>8
<1>10. selected' \subseteq 1 .. Len(buffer)
  BY <1>1, <1>5
<1>11. picked' \subseteq 1 .. lines /\ picked' \subseteq L!Range(buffer) /\ origin' \in 0 .. lines
  BY <1>1, <1>3, <1>5, <1>7, <1>9, <1>10
<1>12. Picked(buffer, selected', anchor', picked', origin')
  BY <1>3, <1>5, <1>9, <1>10, <1>11 DEF Picked
<1> QED  BY <1>6, <1>11, <1>12, ClickLeaves DEF buffer

LEMMA ClearStep == ASSUME LogsIInv, L!Clear PROVE LogsIInv'
<1>1. UNCHANGED <<tabs, known, view, logs, lines, search>> /\ L!NoSelection /\ lines \in Nat
  BY DEF L!Clear, LogsIInv, LogsKept
<1>2. ViewIsTab' /\ LogsKept' /\ SearchesFresh'
  BY <1>1 DEF LogsIInv, ViewIsTab, LogsKept, SearchesFresh
<1> QED  BY <1>1, <1>2, NothingSelected DEF LogsIInv

-----------------------------------------------------------------------------
(* Logging.                                                                *)

(* What an appended line drops, and what is then in the buffer.            *)
Evicted(s) == IF Len(s) + 1 > MaxLogs THEN Len(s) + 1 - MaxLogs ELSE 0
Pushed(s, entry) == SubSeq(Append(s, entry), Evicted(s) + 1, Len(s) + 1)

LEMMA InSeq ==
    ASSUME NEW T, NEW s \in Seq(T), NEW i \in 1 .. Len(s) PROVE i \in DOMAIN s /\ s[i] \in T
OBVIOUS

LEMMA PushedIs ==
    ASSUME NEW l \in Nat, NEW s \in Seq(1 .. l), Rising(s), Len(s) <= MaxLogs
    PROVE  /\ Evicted(s) \in {0, 1} /\ Len(s) + 1 - Evicted(s) <= MaxLogs
           /\ Pushed(s, l + 1) \in Seq(1 .. l + 1) /\ Rising(Pushed(s, l + 1))
           /\ Len(Pushed(s, l + 1)) = Len(s) + 1 - Evicted(s)
           /\ \A i \in 1 .. Len(s) + 1 - Evicted(s) :
                 Pushed(s, l + 1)[i] = IF i + Evicted(s) = Len(s) + 1 THEN l + 1 ELSE s[i + Evicted(s)]
<1> DEFINE n == Evicted(s)
           m == Len(s)
           full == Append(s, l + 1)
           new == Pushed(s, l + 1)
<1>1. m \in Nat /\ MaxLogs \in Nat \ {0} /\ m <= MaxLogs
  BY PaneAssumption
<1>2. n \in {0, 1} /\ m + 1 - n <= MaxLogs /\ m + 1 - n \in Nat
  BY <1>1 DEF Evicted
<1>3. full \in Seq(1 .. l + 1) /\ Len(full) = m + 1
  <2>1. 1 .. l \subseteq 1 .. l + 1 /\ l + 1 \in 1 .. l + 1
    OBVIOUS
  <2>2. s \in Seq(1 .. l + 1)
    BY <2>1, SeqWithin
  <2> QED  BY <2>1, <2>2
<1>4. \A i \in 1 .. m + 1 : full[i] = IF i = m + 1 THEN l + 1 ELSE s[i]
  OBVIOUS
<1>5. new = SubSeq(full, n + 1, m + 1)
  BY DEF Pushed
<1> HIDE DEF n, new, full
<1>6. new \in Seq(1 .. l + 1) /\ Len(new) = m + 1 - n
  <2>1. \A i \in (n + 1) .. (m + 1) : i \in 1 .. Len(full)
    BY <1>1, <1>2, <1>3
  <2> DEFINE T == 1 .. l + 1
  <2>2. n + 1 \in Int /\ m + 1 \in Int /\ n + 1 <= m + 1 + 1
    BY <1>1, <1>2
  <2>3. full \in Seq(T) /\ Len(full) = m + 1
    BY <1>3
  <2> HIDE DEF m, T
  <2>4. \A i \in (n + 1) .. (m + 1) : full[i] \in T
    BY <2>1, <2>3, InSeq
  <2>5. SubSeq(full, n + 1, m + 1) \in Seq(T)
    BY <2>2, <2>4
  <2>6. Len(SubSeq(full, n + 1, m + 1)) = m + 1 - n
    BY <1>1, <1>2, <2>2
  <2> QED  BY <1>5, <2>5, <2>6 DEF T
<1>7. \A i \in 1 .. m + 1 - n : new[i] = full[i + n]
  <2> HIDE DEF m
  <2> QED  BY <1>1, <1>2, <1>3, <1>5
<1>8. \A i \in 1 .. m + 1 - n : new[i] = IF i + n = m + 1 THEN l + 1 ELSE s[i + n]
  <2> HIDE DEF m
  <2> SUFFICES ASSUME NEW i \in 1 .. m + 1 - n
               PROVE  new[i] = IF i + n = m + 1 THEN l + 1 ELSE s[i + n]
    OBVIOUS
  <2>1. i + n \in 1 .. m + 1
    BY <1>1, <1>2
  <2> QED  BY <2>1, <1>4, <1>7
<1>9. Rising(new)
  <2> SUFFICES ASSUME NEW i \in 1 .. Len(new), NEW j \in 1 .. Len(new), i < j PROVE new[i] < new[j]
    BY DEF Rising
  <2> DEFINE x == i + n  y == j + n
  <2>1. x \in 1 .. m /\ y \in 1 .. m + 1 /\ x < y
    BY <1>1, <1>2, <1>6
  <2>2. new[i] = s[x] /\ new[j] = IF y = m + 1 THEN l + 1 ELSE s[y]
    <3>1. x # m + 1
      BY <2>1, <1>1
    <3> QED  BY <1>6, <1>8, <3>1
  <2> HIDE DEF x, y
  <2>3. s[x] \in 1 .. l
    BY <2>1, InSeq
  <2>4. CASE y = m + 1
    BY <2>2, <2>3, <2>4
  <2>5. CASE y # m + 1
    <3>1. y \in 1 .. m
      BY <2>1, <2>5, <1>1
    <3> QED  BY <3>1, <2>1, <2>2, <2>5 DEF Rising
  <2> QED  BY <2>4, <2>5
<1> QED  BY <1>2, <1>6, <1>8, <1>9 DEF n, new

(* What is pushed out, and where the rest is then.                         *)
LEMMA PushedOut ==
    ASSUME NEW l \in Nat, NEW s \in Seq(1 .. l), Rising(s), Len(s) <= MaxLogs, NEW i \in 1 .. Len(s)
    PROVE  /\ i > Evicted(s) => /\ i - Evicted(s) \in 1 .. Len(Pushed(s, l + 1))
                                /\ Pushed(s, l + 1)[i - Evicted(s)] = s[i]
           /\ s[i] \in L!Range(Pushed(s, l + 1)) <=> i > Evicted(s)
<1> DEFINE n == Evicted(s)
           m == Len(s)
           new == Pushed(s, l + 1)
<1>1. /\ n \in {0, 1} /\ m \in Nat /\ new \in Seq(1 .. l + 1) /\ Len(new) = m + 1 - n
      /\ \A k \in 1 .. m + 1 - n : new[k] = IF k + n = m + 1 THEN l + 1 ELSE s[k + n]
  BY PushedIs
<1> HIDE DEF n, new
<1>2. s[i] \in 1 .. l
  BY InSeq
<1>3. ASSUME i > n PROVE i - n \in 1 .. Len(new) /\ new[i - n] = s[i]
  <2> DEFINE k == i - n
  <2>1. k \in 1 .. m + 1 - n /\ k + n = i /\ i # m + 1
    BY <1>1, <1>3
  <2> HIDE DEF k
  <2>2. new[k] = s[i]
    BY <1>1, <2>1
  <2> QED  BY <1>1, <2>1, <2>2 DEF k
<1>4. ASSUME i > n PROVE s[i] \in L!Range(new)
  <2>1. i - n \in DOMAIN new
    BY <1>1, <1>3, <1>4, InSeq
  <2> QED  BY <1>3, <1>4, <2>1 DEF L!Range
<1>5. ASSUME s[i] \in L!Range(new) PROVE i > n
  <2>1. PICK k \in 1 .. Len(new) : s[i] = new[k]
    BY <1>1, <1>5, RangeIs
  <2> DEFINE x == k + n
  <2>2. x \in 1 .. m + 1 /\ x > n /\ k \in 1 .. m + 1 - n
    BY <1>1
  <2>3. new[k] = IF x = m + 1 THEN l + 1 ELSE s[x]
    BY <1>1, <2>2
  <2> HIDE DEF x
  <2>4. x # m + 1
    BY <1>2, <2>1, <2>3
  <2>5. x \in 1 .. m
    <3> HIDE DEF m
    <3> QED  BY <1>1, <2>2, <2>4
  <2>6. i = x
    BY <2>1, <2>3, <2>4, <2>5, RisingIsOneToOne
  <2> QED  BY <2>2, <2>6
<1> QED  BY <1>3, <1>4, <1>5 DEF n, new

(* What appending a line does.                                             *)
LEMMA AppendedIs ==
    ASSUME LogsIInv, NEW b \in L!Buffers, L!AppendLine(b)
    PROVE  /\ lines < 4 /\ lines' = lines + 1 /\ lines' \in 0 .. 4
           /\ logs' = [logs EXCEPT ![b] = Pushed(logs[b], lines + 1)]
           /\ search' = [search EXCEPT ![b] = L!Recompute(search[b], logs'[b], Evicted(logs[b]))]
           /\ IF b = L!Active THEN L!ShiftEvicted(Evicted(logs[b])) ELSE UNCHANGED L!selection
           /\ UNCHANGED <<tabs, known, view>>
<1> DEFINE full == Append(logs[b], lines + 1)
           n == IF Len(full) > MaxLogs THEN Len(full) - MaxLogs ELSE 0
<1>1. lines \in 0 .. 4 /\ logs[b] \in Seq(1 .. lines)
  BY DEF LogsIInv, LogsKept
<1>2. Len(full) = Len(logs[b]) + 1
  BY <1>1
<1>3. n = Evicted(logs[b])
  <2> DEFINE m == Len(full)
  <2>1. m = Len(logs[b]) + 1
    BY <1>2
  <2> HIDE DEF m
  <2>2. (IF m > MaxLogs THEN m - MaxLogs ELSE 0) = Evicted(logs[b])
    <3>1. Len(logs[b]) \in Nat /\ MaxLogs \in Nat
      BY <1>1, PaneAssumption
    <3> QED  BY <2>1, <3>1 DEF Evicted
  <2> QED  BY <2>2 DEF m
<1>4. /\ lines < L!MaxLines /\ lines' = lines + 1
      /\ logs' = [logs EXCEPT ![b] = SubSeq(full, n + 1, Len(full))]
      /\ search' = [search EXCEPT ![b] = L!Recompute(search[b], logs'[b], n)]
      /\ IF b = L!Active THEN L!ShiftEvicted(n) ELSE UNCHANGED L!selection
      /\ UNCHANGED <<tabs, known, view>>
  BY Zenon DEF L!AppendLine
<1>5. SubSeq(full, n + 1, Len(full)) = Pushed(logs[b], lines + 1)
  <2> HIDE DEF n
  <2> QED  BY <1>2, <1>3 DEF Pushed
<1>6. L!MaxLines = 4
  BY DEF L!MaxLines
<1>7. lines < 4 /\ lines' \in 0 .. 4
  BY <1>1, <1>4, <1>6
<1> HIDE DEF full, n
<1> QED  BY <1>3, <1>4, <1>5, <1>7

(* What is in the buffer after a line, besides that line, was in it.       *)
LEMMA PushedKeeps ==
    ASSUME NEW l \in Nat, NEW s \in Seq(1 .. l), Rising(s), Len(s) <= MaxLogs,
           NEW x \in L!Range(Pushed(s, l + 1)), x \in 1 .. l
    PROVE  \E i \in 1 .. Len(s) : i > Evicted(s) /\ x = s[i]
<1> DEFINE n == Evicted(s)
           m == Len(s)
           new == Pushed(s, l + 1)
<1>1. /\ n \in {0, 1} /\ m \in Nat /\ new \in Seq(1 .. l + 1) /\ Len(new) = m + 1 - n
      /\ \A k \in 1 .. m + 1 - n : new[k] = IF k + n = m + 1 THEN l + 1 ELSE s[k + n]
  BY PushedIs
<1>2. PICK k \in 1 .. Len(new) : x = new[k]
  <2> HIDE DEF new
  <2> QED  BY <1>1, RangeIs DEF new
<1> HIDE DEF n, new, m
<1> DEFINE i == k + n
<1>3. i \in 1 .. m + 1 /\ i > n /\ k \in 1 .. m + 1 - n
  BY <1>1
<1>4. x = IF i = m + 1 THEN l + 1 ELSE s[i]
  BY <1>1, <1>2, <1>3
<1> HIDE DEF i
<1>5. i # m + 1
  BY <1>4
<1>6. i \in 1 .. m
  BY <1>1, <1>3, <1>5
<1> QED  BY <1>3, <1>4, <1>5, <1>6 DEF n, m

(* The selection moves with its lines, and its anchor with its line, or to *)
(* the first selected line that is left: the same one among the indexes    *)
(* and among the lines.                                                    *)
LEMMA ShiftStep == ASSUME LogsIInv, L!AppendLine(L!Active) PROVE SelectionIsPicked'
<1> DEFINE old == logs[L!Active]
           new == Pushed(old, lines + 1)
           n == Evicted(old)
           rest == picked \cap L!Range(new)
           kept == {i - n : i \in {j \in selected : j > n}}
<1>0. L!Active \in L!Buffers /\ logs' = [logs EXCEPT ![L!Active] = new] /\ L!ShiftEvicted(n)
      /\ lines' = lines + 1 /\ UNCHANGED <<tabs, known, view>>
  BY ActiveIs, AppendedIs
<1>1. old \in Seq(1 .. lines) /\ Rising(old) /\ Len(old) <= MaxLogs /\ lines \in Nat /\ Len(old) \in Nat
  BY ActiveIs DEF LogsIInv, LogsKept
<1>2. L!Active' = L!Active /\ logs'[L!Active] = new
  BY <1>0 DEF L!Active, LogsIInv, LogsKept
<1>3. /\ picked \subseteq 1 .. lines /\ origin \in 0 .. lines
      /\ selected \subseteq 1 .. Len(old) /\ anchor \in 1 .. MaxLogs
      /\ {old[i] : i \in selected} = picked \cap L!Range(old)
      /\ selected # {} => anchor \in 1 .. Len(old) /\ origin = old[anchor]
  BY DEF LogsIInv, SelectionIsPicked, Picked
<1>4. IF n = 0 \/ selected = {} THEN UNCHANGED L!selection
      ELSE /\ selected' = kept
           /\ anchor' = IF anchor > n THEN anchor - n ELSE IF kept = {} THEN 1 ELSE L!Min(kept)
           /\ picked' = rest
           /\ origin' = IF origin \in L!Range(new) THEN origin
                        ELSE IF rest = {} THEN 0 ELSE L!Min(rest)
  BY <1>0, <1>2, Zenon DEF L!ShiftEvicted, L!ShiftedAnchor
<1>5. /\ n \in {0, 1} /\ new \in Seq(1 .. lines + 1) /\ Rising(new) /\ Len(new) = Len(old) + 1 - n /\ Len(new) <= MaxLogs
  <2> HIDE DEF old
  <2> QED  BY <1>1, PushedIs
<1>6. \A i \in 1 .. Len(old) :
         /\ i > n => i - n \in 1 .. Len(new) /\ new[i - n] = old[i]
         /\ old[i] \in L!Range(new) <=> i > n
  <2> HIDE DEF old
  <2> QED  BY <1>1, PushedOut
<1>7. \A x \in L!Range(new) : x \in 1 .. lines => \E i \in 1 .. Len(old) : i > n /\ x = old[i]
  <2> HIDE DEF old
  <2> QED  BY <1>1, PushedKeeps
<1>8. \A i \in 1 .. Len(old) : old[i] \in 1 .. lines /\ old[i] \in L!Range(old)
                             /\ \A j \in 1 .. Len(old) : old[i] = old[j] => i = j
  <2> HIDE DEF old
  <2> QED  BY <1>1, RisingIsOneToOne
<1> HIDE DEF old, new, n
<1>9. rest = {old[i] : i \in {j \in selected : j > n}}
  <2>1. ASSUME NEW x \in rest PROVE x \in {old[i] : i \in {j \in selected : j > n}}
    <3>1. PICK i \in 1 .. Len(old) : i > n /\ x = old[i]
      BY <1>3, <1>7
    <3>2. x \in picked \cap L!Range(old)
      BY <3>1, <1>8
    <3>3. PICK j \in selected : x = old[j]
      BY <3>2, <1>3
    <3>4. i = j
      BY <3>1, <3>3, <1>3, <1>8
    <3> QED  BY <3>1, <3>3, <3>4
  <2>2. ASSUME NEW i \in selected, i > n PROVE old[i] \in rest
    BY <2>2, <1>3, <1>6
  <2> QED  BY <2>1, <2>2
<1>10. picked' \subseteq 1 .. lines' /\ origin' \in 0 .. lines'
       /\ Picked(new, selected', anchor', picked', origin')
  <2>0. Len(new) \in Nat /\ 1 .. lines \subseteq 1 .. lines' /\ 0 .. lines \subseteq 0 .. lines'
    BY <1>0, <1>1, <1>5
  <2>1. CASE selected = {}
    <3>1. rest = {}
      BY <2>1, <1>9
    <3>2. selected' = {} /\ anchor' = anchor /\ picked' = picked /\ origin' = origin
      BY <2>1, <1>4 DEF L!selection
    <3> QED  BY <3>1, <3>2, <2>0, <1>3 DEF Picked
  <2>2. CASE selected # {} /\ n = 0
    <3>1. selected' = selected /\ anchor' = anchor /\ picked' = picked /\ origin' = origin
      BY <2>2, <1>4 DEF L!selection
    <3>2. \A i \in 1 .. Len(old) : i > n /\ i - n = i
      BY <2>2, <1>1
    <3>3. \A i \in 1 .. Len(old) : i \in 1 .. Len(new) /\ new[i] = old[i]
      BY <3>2, <1>6
    <3>4. {new[i] : i \in selected} = rest
      BY <3>2, <3>3, <1>3, <1>9
    <3>5. anchor \in 1 .. Len(new) /\ origin = new[anchor] /\ selected \subseteq 1 .. Len(new)
      BY <2>2, <3>3, <1>3
    <3> QED  BY <3>1, <3>4, <3>5, <2>0, <1>3 DEF Picked
  <2>3. CASE selected # {} /\ n # 0
    <3>1. /\ selected' = kept /\ picked' = rest
          /\ anchor' = IF anchor > n THEN anchor - n ELSE IF kept = {} THEN 1 ELSE L!Min(kept)
          /\ origin' = IF origin \in L!Range(new) THEN origin ELSE IF rest = {} THEN 0 ELSE L!Min(rest)
      BY <2>3, <1>4
    <3>2. \A i \in selected : i > n => i - n \in 1 .. Len(new) /\ new[i - n] = old[i]
      BY <1>3, <1>6
    <3>3. kept \subseteq 1 .. Len(new)
      BY <3>2
    <3>4. {new[k] : k \in kept} = rest
      <4>1. ASSUME NEW k \in kept PROVE new[k] \in rest
        <5>1. PICK i \in selected : i > n /\ k = i - n
          BY <4>1
        <5> QED  BY <5>1, <3>2, <1>9
      <4>2. ASSUME NEW x \in rest PROVE \E k \in kept : x = new[k]
        <5>1. PICK i \in selected : i > n /\ x = old[i]
          BY <4>2, <1>9
        <5>2. i - n \in kept /\ x = new[i - n]
          BY <5>1, <3>2
        <5> QED  BY <5>2
      <4> HIDE DEF kept, rest
      <4> QED  BY <4>1, <4>2
    <3>5. picked' \subseteq 1 .. lines' /\ picked' = rest /\ rest = picked' \cap L!Range(new)
      BY <3>1, <2>0, <1>3
    <3>6. anchor \in 1 .. Len(old) /\ origin = old[anchor] /\ (origin \in L!Range(new) <=> anchor > n)
      BY <2>3, <1>3, <1>6
    <3>7. CASE anchor > n
      <4>1. anchor' = anchor - n /\ origin' = origin
        BY <3>1, <3>6, <3>7
      <4>2. anchor' \in 1 .. Len(new) /\ origin' = new[anchor'] /\ origin' \in 0 .. lines'
        BY <4>1, <3>6, <3>7, <1>6, <1>3, <2>0
      <4>3. anchor' \in 1 .. MaxLogs
        BY <4>2, <2>0, <1>5, PaneAssumption
      <4> HIDE DEF kept, rest
      <4> QED  BY <4>2, <4>3, <3>1, <3>3, <3>4, <3>5 DEF Picked
    <3>8. CASE ~(anchor > n) /\ kept = {}
      <4>1. rest = {}
        BY <3>4, <3>8
      <4>2. anchor' = 1 /\ origin' = 0 /\ selected' = {}
        BY <4>1, <3>1, <3>6, <3>8
      <4>3. anchor' \in 1 .. MaxLogs /\ origin' \in 0 .. lines'
        BY <4>2, <1>1, <1>0, PaneAssumption
      <4> HIDE DEF kept, rest
      <4> QED  BY <4>2, <4>3, <3>1, <3>3, <3>4, <3>5 DEF Picked
    <3>9. CASE ~(anchor > n) /\ kept # {}
      <4>1. rest # {}
        BY <3>4, <3>9
      <4>2. anchor' = L!Min(kept) /\ origin' = L!Min(rest)
        BY <4>1, <3>1, <3>6, <3>9
      <4> HIDE DEF kept, rest
      <4>3. L!Min(kept) \in kept /\ \A y \in kept : L!Min(kept) <= y
        BY <3>3, <3>9, LeastIs
      <4>4. rest \in SUBSET Nat
        BY <1>3, <3>1, <3>5, <1>1, <1>0
      <4>5. L!Min(rest) \in rest /\ \A y \in rest : L!Min(rest) <= y
        BY <4>1, <4>4, LeastIs
      <4>6. PICK k \in kept : L!Min(rest) = new[k]
        BY <3>4, <4>5
      <4>7. k \in 1 .. Len(new) /\ L!Min(kept) \in 1 .. Len(new) /\ L!Min(kept) <= k
        BY <3>3, <4>3
      <4>8. new[L!Min(kept)] <= new[k]
        <5>1. lines + 1 \in Nat
          BY <1>1
        <5> QED  BY <4>7, <5>1, <1>5, RisingIsOneToOne
      <4>9. new[L!Min(kept)] \in rest
        BY <3>4, <4>3
      <4>10. new[L!Min(kept)] = L!Min(rest)
        <5> DEFINE a == new[L!Min(kept)]  c == L!Min(rest)
        <5>1. a \in Nat /\ c \in Nat /\ c <= a
          BY <4>4, <4>5, <4>9
        <5>2. a <= c
          BY <4>6, <4>8
        <5> HIDE DEF a, c
        <5>3. a = c
          BY <5>1, <5>2
        <5> QED  BY <5>3 DEF a, c
      <4>11. anchor' \in 1 .. Len(new) /\ origin' = new[anchor'] /\ origin' \in 0 .. lines'
        <5>1. origin' \in rest
          BY <4>2, <4>5
        <5>2. origin' \in 1 .. lines'
          BY <5>1, <3>1, <3>5
        <5>3. origin' \in 0 .. lines'
          BY <5>2
        <5> QED  BY <4>2, <4>7, <4>10, <5>3
      <4>12. anchor' \in 1 .. MaxLogs
        BY <4>11, <2>0, <1>5, PaneAssumption
      <4> QED  BY <4>11, <4>12, <3>1, <3>3, <3>4, <3>5 DEF Picked
    <3> QED  BY <3>7, <3>8, <3>9
  <2> QED  BY <2>1, <2>2, <2>3
<1> QED  BY <1>2, <1>10 DEF SelectionIsPicked

LEMMA AppendStep == ASSUME LogsIInv, NEW b \in L!Buffers, L!AppendLine(b) PROVE LogsIInv'
<1> DEFINE new == Pushed(logs[b], lines + 1)
<1>1. /\ lines \in 0 .. 4 /\ lines' = lines + 1 /\ lines' \in 0 .. 4
      /\ logs' = [logs EXCEPT ![b] = new]
      /\ search' = [search EXCEPT ![b] = L!Recompute(search[b], logs'[b], Evicted(logs[b]))]
      /\ IF b = L!Active THEN L!ShiftEvicted(Evicted(logs[b])) ELSE UNCHANGED L!selection
      /\ UNCHANGED <<tabs, known, view>>
  BY AppendedIs DEF LogsIInv, LogsKept
<1>2. logs \in [L!Buffers -> Seq(1 .. lines)] /\ search \in [L!Buffers -> Searches]
      /\ \A c \in L!Buffers : Rising(logs[c]) /\ Len(logs[c]) <= MaxLogs /\ Fresh(search[c], logs[c])
  BY DEF LogsIInv, LogsKept, SearchesFresh
<1>3. new \in Seq(1 .. lines') /\ Rising(new) /\ Len(new) <= MaxLogs
  BY <1>1, <1>2, PushedIs
<1> HIDE DEF new
<1>4. \A c \in L!Buffers : logs'[c] = IF c = b THEN new ELSE logs[c]
  BY <1>1, <1>2
<1>5. ViewIsTab'
  BY <1>1 DEF LogsIInv, ViewIsTab
<1>6. LogsKept'
  <2>1. \A c \in L!Buffers : logs[c] \in Seq(1 .. lines')
    <3>1. 1 .. lines \subseteq 1 .. lines'
      BY <1>1
    <3> QED  BY <3>1, <1>2, SeqWithin
  <2>2. logs' \in [L!Buffers -> Seq(1 .. lines')]
    BY <2>1, <1>1, <1>2, <1>3
  <2> QED  BY <2>2, <1>1, <1>2, <1>3, <1>4 DEF LogsKept
<1>7. SearchesFresh'
  <2> DEFINE r == L!Recompute(search[b], logs'[b], Evicted(logs[b]))
  <2>1. new \in Seq(1 .. 4)
    <3>1. 1 .. lines' \subseteq 1 .. 4
      BY <1>1
    <3> QED  BY <3>1, <1>3, SeqWithin
  <2>2. r \in Searches /\ Fresh(r, new)
    BY <2>1, <1>2, <1>4, RecomputeIs
  <2>3. search' = [search EXCEPT ![b] = r]
    BY <1>1
  <2> HIDE DEF r
  <2>4. search' \in [L!Buffers -> Searches]
    BY <2>2, <2>3, <1>2
  <2>5. \A c \in L!Buffers : search'[c] = IF c = b THEN r ELSE search[c]
    BY <2>3, <1>2
  <2> QED  BY <2>2, <2>4, <2>5, <1>2, <1>4 DEF SearchesFresh
<1>8. SelectionIsPicked'
  <2>1. CASE b = L!Active
    BY <2>1, ShiftStep
  <2>2. CASE b # L!Active
    <3>1. L!Active' = L!Active /\ logs'[L!Active] = logs[L!Active] /\ UNCHANGED L!selection
      BY <2>2, <1>1, <1>4, ActiveIs DEF L!Active
    <3>2. lines' \in Nat /\ lines <= lines'
      BY <1>1
    <3> QED  BY <3>1, <3>2, SelectionStays
  <2> QED  BY <2>1, <2>2
<1> QED  BY <1>5, <1>6, <1>7, <1>8 DEF LogsIInv

LEMMA ClearTabStep == ASSUME LogsIInv, L!ClearTab PROVE LogsIInv'
<1> DEFINE r == L!Recompute(search[L!Active], <<>>, 0)
<1>1. /\ logs' = [logs EXCEPT ![L!Active] = <<>>] /\ search' = [search EXCEPT ![L!Active] = r]
      /\ L!NoSelection /\ UNCHANGED <<tabs, known, view, lines>>
  BY DEF L!ClearTab
<1>2. lines \in 0 .. 4 /\ logs \in [L!Buffers -> Seq(1 .. lines)] /\ search \in [L!Buffers -> Searches]
      /\ \A c \in L!Buffers : Rising(logs[c]) /\ Len(logs[c]) <= MaxLogs /\ Fresh(search[c], logs[c])
  BY DEF LogsIInv, LogsKept, SearchesFresh
<1>3. <<>> \in Seq(1 .. lines) /\ <<>> \in Seq(1 .. 4) /\ Rising(<<>>) /\ Len(<<>>) <= MaxLogs
  BY PaneAssumption DEF Rising
<1>4. r \in Searches /\ Fresh(r, <<>>)
  BY <1>3, ActiveIs, RecomputeIs
<1> HIDE DEF r
<1>5. \A c \in L!Buffers : /\ logs'[c] = IF c = L!Active THEN <<>> ELSE logs[c]
                           /\ search'[c] = IF c = L!Active THEN r ELSE search[c]
  BY <1>1, <1>2
<1>6. ViewIsTab'
  BY <1>1 DEF LogsIInv, ViewIsTab
<1>7. LogsKept'
  <2>1. logs' \in [L!Buffers -> Seq(1 .. lines)]
    BY <1>1, <1>2, <1>3
  <2> QED  BY <2>1, <1>1, <1>2, <1>3, <1>5 DEF LogsKept
<1>8. SearchesFresh'
  <2>1. search' \in [L!Buffers -> Searches]
    BY <1>1, <1>2, <1>4
  <2> QED  BY <2>1, <1>2, <1>4, <1>5 DEF SearchesFresh
<1>9. lines' \in Nat
  BY <1>1, <1>2
<1> QED  BY <1>1, <1>6, <1>7, <1>8, <1>9, NothingSelected DEF LogsIInv

-----------------------------------------------------------------------------
(* Tabs.                                                                   *)

(* The buffers stay; the selection goes, or stays in the tab it is in.     *)
LEMMA TabLeaves ==
    ASSUME LogsIInv, ViewIsTab', UNCHANGED <<logs, lines, search>>,
           L!NoSelection \/ (L!Active' = L!Active /\ UNCHANGED L!selection)
    PROVE  LogsIInv'
<1>1. LogsKept' /\ SearchesFresh'
  BY DEF LogsIInv, LogsKept, SearchesFresh
<1>2. lines \in Nat /\ lines' \in Nat /\ lines <= lines'
  BY DEF LogsIInv, LogsKept
<1>3. CASE L!NoSelection
  BY <1>1, <1>2, <1>3, NothingSelected DEF LogsIInv
<1>4. CASE L!Active' = L!Active /\ UNCHANGED L!selection
  <2>1. SelectionIsPicked'
    BY <1>2, <1>4, SelectionStays
  <2> QED  BY <1>1, <2>1 DEF LogsIInv
<1> QED  BY <1>3, <1>4

LEMMA CycleTabStep == ASSUME LogsIInv, NEW forward \in BOOLEAN, L!CycleTab(forward) PROVE LogsIInv'
<1> DEFINE t == 1 + Len(tabs) + (IF known THEN 1 ELSE 0)
<1>1. /\ t > 1 /\ view' = L!Cycled(view + 1, t, forward) - 1 /\ L!NoSelection
      /\ UNCHANGED <<tabs, known, logs, lines, search>>
  BY DEF L!CycleTab, L!TabCount
<1>2. t \in Nat /\ view + 1 \in 1 .. t
  <2>1. view \in 0 .. Len(tabs) + (IF known THEN 1 ELSE 0) /\ known \in BOOLEAN /\ Len(tabs) \in {1, 2}
    BY ActiveIs DEF LogsIInv, ViewIsTab
  <2> QED  BY <2>1
<1>3. L!Cycled(view + 1, t, forward) \in 1 .. t
  <2> HIDE DEF t
  <2> QED  BY <1>1, <1>2, CycledIs
<1>4. view' \in 0 .. t - 1
  <2> HIDE DEF t
  <2> QED  BY <1>1, <1>2, <1>3
<1>5. ViewIsTab'
  <2>1. t - 1 = Len(tabs) + (IF known THEN 1 ELSE 0)
    <3>1. known \in BOOLEAN /\ Len(tabs) \in {1, 2}
      BY ActiveIs DEF LogsIInv, ViewIsTab
    <3> QED  BY <3>1
  <2> HIDE DEF t
  <2> QED  BY <2>1, <1>1, <1>4 DEF LogsIInv, ViewIsTab
<1> QED  BY <1>1, <1>5, TabLeaves

LEMMA MCPStatusStep == ASSUME LogsIInv, L!MCPStatus PROVE LogsIInv'
<1>1. known' = TRUE /\ UNCHANGED <<tabs, view, logs, lines, search, L!selection>>
  BY DEF L!MCPStatus
<1>2. ViewIsTab'
  <2>1. view' \in 0 .. Len(tabs) + 1
    BY <1>1, ActiveIs
  <2> QED  BY <2>1, <1>1 DEF LogsIInv, ViewIsTab
<1>3. L!Active' = L!Active
  BY <1>1 DEF L!Active
<1> QED  BY <1>1, <1>2, <1>3, TabLeaves

(* The user is followed to where his tab is now, or sent home.             *)
LEMMA SetTabsIs ==
    ASSUME LogsIInv, NEW ts \in {<<db>>, <<mail, db>>}, L!SetTabs(ts)
    PROVE  /\ tabs' = ts /\ UNCHANGED <<known, logs, lines, search>> /\ ViewIsTab'
           /\ L!Active' = IF L!Active \in L!Range(ts) \cup {"mcp"} THEN L!Active ELSE "hamr"
           /\ L!NoSelection \/ (L!Active' = L!Active /\ UNCHANGED L!selection)
<1> DEFINE at == {i \in DOMAIN ts : ts[i] = L!Active}
<1>1. /\ tabs' = ts /\ UNCHANGED <<known, logs, lines, search>>
      /\ CASE L!Active = "hamr" -> UNCHANGED <<view, L!selection>>
           [] L!Active = "mcp"  -> view' = Len(ts) + 1 /\ UNCHANGED L!selection
           [] L!Active \in {db, mail} /\ at # {} -> view' \in at /\ UNCHANGED L!selection
           [] OTHER -> view' = 0 /\ L!NoSelection
  BY Zenon DEF L!SetTabs
<1>2. /\ Len(ts) \in {1, 2} /\ DOMAIN ts = 1 .. Len(ts)
      /\ \A i \in 1 .. Len(ts) : ts[i] \in {db, mail}
  BY LayoutsAre
<1>3. known \in BOOLEAN /\ view \in 0 .. Len(tabs) + 1 /\ tabs \in {<<db>>, <<mail, db>>}
      /\ view \in 0 .. Len(tabs) + (IF known THEN 1 ELSE 0) /\ Len(tabs) \in {1, 2}
  BY ActiveIs DEF LogsIInv, ViewIsTab
<1>4. /\ L!Active \in L!Buffers
      /\ L!Active = "hamr" <=> view = 0
      /\ L!Active = "mcp" <=> view = Len(tabs) + 1
  BY <1>3, ShownIs, ActiveIs DEF L!Active
<1>5. \A v \in 0 .. Len(ts) + 1 :
         /\ L!Shown(v, ts) = "hamr" <=> v = 0
         /\ L!Shown(v, ts) = "mcp" <=> v = Len(ts) + 1
         /\ v \in 1 .. Len(ts) => L!Shown(v, ts) = ts[v]
  BY ShownIs
<1>6. L!Active' = L!Shown(view', ts)
  BY <1>1 DEF L!Active
<1>7. L!Range(ts) \subseteq {db, mail} /\ (L!Active \in L!Range(ts) <=> at # {})
  BY <1>2 DEF L!Range
<1>8. /\ "hamr" \notin {db, mail} /\ "mcp" \notin {db, mail} /\ "hamr" # "mcp"
      /\ L!Buffers = {"hamr", "mcp"} \cup {db, mail}
  BY TabsAssumption DEF L!Buffers
<1>9. CASE L!Active = "hamr"
  <2>1. view' = view /\ view = 0 /\ UNCHANGED L!selection
    <3> HIDE DEF at
    <3>1. UNCHANGED <<view, L!selection>>
      BY <1>1, <1>8, <1>9
    <3>2. view = 0
      BY <1>4, <1>9
    <3> QED  BY <3>1, <3>2
  <2>2. view' \in 0 .. Len(ts) + 1 /\ view' \in 0 .. Len(ts) + (IF known THEN 1 ELSE 0)
    BY <2>1, <1>2, <1>3
  <2>3. L!Active' = "hamr"
    BY <2>1, <2>2, <1>5, <1>6
  <2>4. ViewIsTab'
    BY <2>2, <1>1, <1>3 DEF ViewIsTab
  <2> QED  BY <2>1, <2>3, <2>4, <1>1, <1>9
<1>10. CASE L!Active = "mcp"
  <2>0. L!Active # "hamr"
    BY <1>10, <1>8
  <2>1. view' = Len(ts) + 1 /\ UNCHANGED L!selection
    <3> HIDE DEF at
    <3> QED  BY <2>0, <1>1, <1>8, <1>10
  <2>2. view = Len(tabs) + 1
    BY <1>4, <1>10
  <2>3. known = TRUE
    BY <2>2, <1>3
  <2>4. view' \in 0 .. Len(ts) + 1
    BY <2>1, <1>2
  <2>5. L!Active' = "mcp"
    BY <2>1, <2>4, <1>5, <1>6
  <2>6. ViewIsTab'
    BY <2>3, <2>4, <1>1 DEF ViewIsTab
  <2> QED  BY <2>1, <2>5, <2>6, <1>1, <1>10
<1>11. CASE L!Active \in {db, mail} /\ at # {}
  <2>0. L!Active # "hamr" /\ L!Active # "mcp"
    BY <1>11, <1>8
  <2>1. view' \in at /\ UNCHANGED L!selection
    <3> HIDE DEF at
    <3> QED  BY <2>0, <1>1, <1>11
  <2>2. view' \in 1 .. Len(ts) /\ ts[view'] = L!Active
    BY <2>1, <1>2
  <2>3. view' \in 0 .. Len(ts) + 1 /\ view' \in 0 .. Len(ts) + (IF known THEN 1 ELSE 0)
    BY <2>2, <1>2, <1>3
  <2>4. L!Active' = L!Active
    BY <2>2, <2>3, <1>5, <1>6
  <2>5. ViewIsTab'
    BY <2>3, <1>1, <1>3 DEF ViewIsTab
  <2> QED  BY <2>1, <2>4, <2>5, <1>1, <1>7, <1>11
<1>12. CASE L!Active \in {db, mail} /\ at = {}
  <2>0. L!Active # "hamr" /\ L!Active # "mcp"
    BY <1>12, <1>8
  <2>1. view' = 0 /\ L!NoSelection
    <3> HIDE DEF at
    <3> QED  BY <2>0, <1>1, <1>12
  <2>2. view' \in 0 .. Len(ts) + 1 /\ view' \in 0 .. Len(ts) + (IF known THEN 1 ELSE 0)
    BY <2>1, <1>2, <1>3
  <2>3. L!Active' = "hamr"
    BY <2>1, <2>2, <1>5, <1>6
  <2>4. ViewIsTab'
    BY <2>2, <1>1, <1>3 DEF ViewIsTab
  <2> QED  BY <2>0, <2>1, <2>3, <2>4, <1>1, <1>7, <1>12
<1>13. L!Active \in {"hamr", "mcp"} \cup {db, mail}
  BY <1>4, <1>8
<1> HIDE DEF at
<1> QED  BY <1>9, <1>10, <1>11, <1>12, <1>13

LEMMA SetTabsStep ==
    ASSUME LogsIInv, NEW ts \in {<<db>>, <<mail, db>>}, L!SetTabs(ts) PROVE LogsIInv'
BY SetTabsIs, TabLeaves

-----------------------------------------------------------------------------
(* Every action of the logs.                                               *)
LEMMA LogsStep == ASSUME LogsIInv, L!Next PROVE LogsIInv'
<1>1. CASE \E b \in L!Buffers : L!AppendLine(b)
  BY <1>1, AppendStep
<1>2. CASE \E ts \in {<<db>>, <<mail, db>>} : L!SetTabs(ts)
  BY <1>2, SetTabsStep
<1>3. CASE L!MCPStatus
  BY <1>3, MCPStatusStep
<1>4. CASE L!ClearTab
  BY <1>4, ClearTabStep
<1>5. CASE L!Copy
  <2>1. "hamr" \in L!Buffers
    BY DEF L!Buffers
  <2> QED  BY <1>5, <2>1, ClearStep, AppendStep DEF L!Copy
<1>6. CASE L!Escape
  BY <1>6, CloseStep, ClearStep DEF L!Escape
<1>7. CASE L!OpenSearch
  BY <1>7, OpenStep
<1>8. CASE L!CommitSearch
  BY <1>8, CommitStep
<1>9. CASE L!ToggleFilter
  BY <1>9, FilterStep
<1>10. CASE \E q \in {0, 1} : L!TypeQuery(q)
  BY <1>10, TypeQueryStep
<1>11. CASE \E forward \in BOOLEAN : L!CycleTab(forward) \/ L!NextMatch(forward)
  BY <1>11, CycleTabStep, NextMatchStep
<1>12. CASE \E i \in 1 .. MaxLogs : L!ClickPlain(i) \/ L!ClickToggle(i) \/ L!ClickRange(i)
  BY <1>12, PlainStep, ToggleStep, RangeStep
<1> QED
  BY <1>1, <1>2, <1>3, <1>4, <1>5, <1>6, <1>7, <1>8, <1>9, <1>10, <1>11, <1>12 DEF L!Next

(* The logs' invariant, from the start on: buffers in order and within     *)
(* their bound, fresh searches, and a selection with its history.          *)
THEOREM LogsAreKept == MCSpec => []LogsIInv
<1>1. ASSUME MCInit PROVE LogsIInv
  <2>1. /\ tabs \in {<<db>>, <<mail, db>>} /\ known = FALSE /\ view = 0
        /\ logs = [b \in L!Buffers |-> <<>>] /\ lines = 0 /\ search = [b \in L!Buffers |-> L!Closed]
        /\ selected = {} /\ anchor = 1 /\ picked = {} /\ origin = 0
    BY <1>1 DEF MCInit, L!Init
  <2>2. ViewIsTab
    <3>1. Len(tabs) \in {1, 2}
      BY <2>1, LayoutsAre
    <3>2. 0 \in 0 .. Len(tabs) + 0
      BY <3>1
    <3>3. view = 0 /\ (IF known THEN 1 ELSE 0) = 0 /\ known \in BOOLEAN
      BY <2>1
    <3> QED  BY <2>1, <3>2, <3>3, Zenon DEF ViewIsTab
  <2>3. LogsKept
    <3>1. <<>> \in Seq(1 .. lines) /\ Rising(<<>>) /\ Len(<<>>) <= MaxLogs /\ lines \in 0 .. 4
      BY <2>1, PaneAssumption DEF Rising
    <3> QED  BY <2>1, <3>1 DEF LogsKept
  <2>4. SearchesFresh
    BY <2>1, ClosedIs DEF SearchesFresh, Fresh
  <2>5. SelectionIsPicked
    <3>1. 1 \in 1 .. MaxLogs /\ 0 \in 0 .. lines
      BY <2>1, PaneAssumption
    <3> QED  BY <2>1, <3>1 DEF SelectionIsPicked, Picked
  <2> QED  BY <2>2, <2>3, <2>4, <2>5 DEF LogsIInv
<1>2. LogsIInv /\ [MCNext]_mcvars => LogsIInv'
  <2> SUFFICES ASSUME LogsIInv, [MCNext]_mcvars PROVE LogsIInv'
    OBVIOUS
  <2>1. CASE L!Next
    BY <2>1, LogsStep
  <2>2. CASE UNCHANGED logVars
    BY <2>2 DEF logVars, LogsIInv, ViewIsTab, LogsKept, SearchesFresh, SelectionIsPicked, L!Active
  <2> QED  BY <2>1, <2>2 DEF MCNext, mcvars
<1> QED  BY <1>1, <1>2, PTL DEF MCSpec

(* However lines are evicted and tabs come and go: what is selected, and   *)
(* what y would copy, is what the user picked as far as it is still there, *)
(* and no search, also in the background, has a stale list of matches      *)
(* (selection.go, search.go, model.go).                                    *)
THEOREM LogsTellTheTruth == MCSpec => []LogsInv
<1>1. LogsIInv => LogsInv
  <2> SUFFICES ASSUME LogsIInv PROVE LogsInv
    OBVIOUS
  <2>1. L!TypeOK
    <3>1. tabs \in {<<db>>, <<mail, db>>} /\ known \in BOOLEAN
          /\ view \in 0 .. Len(tabs) + (IF known THEN 1 ELSE 0)
      BY DEF LogsIInv, ViewIsTab
    <3>2. ASSUME NEW b \in L!Buffers
          PROVE  Len(logs[b]) <= MaxLogs /\ L!Range(logs[b]) \subseteq 1 .. L!MaxLines
      <4>1. lines \in 0 .. 4 /\ logs[b] \in Seq(1 .. lines) /\ Len(logs[b]) <= MaxLogs
        BY DEF LogsIInv, LogsKept
      <4>2. L!MaxLines = 4
        BY DEF L!MaxLines
      <4>3. \A x \in L!Range(logs[b]) : x \in 1 .. lines
        <5> SUFFICES ASSUME NEW x \in L!Range(logs[b]) PROVE x \in 1 .. lines
          OBVIOUS
        <5>1. PICK i \in 1 .. Len(logs[b]) : x = logs[b][i]
          BY <4>1, RangeIs
        <5> QED  BY <4>1, <5>1, InSeq
      <4>4. 1 .. lines \subseteq 1 .. 4
        BY <4>1
      <4> QED  BY <4>1, <4>2, <4>3, <4>4
    <3>3. \A b \in L!Buffers : search[b].stage \in {"closed", "prompting", "active"}
                               /\ search[b].query \in {0, 1}
      BY DEF LogsIInv, SearchesFresh, Searches
    <3>4. selected \subseteq 1 .. Len(logs[L!Active]) /\ anchor \in 1 .. MaxLogs
      BY DEF LogsIInv, SelectionIsPicked, Picked
    <3> QED  BY <3>1, <3>2, <3>3, <3>4 DEF L!TypeOK
  <2>2. L!SelectsWhatWasPicked
    BY DEF L!SelectsWhatWasPicked, L!LineAt, L!Alive, LogsIInv, SelectionIsPicked, Picked
  <2>3. L!SearchIsFresh
    BY DEF L!SearchIsFresh, LogsIInv, SearchesFresh, Fresh
  <2> QED  BY <2>1, <2>2, <2>3 DEF LogsInv, L!Inv
<1> QED  BY <1>1, LogsAreKept, PTL

(* The match a reader is at is found again, at its line's new index.       *)
LEMMA ReaderStays ==
    ASSUME LogsIInv, NEW b \in L!Buffers, L!AppendLine(b), NEW c \in L!Buffers,
           search[c].stage = "active",
           L!AtMatch(search[c], logs[c])[1] \in L!Range(logs'[c])
    PROVE  L!AtMatch(search'[c], logs'[c]) = L!AtMatch(search[c], logs[c])
<1> DEFINE old == logs[b]
           new == Pushed(old, lines + 1)
           n == Evicted(old)
           s == search[b]
           r == L!Recompute(s, new, n)
<1>1. /\ lines < 4 /\ lines \in 0 .. 4 /\ logs' = [logs EXCEPT ![b] = new]
      /\ search' = [search EXCEPT ![b] = L!Recompute(search[b], logs'[b], Evicted(logs[b]))]
  BY AppendedIs DEF LogsIInv, LogsKept
<1>2. logs \in [L!Buffers -> Seq(1 .. lines)] /\ search \in [L!Buffers -> Searches]
      /\ Rising(old) /\ Len(old) <= MaxLogs /\ Fresh(s, old)
  BY DEF LogsIInv, LogsKept, SearchesFresh
<1>3. CASE c # b
  <2> HIDE DEF new
  <2>1. logs'[c] = logs[c] /\ search'[c] = search[c]
    BY <1>1, <1>2, <1>3
  <2> QED  BY <2>1
<1>4. CASE c = b
  <2>1. logs'[b] = new /\ search'[b] = r
    <3> HIDE DEF new, n
    <3>1. logs'[b] = new
      BY <1>1, <1>2
    <3>2. search'[b] = L!Recompute(search[b], logs'[b], Evicted(logs[b]))
      <4> DEFINE q == L!Recompute(search[b], logs'[b], Evicted(logs[b]))
      <4>1. search' = [search EXCEPT ![b] = q]
        BY <1>1
      <4> HIDE DEF q
      <4>2. search'[b] = q
        BY <4>1, <1>2
      <4> QED  BY <4>2 DEF q
    <3> QED  BY <3>1, <3>2 DEF n
  <2> DEFINE cur == L!Current(s)
             prev == IF cur[1] > n THEN <<cur[1] - n, cur[2]>> ELSE L!NoMatch
             ms == L!Matches(new, s.query)
             at == CHOOSE j \in DOMAIN ms : ms[j] = prev
  <2>2. s.stage = "active" /\ s.query \in {0, 1} /\ s \in Searches
        /\ s.matches = L!Matches(old, s.query)
    BY <1>2, <1>4 DEF Fresh, Searches
  <2>3. old \in Seq(1 .. lines) /\ old \in Seq(1 .. 4) /\ Len(old) \in Nat /\ lines \in Nat
    <3>1. 1 .. lines \subseteq 1 .. 4
      BY <1>1
    <3>2. old \in Seq(1 .. lines)
      BY <1>2
    <3> QED  BY <1>1, <3>1, <3>2, SeqWithin
  <2>4. /\ n \in {0, 1} /\ new \in Seq(1 .. lines + 1) /\ Rising(new) /\ Len(new) \in Nat
        /\ new \in Seq(1 .. 4)
    <3> HIDE DEF old
    <3>1. n \in {0, 1} /\ new \in Seq(1 .. lines + 1) /\ Rising(new)
      BY <1>2, <2>3, PushedIs
    <3>2. 1 .. lines + 1 \subseteq 1 .. 4
      BY <1>1
    <3> HIDE DEF new, n
    <3>3. new \in Seq(1 .. 4)
      BY <3>1, <3>2, SeqWithin
    <3>4. Len(new) \in Nat
      BY <3>3
    <3> QED  BY <3>1, <3>3, <3>4
  <2>5. L!AtMatch(s, old)[1] \in L!Range(new)
    BY <1>4, <2>1
  <2> HIDE DEF old, new, n
  <2>6. cur # L!NoMatch
    <3> SUFFICES ASSUME cur = L!NoMatch PROVE FALSE
      OBVIOUS
    <3>1. L!AtMatch(s, old)[1] = 0
      BY DEF L!AtMatch
    <3>2. PICK i \in 1 .. Len(new) : 0 = new[i]
      BY <2>4, <2>5, <3>1, RangeIs
    <3>3. new[i] \in 1 .. 4
      BY <2>4, InSeq
    <3> QED  BY <3>2, <3>3
  <2>7. s.cursor \in DOMAIN s.matches /\ cur = s.matches[s.cursor]
    BY <2>6 DEF L!Current
  <2>8. /\ cur \in (1 .. Len(old)) \X Nat /\ cur \in L!Range(L!Matches(old, s.query))
    <3> DEFINE mo == L!Matches(old, s.query)
    <3>1. mo \in Seq((1 .. Len(old)) \X Nat)
      BY <2>2, <2>3, MatchesAre
    <3> HIDE DEF mo
    <3>2. s.cursor \in DOMAIN mo /\ cur = mo[s.cursor]
      BY <2>2, <2>7 DEF mo
    <3>3. mo[s.cursor] \in (1 .. Len(old)) \X Nat
      BY <3>1, <3>2
    <3>4. cur \in L!Range(mo)
      BY <3>2 DEF L!Range
    <3> QED  BY <3>2, <3>3, <3>4 DEF mo
  <2> DEFINE i == cur[1]  k == cur[2]
  <2> HIDE DEF cur
  <2>9. i \in 1 .. Len(old) /\ k \in Nat /\ cur = <<i, k>>
    BY <2>8
  <2>10. L!AtMatch(s, old) = <<old[i], k>>
    BY <2>6 DEF L!AtMatch, cur
  <2>11. i > n /\ i - n \in 1 .. Len(new) /\ new[i - n] = old[i]
    <3>1. old[i] \in L!Range(new)
      BY <2>5, <2>10
    <3> QED  BY <3>1, <1>2, <2>3, <2>9, PushedOut DEF new, n
  <2>12. prev = <<i - n, k>>
    BY <2>11
  <2>13. s.query = 1 /\ k \in 1 .. <<0, 1, 2, 0>>[old[i]]
    <3>1. s.query # 0
      BY <2>2, <2>3, <2>8, MatchesAre
    <3>2. s.query = 1
      BY <2>2, <3>1
    <3>3. <<i, k>> \in L!Range(L!Matches(old, 1))
      BY <2>8, <2>9, <3>2
    <3> HIDE DEF i, k
    <3> QED  BY <2>3, <2>9, <3>2, <3>3, MatchesAre
  <2>14. prev \in L!Range(ms) /\ ms \in Seq((1 .. Len(new)) \X Nat)
    <3>1. k \in 1 .. <<0, 1, 2, 0>>[new[i - n]]
      BY <2>11, <2>13
    <3> DEFINE x == i - n
    <3>2. x \in 1 .. Len(new) /\ k \in 1 .. <<0, 1, 2, 0>>[new[x]] /\ prev = <<x, k>>
      BY <2>11, <2>12, <3>1
    <3> HIDE DEF x, k, i, prev
    <3>3. <<x, k>> \in L!Range(L!Matches(new, 1))
      BY <2>4, <2>9, <3>2, MatchesAre
    <3> QED  BY <2>2, <2>4, <2>13, <3>2, <3>3, MatchesAre
  <2>15. r = [s EXCEPT !.matches = ms, !.cursor = at]
    <3>1. r = [s EXCEPT !.matches = ms, !.cursor = IF s.stage = "active" /\ prev \in L!Range(ms)
                                                     THEN at ELSE 1]
      <4>1. s.stage # "closed"
        BY <2>2
      <4> QED  BY <4>1 DEF L!Recompute, cur
    <3> HIDE DEF ms, at, prev, r
    <3> QED  BY <2>2, <2>14, <3>1
  <2>16. at \in DOMAIN ms /\ ms[at] = prev
    <3> HIDE DEF ms, prev
    <3>1. \E j \in DOMAIN ms : ms[j] = prev
      BY <2>14 DEF L!Range
    <3> QED  BY <3>1
  <2> HIDE DEF r, ms, at, prev
  <2>17. r.matches = ms /\ r.cursor = at
    BY <2>2, <2>15 DEF Searches
  <2>18. L!Current(r) = prev
    BY <2>16, <2>17 DEF L!Current
  <2>19. prev # L!NoMatch
    <3>1. prev[1] = i - n /\ i - n # 0
      BY <2>11, <2>12
    <3> HIDE DEF i, k
    <3>2. L!NoMatch[1] = 0
      BY DEF L!NoMatch
    <3> QED  BY <3>1, <3>2
  <2>20. L!AtMatch(r, new) = <<new[prev[1]], prev[2]>>
    BY <2>18, <2>19 DEF L!AtMatch
  <2>21. prev[1] = i - n /\ prev[2] = k
    BY <2>12
  <2>22. L!AtMatch(r, new) = <<old[i], k>>
    BY <2>11, <2>20, <2>21
  <2> QED  BY <1>4, <2>1, <2>10, <2>22 DEF old, s, r
<1> QED  BY <1>3, <1>4

(* A new line does not move the reader of a search from the match he is    *)
(* at, if its line is still there, and a new list of tabs leaves the user  *)
(* in the tab he was in, or takes him to the dev server's own              *)
(* (search.go, model.go).                                                  *)
THEOREM ReaderIsLeft == MCSpec => ReaderUndisturbed
<1>1. LogsIInv /\ [MCNext]_mcvars => [L!Undisturbed]_(L!vars)
  <2> SUFFICES ASSUME LogsIInv, [MCNext]_mcvars PROVE [L!Undisturbed]_(L!vars)
    OBVIOUS
  <2>1. CASE L!Next
    <3>1. ASSUME NEW b \in L!Buffers, L!AppendLine(b) PROVE L!Undisturbed
      <4>1. tabs' = tabs
        BY <3>1, AppendedIs
      <4>2. \A c \in L!Buffers :
               search[c].stage = "active" /\ L!AtMatch(search[c], logs[c])[1] \in L!Range(logs'[c])
                  => L!AtMatch(search'[c], logs'[c]) = L!AtMatch(search[c], logs[c])
        BY <3>1, ReaderStays
      <4> QED  BY <4>1, <4>2 DEF L!Undisturbed
    <3>2. ASSUME NEW ts \in {<<db>>, <<mail, db>>}, L!SetTabs(ts) PROVE L!Undisturbed
      <4>1. tabs' = ts /\ lines' = lines
            /\ L!Active' = IF L!Active \in L!Range(ts) \cup {"mcp"} THEN L!Active ELSE "hamr"
        BY <3>2, SetTabsIs
      <4> QED  BY <4>1 DEF L!Undisturbed, L!Active
    <3>3. ASSUME lines' = lines, tabs' = tabs PROVE L!Undisturbed
      BY <3>3 DEF L!Undisturbed
    <3>4. CASE L!MCPStatus \/ L!ClearTab
      BY <3>3, <3>4 DEF L!MCPStatus, L!ClearTab
    <3>5. ASSUME NEW s, L!SetSearch(s) PROVE L!Undisturbed
      BY <3>3, <3>5 DEF L!SetSearch
    <3>6. CASE L!Clear
      BY <3>3, <3>6 DEF L!Clear
    <3>7. CASE L!Copy
      <4>1. "hamr" \in L!Buffers
        BY DEF L!Buffers
      <4> QED  BY <3>1, <3>6, <3>7, <4>1 DEF L!Copy
    <3>8. CASE L!Escape \/ L!OpenSearch \/ L!CommitSearch \/ L!ToggleFilter
      BY <3>5, <3>6, <3>8 DEF L!Escape, L!OpenSearch, L!CommitSearch, L!ToggleFilter
    <3>9. CASE \E q \in {0, 1} : L!TypeQuery(q)
      BY <3>5, <3>9 DEF L!TypeQuery
    <3>10. CASE \E forward \in BOOLEAN : L!CycleTab(forward) \/ L!NextMatch(forward)
      <4>1. \A forward \in BOOLEAN : L!CycleTab(forward) => L!Undisturbed
        BY <3>3 DEF L!CycleTab
      <4>2. \A forward \in BOOLEAN : L!NextMatch(forward) => L!Undisturbed
        BY <3>5 DEF L!NextMatch
      <4> QED  BY <3>10, <4>1, <4>2
    <3>11. CASE \E i \in 1 .. MaxLogs : L!ClickPlain(i) \/ L!ClickToggle(i) \/ L!ClickRange(i)
      BY <3>3, <3>11 DEF L!ClickPlain, L!ClickToggle, L!ClickRange
    <3> QED
      BY <2>1, <3>1, <3>2, <3>4, <3>7, <3>8, <3>9, <3>10, <3>11 DEF L!Next
  <2>2. CASE UNCHANGED logVars
    BY <2>2 DEF logVars, L!vars
  <2> QED  BY <2>1, <2>2 DEF MCNext, mcvars
<1> QED  BY <1>1, LogsAreKept, PTL DEF MCSpec, ReaderUndisturbed, L!ReaderUndisturbed
=============================================================================
