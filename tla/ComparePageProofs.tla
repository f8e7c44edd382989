--------------------------- MODULE ComparePageProofs ---------------------------
(***************************************************************************)
(* Theorems about ComparePage, for any two graphs, groupings and layouts.  *)
(*                                                                         *)
(* Most of what a panel shows depends on which panel answered first and    *)
(* on what the reader did in between.  PaintInv says that the colours are  *)
(* those of the present highlight whatever came before; PanesInv that the  *)
(* side-by-side pane is never left before both graphs have been fitted in  *)
(* it, and that a combined graph that was drawn is never asked for again.  *)
(*                                                                         *)
(* That a synced gesture keeps the offset is arithmetic on two scales and  *)
(* their quotients, at the end.                                            *)
(***************************************************************************)
EXTENDS ComparePage, WellFoundedInduction, TLAPS

StageType == stage \in [Panels -> {"asking", "parsed", "shown", "failed"}]

ViewInv ==
    /\ DOMAIN view = Panels /\ DOMAIN drawn = Panels /\ DOMAIN last = Panels
    /\ InStep

HiddenInv ==
    /\ hidden \in [Panels -> SUBSET Blocks] /\ DOMAIN hiddenEdges = Panels
    /\ hovered \in {None} \cup (Panels \X Blocks)
    /\ EdgesFollowBlocks

PaintInv ==
    /\ highlight \in Modes /\ isLoopBoundaryShown \in BOOLEAN
    /\ loops \in [Panels -> Seq(SUBSET Blocks)]
    /\ DOMAIN boundary = Panels /\ DOMAIN paint = Panels
    /\ \A p \in Panels : boundary[p] = "none" <=> p \notin Shown
    /\ \A p \in Panels : DOMAIN paint[p] = IF p \in Shown THEN Graph[p].blocks ELSE {}
    /\ Decorated

PanesInv ==
    /\ mode \in {"side-by-side", "combined"} /\ viewCombined \in BOOLEAN
    /\ requests \in Nat /\ draws \in Nat
    /\ initialScale \in [Panels -> Int]
    /\ mode = "combined" => viewCombined
    /\ viewCombined => Shown = Panels
    /\ combined = 0 <=> draws = 0
    /\ FittedOnScreen /\ CombinedDrawnOnce

IInv == StageType /\ ViewInv /\ HiddenInv /\ PaintInv /\ PanesInv
--------------------------------------------------------------------------------
(* Colouring.                                                                 *)

\* The greatest of some indices is one of them (Max is a CHOOSE).
LEMMA GreatestIndex ==
    ASSUME NEW n \in Nat, NEW S, S \subseteq 1..n, S # {}
    PROVE  /\ Max(S) \in S
           /\ \A j \in S : j <= Max(S)
<1> DEFINE T == {n - i : i \in S}
<1>1. T \subseteq Nat /\ T # {}
  <2>1. \A i \in S : n - i \in Nat
    OBVIOUS
  <2> QED BY <2>1
<1>2. PICK x \in T : \A y \in T : <<y, x>> \notin OpToRel(<, Nat)
  <2> HIDE DEF T
  <2> QED BY <1>1, WFMin, NatLessThanWellFounded, Zenon
<1>3. PICK i \in S : x = n - i
  BY <1>2
<1>4. \A j \in S : ~ (n - j < n - i)
  <2> TAKE j \in S
  <2>1. n - j \in T /\ n - j \in Nat /\ n - i \in Nat
    BY <1>1
  <2>2. <<n - j, n - i>> \notin OpToRel(<, Nat)
    BY <2>1, <1>2, <1>3
  <2> QED BY <2>1, <2>2, Zenon DEF OpToRel
<1>5. \A j \in S : i >= j
  BY <1>4
<1>6. Max(S) \in S /\ \A j \in S : Max(S) >= j
  BY <1>5, Zenon DEF Max
<1> QED BY <1>6

\* What the last group that holds a block makes of its colour.
LastGroup(fill, kind, groups, b) ==
    \/ /\ fill = <<"diff", 0>>
       /\ \A i \in DOMAIN groups : b \notin groups[i]
    \/ \E i \in DOMAIN groups :
        /\ fill = <<kind, i>> /\ b \in groups[i]
        /\ \A j \in DOMAIN groups : b \in groups[j] => j <= i

LEMMA ColouredByLast ==
    ASSUME NEW fills, NEW kind, NEW groups \in Seq(SUBSET Blocks), NEW b \in DOMAIN fills,
           \/ fills[b] = <<"diff", 0>>
           \/ LastGroup(fills[b], kind, groups, b)
    PROVE  LastGroup(Coloured(fills, kind, groups)[b], kind, groups, b)
<1> DEFINE holding == {i \in DOMAIN groups : b \in groups[i]}
<1>1. Coloured(fills, kind, groups)[b] = IF holding = {} THEN fills[b] ELSE <<kind, Max(holding)>>
  BY DEF Coloured
<1>2. CASE holding = {}
  BY <1>1, <1>2 DEF LastGroup
<1>3. CASE holding # {}
  <2>1. Len(groups) \in Nat /\ holding \subseteq 1..Len(groups)
    OBVIOUS
  <2>2. Max(holding) \in holding /\ \A j \in holding : j <= Max(holding)
    <3> HIDE DEF holding
    <3> QED BY <2>1, <1>3, GreatestIndex
  <2> QED BY <1>1, <1>3, <2>2 DEF LastGroup
<1> QED BY <1>2, <1>3

GroupsOf(on, found, p) == CASE on = "cycles" -> Cycles[p]
                            [] on = "loops"  -> found[p]
                            [] OTHER         -> <<>>

LEMMA HighlightedByLast ==
    ASSUME NEW fills, DOMAIN fills = Panels, NEW on \in Modes,
           NEW found \in [Panels -> Seq(SUBSET Blocks)], NEW p \in Panels
    PROVE  /\ DOMAIN Highlighted(fills, on, found) = Panels
           /\ DOMAIN Highlighted(fills, on, found)[p] = DOMAIN fills[p]
           /\ \A b \in DOMAIN fills[p] :
                \/ fills[p][b] = <<"diff", 0>>
                \/ LastGroup(fills[p][b], on, GroupsOf(on, found, p), b)
                => LastGroup(Highlighted(fills, on, found)[p][b], on, GroupsOf(on, found, p), b)
<1>1. CASE on = "cycles"
  <2>1. Cycles[p] \in Seq(SUBSET Blocks) /\ GroupsOf(on, found, p) = Cycles[p]
    BY <1>1, GraphAssumption DEF GroupsOf
  <2>2. /\ DOMAIN Highlighted(fills, on, found) = Panels
        /\ Highlighted(fills, on, found)[p] = Coloured(fills[p], "cycles", Cycles[p])
    BY <1>1 DEF Highlighted, showCycles
  <2>3. DOMAIN Coloured(fills[p], "cycles", Cycles[p]) = DOMAIN fills[p]
    BY DEF Coloured
  <2> QED BY <1>1, <2>1, <2>2, <2>3, ColouredByLast
<1>2. CASE on = "loops"
  <2>1. found[p] \in Seq(SUBSET Blocks) /\ GroupsOf(on, found, p) = found[p]
    BY <1>2 DEF GroupsOf
  <2>2. /\ DOMAIN Highlighted(fills, on, found) = Panels
        /\ Highlighted(fills, on, found)[p] = Coloured(fills[p], "loops", found[p])
    BY <1>2 DEF Highlighted, showLoops
  <2>3. DOMAIN Coloured(fills[p], "loops", found[p]) = DOMAIN fills[p]
    BY DEF Coloured
  <2> QED BY <1>2, <2>1, <2>2, <2>3, ColouredByLast
<1>3. CASE on \notin {"cycles", "loops"}
  BY <1>3 DEF Highlighted, GroupsOf, LastGroup
<1> QED BY <1>1, <1>2, <1>3
--------------------------------------------------------------------------------
(* The panels, and what a step does to them.                                  *)

LEMMA StageSteps ==
    ASSUME StageType, [Next]_vars
    PROVE  /\ StageType'
           /\ \/ Shown' = Shown
              \/ \E p \in Panels : ShowGraph(p) /\ p \notin Shown /\ Shown' = Shown \cup {p}
<1>1. ASSUME NEW p \in Panels, DotGraph(p)
      PROVE  StageType' /\ Shown' = Shown
  BY <1>1 DEF StageType, DotGraph, Shown
<1>2. ASSUME NEW p \in Panels, ShowGraph(p)
      PROVE  StageType' /\ p \notin Shown /\ Shown' = Shown \cup {p}
  BY <1>2 DEF StageType, ShowGraph, Shown
<1>3. ASSUME UNCHANGED stage
      PROVE  StageType' /\ Shown' = Shown
  BY <1>3 DEF StageType, Shown
<1>4. \/ UNCHANGED stage
      \/ \E p \in Panels : DotGraph(p) \/ ShowGraph(p)
  BY DEF Next, Hover, ClickEdge, Return, Gesture, ClickBlock, ToggleHighlight, ToggleBoundaries,
         Leave, Backspace, ToggleSync, resetView, setViewMode, CombinedFails, renderCombined,
         vars, graphs
<1> QED BY <1>1, <1>2, <1>3, <1>4

LEMMA ViewKept ==
    ASSUME StageType, ViewInv, [Next]_vars
    PROVE  ViewInv'
<1>1. ASSUME NEW p \in Panels, ShowGraph(p)
      PROVE  ViewInv'
  <2>1. \A q \in Shown' : q = p \/ q \in Shown
    BY <1>1 DEF ShowGraph, StageType, Shown
  <2> QED BY <1>1, <2>1 DEF ShowGraph, ViewInv, InStep, Shown
<1>2. ASSUME NEW p \in Panels, Gesture(p)
      PROVE  ViewInv'
  <2>1. Shown' = Shown /\ p \in Shown
    BY <1>2 DEF Gesture, graphs, Shown
  <2>2. PICK new, other :
            /\ view' = [view EXCEPT ![p] = new, ![Opposite[p]] = other]
            /\ \/ /\ drawn' = [drawn EXCEPT ![p] = new, ![Opposite[p]] = other]
                  /\ last' = [last EXCEPT ![p] = new, ![Opposite[p]] = other]
               \/ /\ drawn' = [drawn EXCEPT ![p] = new, ![Opposite[p]] = @]
                  /\ last' = [last EXCEPT ![p] = new, ![Opposite[p]] = @]
                  /\ other = view[Opposite[p]]
    BY <1>2, Zenon DEF Gesture
  <2>3. Opposite[p] \in Panels /\ Opposite[p] # p
    BY DEF Opposite, Panels
  <2> QED BY <2>1, <2>2, <2>3 DEF ViewInv, InStep, Shown
<1>3. ASSUME NEW p \in Panels, ClickBlock(p)
      PROVE  ViewInv'
  <2>1. Shown' = Shown
    BY <1>3 DEF ClickBlock, graphs, Shown
  <2>2. CASE UNCHANGED zooms
    BY <2>1, <2>2 DEF zooms, ViewInv, InStep, Shown
  <2>3. ASSUME NEW b, centerOn(Opposite[p], b), Opposite[p] \in Shown
        PROVE  ViewInv'
    BY <2>1, <2>3 DEF centerOn, ViewInv, InStep, Shown
  <2> QED BY <1>3, <2>2, <2>3 DEF ClickBlock
<1>4. ASSUME resetView
      PROVE  ViewInv'
  BY <1>4 DEF resetView, ViewInv, InStep, Shown, graphs
<1>5. ASSUME UNCHANGED zooms, Shown' = Shown
      PROVE  ViewInv'
  BY <1>5 DEF zooms, ViewInv, InStep
<1>6. \/ UNCHANGED zooms
      \/ resetView
      \/ \E p \in Panels : ShowGraph(p) \/ Gesture(p) \/ ClickBlock(p)
  BY DEF Next, DotGraph, Hover, ClickEdge, Return, ToggleHighlight, ToggleBoundaries, Leave,
         Backspace, ToggleSync, setViewMode, CombinedFails, renderCombined, vars
<1> QED BY <1>1, <1>2, <1>3, <1>4, <1>5, <1>6, StageSteps

LEMMA HiddenKept ==
    ASSUME HiddenInv, [Next]_vars
    PROVE  HiddenInv'
<1>1. ASSUME NEW p \in Panels, Hover(p)
      PROVE  HiddenInv'
  <2>1. \A b \in Visible(p) : b \in Blocks
    BY GraphAssumption DEF Visible
  <2>2. hovered' \in {None} \cup (Panels \X Blocks) /\ UNCHANGED <<hidden, hiddenEdges>>
    BY <1>1, <2>1 DEF Hover, removed
  <2> QED BY <2>2 DEF HiddenInv, EdgesFollowBlocks
<1>2. ASSUME Leave
      PROVE  HiddenInv'
  BY <1>2 DEF Leave, removed, HiddenInv, EdgesFollowBlocks
<1>3. ASSUME Backspace
      PROVE  HiddenInv'
  <2>1. PICK p \in Panels, b \in Blocks : hovered = <<p, b>>
    BY <1>3 DEF Backspace, HiddenInv
  <2>2. /\ hidden' = [hidden EXCEPT ![p] = hidden[p] \cup {b}]
        /\ hiddenEdges' = [hiddenEdges EXCEPT ![p] = hiddenEdges[p] \cup EdgesOf(p, b)]
        /\ UNCHANGED hovered
    BY <1>3, <2>1 DEF Backspace, EdgesWithout
  <2>3. hidden' \in [Panels -> SUBSET Blocks] /\ DOMAIN hiddenEdges' = Panels
    BY <2>2 DEF HiddenInv
  <2>4. ASSUME NEW q \in Panels
        PROVE  hiddenEdges'[q] = {e \in Graph[q].edges : e[1] \in hidden'[q] \/ e[2] \in hidden'[q]}
    <3>1. hiddenEdges[q] = {e \in Graph[q].edges : e[1] \in hidden[q] \/ e[2] \in hidden[q]}
      BY DEF HiddenInv, EdgesFollowBlocks
    <3>2. CASE q = p
      <4>1. hidden'[q] = hidden[q] \cup {b} /\ hiddenEdges'[q] = hiddenEdges[q] \cup EdgesOf(q, b)
        BY <2>2, <3>2 DEF HiddenInv
      <4> QED BY <3>1, <4>1 DEF EdgesOf
    <3>3. CASE q # p
      BY <2>2, <3>1, <3>3 DEF HiddenInv
    <3> QED BY <3>2, <3>3
  <2> QED BY <2>2, <2>3, <2>4 DEF HiddenInv, EdgesFollowBlocks
<1>4. ASSUME UNCHANGED <<hovered, hidden, hiddenEdges>>
      PROVE  HiddenInv'
  BY <1>4 DEF HiddenInv, EdgesFollowBlocks
<1>5. \/ UNCHANGED <<hovered, hidden, hiddenEdges>>
      \/ Leave \/ Backspace
      \/ \E p \in Panels : Hover(p)
  BY DEF Next, DotGraph, ShowGraph, ClickEdge, Return, Gesture, ClickBlock, ToggleHighlight,
         ToggleBoundaries, ToggleSync, resetView, setViewMode, CombinedFails, renderCombined,
         vars, removed
<1> QED BY <1>1, <1>2, <1>3, <1>4, <1>5

--------------------------------------------------------------------------------
(* The colours.                                                               *)

\* The part of PaintInv that speaks of one panel.
PanelPainted(p) ==
    /\ \A b \in Graph[p].blocks : LastGroup(paint[p][b], highlight, GroupsOf(highlight, loops, p), b)
    /\ boundary[p] = IF isLoopBoundaryShown THEN "on" ELSE "off"

LEMMA DecoratedPanels == Decorated <=> \A p \in Shown : PanelPainted(p)
  BY DEF Decorated, PanelPainted, LastGroup, Groups, GroupsOf

LEMMA PaintShown ==
    ASSUME PaintInv, NEW p \in Panels, ShowGraph(p), p \notin Shown, Shown' = Shown \cup {p}
    PROVE  PaintInv'
<1> DEFINE fills == [paint EXCEPT ![p] = Diff(p)]
<1>1. PICK answer \in LoopAnswers[p] : loops' = [loops EXCEPT ![p] = answer]
  BY DEF ShowGraph
<1>2. /\ paint' = Highlighted(fills, highlight, loops')
      /\ boundary' = [boundary EXCEPT ![p] = IF isLoopBoundaryShown THEN "on" ELSE "off"]
      /\ UNCHANGED <<highlight, isLoopBoundaryShown>>
  BY DEF ShowGraph, reapplyHighlight, renderLoopBoundaries, controls
<1>3. loops' \in [Panels -> Seq(SUBSET Blocks)] /\ loops'[p] = answer
  BY <1>1, GraphAssumption DEF PaintInv
<1>4. \A q \in Panels : q # p => loops'[q] = loops[q]
  BY <1>1 DEF PaintInv
<1>5. /\ DOMAIN fills = Panels
      /\ DOMAIN fills[p] = Graph[p].blocks /\ \A b \in Graph[p].blocks : fills[p][b] = <<"diff", 0>>
      /\ \A q \in Panels : q # p => fills[q] = paint[q]
  BY DEF Diff, PaintInv
<1>6. ASSUME NEW q \in Panels
      PROVE  /\ DOMAIN paint' = Panels /\ DOMAIN paint'[q] = DOMAIN fills[q]
             /\ \A b \in DOMAIN fills[q] :
                  \/ fills[q][b] = <<"diff", 0>>
                  \/ LastGroup(fills[q][b], highlight, GroupsOf(highlight, loops', q), b)
                  => LastGroup(paint'[q][b], highlight, GroupsOf(highlight, loops', q), b)
  <2> HIDE DEF fills
  <2>1. highlight \in Modes /\ DOMAIN fills = Panels /\ loops' \in [Panels -> Seq(SUBSET Blocks)]
    BY <1>3, <1>5 DEF PaintInv
  <2>2. /\ DOMAIN Highlighted(fills, highlight, loops') = Panels
        /\ DOMAIN Highlighted(fills, highlight, loops')[q] = DOMAIN fills[q]
        /\ \A b \in DOMAIN fills[q] :
             \/ fills[q][b] = <<"diff", 0>>
             \/ LastGroup(fills[q][b], highlight, GroupsOf(highlight, loops', q), b)
             => LastGroup(Highlighted(fills, highlight, loops')[q][b], highlight,
                          GroupsOf(highlight, loops', q), b)
    BY <2>1, HighlightedByLast
  <2> QED BY <1>2, <2>2
<1>7. \A q \in Panels : DOMAIN paint'[q] = IF q \in Shown' THEN Graph[q].blocks ELSE {}
  <2> HIDE DEF fills
  <2> QED BY <1>5, <1>6 DEF PaintInv
<1>8. ASSUME NEW q \in Shown'
      PROVE  PanelPainted(q)'
  <2>1. CASE q = p
    <3>1. \A b \in Graph[p].blocks :
             LastGroup(paint'[p][b], highlight, GroupsOf(highlight, loops', p), b)
      <4> HIDE DEF fills
      <4> QED BY <1>5, <1>6
    <3>2. boundary'[p] = IF isLoopBoundaryShown THEN "on" ELSE "off"
      BY <1>2 DEF PaintInv
    <3> QED BY <2>1, <3>1, <3>2, <1>2 DEF PanelPainted, GroupsOf
  <2>2. CASE q # p
    <3>1. q \in Shown /\ q \in Panels /\ PanelPainted(q)
      BY <2>2, DecoratedPanels DEF PaintInv, Shown
    <3>2. GroupsOf(highlight, loops', q) = GroupsOf(highlight, loops, q)
      BY <1>4, <2>2, <3>1 DEF GroupsOf
    <3>3. DOMAIN paint[q] = Graph[q].blocks
      BY <3>1 DEF PaintInv
    <3>4. \A b \in Graph[q].blocks :
             LastGroup(paint'[q][b], highlight, GroupsOf(highlight, loops', q), b)
      <4> HIDE DEF fills
      <4> QED BY <1>5, <1>6, <2>2, <3>1, <3>2, <3>3 DEF PanelPainted
    <3>5. boundary'[q] = boundary[q]
      BY <1>2, <2>2, <3>1 DEF PaintInv
    <3> QED BY <3>1, <3>4, <3>5, <1>2 DEF PanelPainted, GroupsOf
  <2> QED BY <2>1, <2>2
<1>9. Decorated'
  BY <1>8 DEF PanelPainted, LastGroup, Decorated, Groups, GroupsOf
<1>10. \A q \in Panels : boundary'[q] = "none" <=> q \notin Shown'
  BY <1>2 DEF PaintInv
<1> QED
  <2>1. DOMAIN paint' = Panels
    BY <1>6 DEF Panels
  <2> QED BY <1>2, <1>3, <1>7, <1>9, <1>10, <2>1 DEF PaintInv

LEMMA PaintToggled ==
    ASSUME PaintInv, ToggleHighlight, Shown' = Shown
    PROVE  PaintInv'
<1> DEFINE fills == resetNodeFills(paint)
<1>1. PICK on \in Modes : highlight' = on /\ paint' = Highlighted(fills, on, loops)
  BY DEF ToggleHighlight, setHighlightMode, Modes
<1>2. UNCHANGED <<loops, boundary, isLoopBoundaryShown>>
  BY DEF ToggleHighlight
<1>3. /\ DOMAIN fills = Panels
      /\ \A q \in Panels : DOMAIN fills[q] = DOMAIN paint[q]
      /\ \A q \in Panels : \A b \in DOMAIN paint[q] : fills[q][b] = <<"diff", 0>>
  BY DEF resetNodeFills
<1>4. ASSUME NEW q \in Panels
      PROVE  /\ DOMAIN paint' = Panels /\ DOMAIN paint'[q] = DOMAIN paint[q]
             /\ \A b \in DOMAIN paint[q] :
                  LastGroup(paint'[q][b], highlight', GroupsOf(highlight', loops', q), b)
  <2> HIDE DEF fills
  <2>1. loops \in [Panels -> Seq(SUBSET Blocks)]
    BY DEF PaintInv
  <2> QED BY <1>1, <1>2, <1>3, <2>1, HighlightedByLast
<1>5. ASSUME NEW q \in Shown'
      PROVE  PanelPainted(q)'
  <2>1. q \in Panels /\ PanelPainted(q) /\ DOMAIN paint[q] = Graph[q].blocks
    BY DecoratedPanels DEF PaintInv, Shown
  <2> QED BY <2>1, <1>2, <1>4 DEF PanelPainted, GroupsOf
<1>6. Decorated'
  BY <1>5 DEF PanelPainted, LastGroup, Decorated, Groups, GroupsOf
<1> QED
  <2>1. DOMAIN paint' = Panels
    BY <1>4 DEF Panels
  <2> QED BY <1>1, <1>2, <1>4, <1>6, <2>1 DEF PaintInv

LEMMA PaintKept ==
    ASSUME StageType, PaintInv, [Next]_vars
    PROVE  PaintInv'
<1>1. ASSUME NEW p \in Panels, ShowGraph(p), p \notin Shown, Shown' = Shown \cup {p}
      PROVE  PaintInv'
  BY <1>1, PaintShown
<1>2. ASSUME ToggleHighlight, Shown' = Shown
      PROVE  PaintInv'
  BY <1>2, PaintToggled
<1>3. ASSUME ToggleBoundaries, Shown' = Shown
      PROVE  PaintInv'
  <2>1. isLoopBoundaryShown' \in BOOLEAN
    BY <1>3 DEF ToggleBoundaries, PaintInv
  <2>2. UNCHANGED <<loops, paint, highlight>>
    BY <1>3 DEF ToggleBoundaries
  <2>3. /\ DOMAIN boundary' = Panels
        /\ \A p \in Panels : boundary'[p] = "none" <=> p \notin Shown
        /\ \A p \in Shown : boundary'[p] = IF isLoopBoundaryShown' THEN "on" ELSE "off"
    BY <1>3 DEF ToggleBoundaries, PaintInv, Shown
  <2> QED BY <1>3, <2>1, <2>2, <2>3 DEF PaintInv, Decorated, Groups
<1>4. ASSUME UNCHANGED <<loops, paint, boundary, highlight, isLoopBoundaryShown>>, Shown' = Shown
      PROVE  PaintInv'
  BY <1>4 DEF PaintInv, Decorated, Groups
<1>5. \/ UNCHANGED <<loops, paint, boundary, highlight, isLoopBoundaryShown>>
      \/ ToggleHighlight \/ ToggleBoundaries
      \/ \E p \in Panels : ShowGraph(p)
  BY DEF Next, DotGraph, Hover, ClickEdge, Return, Gesture, ClickBlock, Leave, Backspace, ToggleSync,
         resetView, setViewMode, CombinedFails, renderCombined, vars, graphs, controls
<1>6. ASSUME NEW p \in Panels, ShowGraph(p)
      PROVE  p \notin Shown /\ Shown' = Shown \cup {p}
  BY <1>6 DEF StageType, ShowGraph, Shown
<1> QED BY <1>1, <1>2, <1>3, <1>4, <1>5, <1>6, StageSteps DEF ToggleHighlight, ToggleBoundaries, Shown
--------------------------------------------------------------------------------
(* The panes.                                                                 *)

LEMMA PanesShown ==
    ASSUME PanesInv, NEW p \in Panels, ShowGraph(p), p \notin Shown, Shown' = Shown \cup {p}
    PROVE  PanesInv'
<1>1. mode = "side-by-side"
  BY DEF PanesInv
<1>2. /\ initialScale' = [initialScale EXCEPT ![p] = Fit[p]]
      /\ viewCombined' = (viewCombined \/ Opposite[p] \in Shown)
      /\ UNCHANGED <<mode, requests, combined, draws>>
  BY <1>1 DEF ShowGraph, FitOf, Offer
<1>3. Fit[p] \in Int /\ Fit[p] > 0
  BY ViewAssumption
<1>4. initialScale' \in [Panels -> Int] /\ FittedOnScreen'
  BY <1>2, <1>3 DEF PanesInv, FittedOnScreen, Shown
<1>5. viewCombined' \in BOOLEAN
  BY <1>2 DEF PanesInv
<1>6. viewCombined' => Shown' = Panels
  BY <1>2 DEF PanesInv, Opposite, Panels, Shown
<1> QED BY <1>1, <1>2, <1>4, <1>5, <1>6 DEF PanesInv, CombinedDrawnOnce

LEMMA PanesKept ==
    ASSUME StageType, PanesInv, [Next]_vars
    PROVE  PanesInv'
<1>1. ASSUME NEW p \in Panels, ShowGraph(p)
      PROVE  PanesInv'
  <2>1. p \notin Shown /\ Shown' = Shown \cup {p}
    BY <1>1 DEF StageType, ShowGraph, Shown
  <2> QED BY <1>1, <2>1, PanesShown
<1>2. ASSUME setViewMode
      PROVE  PanesInv'
  <2>1. Shown' = Shown /\ UNCHANGED <<initialScale, viewCombined, combined, draws>>
    BY <1>2 DEF setViewMode, graphs, Shown
  <2>2. mode' \in {"side-by-side", "combined"} /\ (mode' = "combined" => viewCombined)
    BY <1>2 DEF setViewMode
  <2>3. requests' \in Nat /\ draws + requests' <= 1
    BY <1>2 DEF setViewMode, loadCombined, PanesInv, CombinedDrawnOnce
  <2> QED BY <2>1, <2>2, <2>3 DEF PanesInv, FittedOnScreen, CombinedDrawnOnce
<1>3. ASSUME CombinedFails \/ renderCombined
      PROVE  PanesInv'
  <2>1. Shown' = Shown /\ UNCHANGED <<initialScale, viewCombined, mode>>
    BY <1>3 DEF CombinedFails, renderCombined, graphs, Shown
  <2>2. /\ requests' \in Nat /\ draws' \in Nat /\ draws' + requests' <= 1
        /\ combined' = 0 <=> draws' = 0
    <3>1. requests \in Nat /\ draws \in Nat /\ draws + requests <= 1 /\ (combined = 0 <=> draws = 0)
      BY DEF PanesInv, CombinedDrawnOnce
    <3>2. requests > 0 /\ requests' = requests - 1
      BY <1>3 DEF CombinedFails, renderCombined
    <3>3. \/ combined' = combined /\ draws' = draws
          \/ combined' \in {1, -1} /\ draws' = draws + 1
      BY <1>3 DEF CombinedFails, renderCombined
    <3> QED BY <3>1, <3>2, <3>3
  <2> QED BY <2>1, <2>2 DEF PanesInv, FittedOnScreen, CombinedDrawnOnce
<1>4. ASSUME Shown' = Shown, UNCHANGED <<initialScale, mode, viewCombined, requests, combined, draws>>
      PROVE  PanesInv'
  BY <1>4 DEF PanesInv, FittedOnScreen, CombinedDrawnOnce
<1>5. \/ UNCHANGED <<initialScale, mode, viewCombined, requests, combined, draws>>
      \/ setViewMode \/ CombinedFails \/ renderCombined
      \/ \E p \in Panels : ShowGraph(p)
  BY DEF Next, DotGraph, Hover, ClickEdge, Return, Gesture, ClickBlock, ToggleHighlight,
         ToggleBoundaries, Leave, Backspace, ToggleSync, resetView, vars, panes
<1> QED BY <1>1, <1>2, <1>3, <1>4, <1>5, StageSteps
--------------------------------------------------------------------------------
LEMMA InitInv == Init => IInv
<1> SUFFICES ASSUME Init PROVE IInv
  OBVIOUS
<1>1. StageType /\ Shown = {}
  BY DEF Init, StageType, Shown
<1>2. ViewInv
  BY <1>1 DEF Init, ViewInv, InStep
<1>3. HiddenInv
  BY DEF Init, HiddenInv, EdgesFollowBlocks
<1>4. PaintInv
  <2>1. \A p \in Panels : DOMAIN paint[p] = {} /\ boundary[p] = "none"
    <3>1. DOMAIN <<>> = {}
      OBVIOUS
    <3> QED BY <3>1 DEF Init
  <2>2. loops \in [Panels -> Seq(SUBSET Blocks)]
    BY DEF Init
  <2>3. /\ highlight \in Modes /\ isLoopBoundaryShown \in BOOLEAN
        /\ DOMAIN boundary = Panels /\ DOMAIN paint = Panels
    BY DEF Init, Modes
  <2>4. Decorated
    BY <1>1 DEF Decorated
  <2> QED BY <1>1, <2>1, <2>2, <2>3, <2>4 DEF PaintInv
<1>5. PanesInv
  <2>1. /\ mode = "side-by-side" /\ viewCombined = FALSE
        /\ requests = 0 /\ draws = 0 /\ combined = 0 /\ initialScale \in [Panels -> Int]
    BY DEF Init
  <2>2. FittedOnScreen /\ CombinedDrawnOnce
    BY <1>1, <2>1 DEF FittedOnScreen, CombinedDrawnOnce
  <2> QED BY <2>1, <2>2 DEF PanesInv
<1> QED BY <1>1, <1>2, <1>3, <1>4, <1>5 DEF IInv

LEMMA NextInv == IInv /\ [Next]_vars => IInv'
  BY StageSteps, ViewKept, HiddenKept, PaintKept, PanesKept DEF IInv

\* The page keeps its colours, hidden edges, zooms and panes in order, whichever panel answers
\* first and whatever the reader does (showGraph, function_compare.js).
THEOREM PageInvariant == Spec => []IInv
BY InitInv, NextInv, PTL DEF Spec

\* Every block on screen wears the colour that the highlight buttons stand for, and the loop
\* boundaries of both panels are drawn or not alike (reapplyHighlight, setHighlightMode).
THEOREM AlwaysDecorated == Spec => []Decorated
<1>1. IInv => Decorated
  BY DEF IInv, PaintInv
<1> QED BY <1>1, PageInvariant, PTL

\* What is drawn, what the zoom behaviour holds and what the next gesture is measured from never
\* differ (the zoom handler, centerOn and resetView of function_compare.js).
THEOREM NeverJumps == Spec => []InStep
<1>1. IInv => InStep
  BY DEF IInv, ViewInv
<1> QED BY <1>1, PageInvariant, PTL

\* No graph is fitted to a pane that is not displayed (onGraphShown offers the combined view
\* only when both graphs are on screen).
THEOREM AlwaysFitted == Spec => []FittedOnScreen
<1>1. IInv => FittedOnScreen
  BY DEF IInv, PanesInv
<1> QED BY <1>1, PageInvariant, PTL

\* Exactly the edges of the hidden blocks are hidden, on the panel they were hidden on (the
\* keydown handler of showGraph).
THEOREM NoEdgeDangles == Spec => []EdgesFollowBlocks
<1>1. IInv => EdgesFollowBlocks
  BY DEF IInv, HiddenInv
<1> QED BY <1>1, PageInvariant, PTL

\* The combined graph is drawn once at most, and not asked for again once it was
\* (loadCombined, renderCombined).
THEOREM DrawnOnce == Spec => []CombinedDrawnOnce
<1>1. IInv => CombinedDrawnOnce
  BY DEF IInv, PanesInv
<1> QED BY <1>1, PageInvariant, PTL
--------------------------------------------------------------------------------
(* The offset.  Of a gesture the code only has the positions before and       *)
(* after, and finds the point of the zoom by dividing; the quotients are whole *)
(* where the gesture's bound says so, and then nothing is lost by them.        *)

Scaled(v) == v \in View /\ v.k > 0
ScaleInv == \A p \in Shown : Scaled(view[p])

LEMMA WholeQuotient ==
    ASSUME NEW n \in Int, NEW d \in Int, d > 0, n % d = 0
    PROVE  Quot(n, d) \in Int /\ Quot(n, d) * d = n
<1>1. n = d * (n \div d) + (n % d) /\ n \div d \in Int
  OBVIOUS
<1> QED BY <1>1 DEF Quot

LEMMA QuotientOfMultiple ==
    ASSUME NEW m \in Int, NEW d \in Int, d # 0
    PROVE  Quot(m * d, d) = m
<1>1. ASSUME NEW e \in Int, e > 0  PROVE (m * e) \div e = m
  <2> DEFINE t == (m * e) \div e
             r == (m * e) % e
  <2>1. t \in Int /\ r \in 0..(e - 1) /\ m * e = e * t + r
    BY <1>1
  <2> HIDE DEF t, r
  <2>2. (m - t) * e = r
    BY <1>1, <2>1
  <2>3. ASSUME m - t >= 1  PROVE FALSE
    <3>1. (m - t) * e >= e
      BY <1>1, <2>1, <2>3
    <3> QED BY <1>1, <2>1, <2>2, <3>1
  <2>4. ASSUME m - t <= -1  PROVE FALSE
    <3>1. (m - t) * e <= -e
      BY <1>1, <2>1, <2>4
    <3> QED BY <1>1, <2>1, <2>2, <3>1
  <2>5. t = m
    BY <2>1, <2>3, <2>4
  <2> QED BY <2>5 DEF t
<1>2. CASE d > 0
  BY <1>1, <1>2 DEF Quot
<1>3. CASE d < 0
  <2>1. -(m * d) = m * (-d) /\ -d \in Int /\ -d > 0
    BY <1>3
  <2>2. (m * (-d)) \div (-d) = m
    BY <1>1, <2>1
  <2> QED BY <1>3, <2>1, <2>2 DEF Quot
<1> QED BY <1>2, <1>3

\* A gesture pans, or zooms around some point.
LEMMA GesturePoint ==
    ASSUME NEW old, Scaled(old), NEW new \in Gestured(old)
    PROVE  /\ new \in View
           /\ \/ new.k = old.k
              \/ /\ new.k # old.k
                 /\ \E q \in Points : new.k * old.x - old.k * new.x = q * (new.k - old.k)
<1>0. old.k \in Int /\ old.x \in Int /\ old.k > 0 /\ Pans \subseteq Int /\ Points \subseteq Int
  BY ViewAssumption DEF Scaled, View
<1>1. ASSUME NEW d \in Pans, new = [old EXCEPT !.x = @ + d]  PROVE new \in View /\ new.k = old.k
  BY <1>0, <1>1 DEF Scaled, View
<1>2. ASSUME NEW q \in Points, new = [k |-> 2 * old.k, x |-> 2 * old.x - q]
      PROVE  new \in View /\ new.k # old.k /\ new.k * old.x - old.k * new.x = q * (new.k - old.k)
  <2>1. new.k = 2 * old.k /\ new.x = 2 * old.x - q /\ q \in Int
    BY <1>0, <1>2
  <2>2. new.k \in Int /\ new.x \in Int /\ new.k # old.k
    BY <1>0, <2>1
  <2>3. (2 * old.k) * old.x - old.k * (2 * old.x - q) = q * (2 * old.k - old.k)
    BY <1>0, <2>1
  <2> QED BY <1>2, <2>1, <2>2, <2>3 DEF View
<1>3. ASSUME NEW q \in Points, old.k % 2 = 0, (q - old.x) % 2 = 0,
             new = [k |-> old.k \div 2, x |-> q - (q - old.x) \div 2]
      PROVE  new \in View /\ new.k # old.k /\ new.k * old.x - old.k * new.x = q * (new.k - old.k)
  <2> DEFINE m == old.k \div 2
             r == (q - old.x) \div 2
  <2>1. new.k = m /\ new.x = q - r /\ q \in Int
    BY <1>0, <1>3
  <2>2. m \in Int /\ r \in Int /\ old.k = 2 * m /\ old.x = q - 2 * r
    BY <1>0, <1>3, <2>1
  <2> HIDE DEF m, r
  <2>3. new.k \in Int /\ new.x \in Int /\ new.k # old.k
    BY <1>0, <2>1, <2>2
  <2>4. m * (q - 2 * r) - (2 * m) * (q - r) = q * (m - 2 * m)
    BY <2>1, <2>2
  <2>5. new \in View
    BY <1>3, <2>1, <2>3 DEF View, m, r
  <2> QED BY <2>1, <2>2, <2>3, <2>4, <2>5
<1> QED BY <1>1, <1>2, <1>3 DEF Gestured

\* A graph that is zoomed by nk/ok around p keeps its offset from one that is.
LEMMA OffsetAlgebra ==
    ASSUME NEW ok \in Int, NEW ox \in Int, NEW vx \in Int, NEW nk \in Int, NEW nx \in Int,
           NEW p \in Int, NEW s \in Int, p * (nk - ok) = nk * ox - ok * nx, s * ok = (p - vx) * nk
    PROVE  (nx - (p - s)) * ok = (ox - vx) * nk
<1>1. (nx - (p - s)) * ok = nx * ok - p * ok + s * ok
  OBVIOUS
<1>2. s * ok = p * nk - vx * nk
  OBVIOUS
<1>3. p * nk - p * ok = nk * ox - ok * nx
  OBVIOUS
<1>4. nx * ok = ok * nx /\ (ox - vx) * nk = nk * ox - vx * nk
  OBVIOUS
<1> QED BY <1>1, <1>2, <1>3, <1>4

\* The other graph keeps its offset from this one and the ratio of their scales.
LEMMA MirrorKeepsOffset ==
    ASSUME NEW old, NEW other, Scaled(old), Scaled(other), NEW new \in Gestured(old), new.k > 0,
           Whole(new, old, other)
    PROVE  LET mirrored == Mirror(new, old, other) IN
           /\ mirrored \in View
           /\ mirrored.k * old.k = other.k * new.k
           /\ (new.x - mirrored.x) * old.k = (old.x - other.x) * new.k
<1> DEFINE mirrored == Mirror(new, old, other)
<1>0. /\ old.k \in Int /\ old.x \in Int /\ old.k > 0 /\ other.k \in Int /\ other.x \in Int
      /\ new.k \in Int /\ new.x \in Int /\ new \in View
  BY GesturePoint DEF Scaled, View
<1>1. CASE new.k = old.k
  <2>1. mirrored = [other EXCEPT !.x = @ + new.x - old.x]
    BY <1>1 DEF Mirror
  <2>2. mirrored \in View /\ mirrored.k = other.k /\ mirrored.x = other.x + new.x - old.x
    BY <1>0, <2>1 DEF Scaled, View
  <2> HIDE DEF mirrored
  <2>3. new.x - mirrored.x = old.x - other.x
    BY <1>0, <2>2
  <2>4. mirrored \in View /\ mirrored.k * old.k = other.k * new.k
        /\ (new.x - mirrored.x) * old.k = (old.x - other.x) * new.k
    BY <1>1, <2>2, <2>3
  <2> QED BY <2>4 DEF mirrored
<1>2. CASE new.k # old.k
  <2>1. PICK q \in Points : new.k * old.x - old.k * new.x = q * (new.k - old.k)
    BY <1>2, GesturePoint
  <2> DEFINE point == Quot(new.k * old.x - old.k * new.x, new.k - old.k)
             scale == Quot(other.k * new.k, old.k)
             shift == Quot((point - other.x) * new.k, old.k)
  <2>2. q \in Int /\ new.k - old.k \in Int /\ new.k - old.k # 0
    BY <1>0, <1>2, ViewAssumption
  <2>3. point = q
    BY <2>1, <2>2, QuotientOfMultiple
  <2>4. point \in Int /\ point * (new.k - old.k) = new.k * old.x - old.k * new.x
    BY <2>1, <2>2, <2>3
  <2>5. (other.k * new.k) % old.k = 0 /\ ((point - other.x) * new.k) % old.k = 0
    BY <1>2 DEF Whole
  <2>6. mirrored = [k |-> scale, x |-> point - shift]
    BY <1>2 DEF Mirror
  <2> HIDE DEF point
  <2>7. other.k * new.k \in Int /\ (point - other.x) * new.k \in Int
    BY <1>0, <2>4
  <2>8. scale \in Int /\ scale * old.k = other.k * new.k
    BY <1>0, <2>5, <2>7, WholeQuotient
  <2>9. shift \in Int /\ shift * old.k = (point - other.x) * new.k
    BY <1>0, <2>5, <2>7, WholeQuotient
  <2> HIDE DEF scale, shift, mirrored
  <2>10. mirrored \in View /\ mirrored.k = scale /\ mirrored.x = point - shift
    BY <2>4, <2>6, <2>8, <2>9 DEF View
  <2>11. (new.x - (point - shift)) * old.k = (old.x - other.x) * new.k
    BY <1>0, <2>4, <2>9, OffsetAlgebra
  <2> QED BY <2>8, <2>10, <2>11 DEF mirrored
<1> QED BY <1>1, <1>2

\* What a gesture does to the two zooms.
LEMMA GestureEffect ==
    ASSUME IInv, ScaleInv, NEW p \in Panels, Gesture(p)
    PROVE  LET q == Opposite[p] IN
           /\ Scaled(view'[p]) /\ (q \in Shown => Scaled(view'[q]))
           /\ isSyncEnabled /\ Shown = Panels =>
                /\ view'[q].k * view[p].k = view[q].k * view'[p].k
                /\ (view'[p].x - view'[q].x) * view[p].k = (view[p].x - view[q].x) * view'[p].k
<1> DEFINE q == Opposite[p]
           both == isSyncEnabled /\ q \in Shown
<1>1. q \in Panels /\ q # p /\ p \in Shown
  BY DEF Opposite, Panels, Gesture
<1>2. Scaled(view[p]) /\ last[p] = view[p] /\ (q \in Shown => Scaled(view[q]) /\ last[q] = view[q])
  BY <1>1 DEF ScaleInv, IInv, ViewInv, InStep
<1>3. PICK new \in Gestured(view[p]) :
        LET other == IF both THEN Mirror(new, last[p], last[q]) ELSE view[q]
        IN /\ InBounds(new)
           /\ both => Whole(new, last[p], last[q]) /\ InBounds(other)
           /\ view' = [view EXCEPT ![p] = new, ![q] = other]
  BY DEF Gesture
<1> DEFINE other == IF both THEN Mirror(new, last[p], last[q]) ELSE view[q]
<1>4. view'[p] = new /\ view'[q] = other
  BY <1>1, <1>3 DEF IInv, ViewInv
<1>5. Scaled(new) /\ new.k > 0
  <2>1. new.k \in 1..MaxScale
    BY <1>3 DEF InBounds
  <2> QED BY <1>2, <2>1, GesturePoint, ViewAssumption DEF Scaled
<1>6. CASE both
  <2>1. other = Mirror(new, view[p], view[q]) /\ Whole(new, view[p], view[q]) /\ InBounds(other)
    BY <1>2, <1>3, <1>6
  <2>2. /\ other \in View /\ other.k * view[p].k = view[q].k * new.k
        /\ (new.x - other.x) * view[p].k = (view[p].x - view[q].x) * new.k
    BY <1>2, <1>5, <1>6, <2>1, MirrorKeepsOffset
  <2>3. Scaled(other)
    BY <2>1, <2>2, ViewAssumption DEF InBounds, Scaled, View
  <2> HIDE DEF other, both
  <2> QED BY <1>4, <1>5, <2>2, <2>3
<1>7. CASE ~both
  BY <1>1, <1>2, <1>4, <1>5, <1>7
<1> QED BY <1>6, <1>7

LEMMA ScaleKept ==
    ASSUME IInv, ScaleInv, [Next]_vars
    PROVE  ScaleInv'
<1>0. StageType /\ ViewInv /\ PanesInv
  BY DEF IInv
<1>1. ASSUME NEW p \in Panels, ShowGraph(p)  PROVE ScaleInv'
  <2>1. \A q \in Shown' : q = p \/ q \in Shown
    BY <1>0, <1>1 DEF ShowGraph, StageType, Shown
  <2>2. p \notin Shown
    BY <1>1 DEF ShowGraph, Shown
  <2>3. mode = "side-by-side"
    BY <1>0, <2>2 DEF PanesInv
  <2>4. view' = [view EXCEPT ![p] = [k |-> Fit[p], x |-> 0]]
    BY <1>1, <2>3 DEF ShowGraph, FitOf
  <2>5. Fit[p] \in Int /\ Fit[p] > 0
    BY ViewAssumption
  <2>6. Scaled([k |-> Fit[p], x |-> 0])
    BY <2>5 DEF Scaled, View
  <2> QED BY <1>0, <2>1, <2>4, <2>6 DEF ScaleInv, ViewInv, Shown
<1>2. ASSUME NEW p \in Panels, Gesture(p)  PROVE ScaleInv'
  <2>1. Shown' = Shown
    BY <1>2 DEF Gesture, graphs, Shown
  <2>2. Scaled(view'[p]) /\ (Opposite[p] \in Shown => Scaled(view'[Opposite[p]]))
    BY <1>2, GestureEffect
  <2>3. Panels = {p, Opposite[p]} /\ Shown \subseteq Panels
    BY DEF Panels, Opposite, Shown
  <2> QED BY <2>1, <2>2, <2>3 DEF ScaleInv
<1>3. ASSUME NEW p \in Panels, ClickBlock(p)  PROVE ScaleInv'
  <2>1. Shown' = Shown
    BY <1>3 DEF ClickBlock, graphs, Shown
  <2>2. CASE UNCHANGED zooms
    BY <2>1, <2>2 DEF zooms, ScaleInv
  <2>3. ASSUME NEW c, c \in Graph[Opposite[p]].blocks, centerOn(Opposite[p], c), Opposite[p] \in Shown
        PROVE  ScaleInv'
    <3> DEFINE q == Opposite[p]
               x == Middle - Place[c] * view[q].k
    <3>1. Scaled(view[q]) /\ q \in Panels
      BY <2>3 DEF ScaleInv, Shown
    <3>2. Place[c] \in Int /\ Middle \in Int /\ view[q].k \in Int
      BY <2>3, <3>1, GraphAssumption, ViewAssumption DEF Scaled, View
    <3>3. x \in Int
      BY <3>2
    <3>4. view' = [view EXCEPT ![q].x = x]
      BY <2>3 DEF centerOn
    <3> HIDE DEF x
    <3>5. Scaled([view[q] EXCEPT !.x = x])
      BY <3>1, <3>3 DEF Scaled, View
    <3>6. \A r \in Shown : view'[r] = IF r = q THEN [view[q] EXCEPT !.x = x] ELSE view[r]
      BY <1>0, <3>4 DEF ViewInv, Shown
    <3> QED BY <2>1, <3>5, <3>6 DEF ScaleInv
  <2> QED BY <1>3, <2>2, <2>3 DEF ClickBlock
<1>4. ASSUME resetView  PROVE ScaleInv'
  <2>1. Shown' = Shown /\ \A p \in Shown : view'[p] = [k |-> initialScale[p], x |-> 0]
    BY <1>4 DEF resetView, Shown, graphs
  <2>2. \A p \in Shown : initialScale[p] \in Int /\ initialScale[p] > 0
    BY <1>0 DEF PanesInv, FittedOnScreen, Shown
  <2>3. \A k \in Int : k > 0 => Scaled([k |-> k, x |-> 0])
    BY DEF Scaled, View
  <2>4. \A p \in Shown : Scaled(view'[p])
    BY <2>1, <2>2, <2>3
  <2> QED BY <2>1, <2>4 DEF ScaleInv
<1>5. ASSUME UNCHANGED zooms, Shown' = Shown  PROVE ScaleInv'
  BY <1>5 DEF zooms, ScaleInv
<1>6. \/ UNCHANGED zooms
      \/ resetView
      \/ \E p \in Panels : ShowGraph(p) \/ Gesture(p) \/ ClickBlock(p)
  BY DEF Next, DotGraph, Hover, ClickEdge, Return, ToggleHighlight, ToggleBoundaries, Leave,
         Backspace, ToggleSync, setViewMode, CombinedFails, renderCombined, vars
<1> QED BY <1>0, <1>1, <1>2, <1>3, <1>4, <1>5, <1>6, StageSteps

\* The offset as the property states it, whichever graph the reader moves.
Offset(p) ==
    Gesture(p) /\ isSyncEnabled /\ Shown = Panels =>
        /\ view'["a"].k * view["b"].k = view["a"].k * view'["b"].k
        /\ (view'["a"].x - view'["b"].x) * view["a"].k = (view["a"].x - view["b"].x) * view'["a"].k

LEMMA OffsetKept ==
    ASSUME IInv, ScaleInv, NEW p \in Panels, Gesture(p), isSyncEnabled, Shown = Panels
    PROVE  Offset(p)
<1> DEFINE ka == view["a"].k      xa == view["a"].x
           kb == view["b"].k      xb == view["b"].x
           na == view'["a"].k     ya == view'["a"].x
           nb == view'["b"].k     yb == view'["b"].x
<1>1. Opposite["a"] = "b" /\ Opposite["b"] = "a" /\ "a" \in Panels /\ "b" \in Panels
  BY DEF Opposite, Panels
<1>2. Scaled(view["a"]) /\ Scaled(view["b"])
  BY <1>1 DEF ScaleInv
<1>3. Scaled(view'["a"]) /\ Scaled(view'["b"])
  BY <1>1, GestureEffect DEF Panels
<1>4. /\ ka \in Int /\ xa \in Int /\ kb \in Int /\ xb \in Int /\ ka > 0 /\ kb > 0
      /\ na \in Int /\ ya \in Int /\ nb \in Int /\ yb \in Int
  BY <1>2, <1>3 DEF Scaled, View
<1>5. CASE p = "a"
  <2>1. nb * ka = kb * na /\ (ya - yb) * ka = (xa - xb) * na
    BY <1>1, <1>5, GestureEffect
  <2> HIDE DEF ka, xa, kb, xb, na, ya, nb, yb
  <2>2. na * kb = ka * nb /\ (ya - yb) * ka = (xa - xb) * na
    BY <1>4, <2>1
  <2> QED BY <2>2 DEF Offset, ka, xa, kb, xb, na, ya, nb, yb
<1>6. CASE p = "b"
  <2>1. na * kb = ka * nb /\ (yb - ya) * kb = (xb - xa) * nb
    BY <1>1, <1>6, GestureEffect
  <2> HIDE DEF ka, xa, kb, xb, na, ya, nb, yb
  <2> DEFINE u == (ya - yb) * ka
             v == (xa - xb) * na
  <2>2. (ya - yb) * kb = (xa - xb) * nb
    BY <1>4, <2>1
  <2>3. u * kb = ((ya - yb) * kb) * ka /\ v * kb = (xa - xb) * (na * kb)
    BY <1>4
  <2>4. u * kb = ((xa - xb) * nb) * ka
    BY <2>2, <2>3
  <2>5. v * kb = (xa - xb) * (ka * nb)
    BY <2>1, <2>3
  <2>6. ((xa - xb) * nb) * ka = (xa - xb) * (ka * nb)
    BY <1>4
  <2>7. u \in Int /\ v \in Int /\ u * kb = v * kb
    BY <1>4, <2>4, <2>5, <2>6
  <2> HIDE DEF u, v
  <2>8. u = v
    BY <1>4, <2>7
  <2> QED BY <2>1, <2>8 DEF Offset, ka, xa, kb, xb, na, ya, nb, yb, u, v
<1> QED BY <1>5, <1>6 DEF Panels

LEMMA InitScale == Init => ScaleInv
<1>1. Init => Shown = {}
  BY DEF Init, Shown
<1> QED BY <1>1 DEF ScaleInv

\* The graphs on screen are never scaled to nothing or mirrored (the zoom handler of onGraphShown,
\* centerOn and resetView).
THEOREM AlwaysScaled == Spec => []ScaleInv
<1>1. IInv /\ ScaleInv /\ [Next]_vars => ScaleInv'
  BY ScaleKept
<1> QED BY InitScale, <1>1, PageInvariant, PTL DEF Spec

\* While the graphs are synchronised no gesture changes the ratio of their scales or the offset
\* between them, for any whole positions and scales (the zoom handler of onGraphShown).
THEOREM SyncAlwaysKeepsOffset == Spec => SyncKeepsOffset
<1>1. IInv /\ ScaleInv /\ [Next]_vars
        => [\A p \in Panels : Gesture(p) /\ isSyncEnabled /\ Shown = Panels =>
              /\ view'["a"].k * view["b"].k = view["a"].k * view'["b"].k
              /\ (view'["a"].x - view'["b"].x) * view["a"].k
                 = (view["a"].x - view["b"].x) * view'["a"].k]_vars
  BY OffsetKept DEF Offset
<1> QED BY <1>1, PageInvariant, AlwaysScaled, PTL DEF Spec, SyncKeepsOffset
================================================================================
