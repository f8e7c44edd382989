------------------------------- MODULE ComparePage -------------------------------
(***************************************************************************)
(* The page that compares two functions, as it runs in the browser:        *)
(* static/trace_CFG/main_duo.js loads, draws and decorates the two graphs, *)
(* static/function_compare.js does what happens between them.              *)
(*                                                                         *)
(* The browser runs one callback or handler at a time, each is an action;  *)
(* which answer arrives when, and what the reader does meanwhile, is open. *)
(* Positions are one-dimensional.  A reader's gestures are those after     *)
(* which both graphs sit at whole positions and scales within bounds.      *)
(***************************************************************************)
EXTENDS Integers, Sequences, FiniteSets, FiniteSetsExt

CONSTANTS
    Blocks,         \* block offsets; the two functions have some in common
    Graph,          \* the two dot graphs, [blocks, edges] each
    Cycles,         \* graphlib.alg.findCycles of each, a sequence of sets of blocks
    LoopAnswers,    \* what findLoops may answer of each; <<>> stands for its failures too
    Partner,        \* nodeMatches: of each panel's blocks, the first match on the other side
    Place,          \* where a block is laid out
    Fit,            \* the scale at which a graph fits its pane
    Middle,         \* half the width of a pane
    Pans, Points,   \* what a gesture moves by, where it zooms
    MaxScale, MaxOffset, MaxInputs,     \* bounds
    None

Panels == {"a", "b"}
Opposite == [a |-> "b", b |-> "a"]
Modes == {"cycles", "loops", None}

ASSUME GraphAssumption ==
    /\ Graph \in [Panels -> [blocks : SUBSET Blocks, edges : SUBSET (Blocks \X Blocks)]]
    /\ \A p \in Panels : Graph[p].edges \subseteq Graph[p].blocks \X Graph[p].blocks
    /\ Cycles \in [Panels -> Seq(SUBSET Blocks)]
    /\ LoopAnswers \in [Panels -> SUBSET Seq(SUBSET Blocks)]
ASSUME ViewAssumption ==
    /\ Partner \in [Panels -> [Blocks -> Blocks \cup {None}]] /\ None \notin Blocks
    /\ Place \in [Blocks -> Int] /\ Middle \in Int
    /\ Fit \in [Panels -> 1..MaxScale] /\ MaxScale \in Nat /\ MaxOffset \in Nat
    /\ Pans \subseteq Int /\ Points \subseteq Int /\ MaxInputs \in Nat

VARIABLES
    stage,          \* of each panel: "asking", "parsed", "shown" or "failed"
    loops,          \* panel.loops
    paint,          \* the fill of each rendered block: its diff colour or a group's
    boundary,       \* how the panel's g.bgFill is drawn: "none" yet, "on" or "off"
    highlight,      \* isCycleShown, isLoopShown: at most one of them
    isLoopBoundaryShown,
    ticked,         \* the checkbox #loopBgFill
    hovered,        \* <<currentNodePanel, currentNode>>
    hidden, hiddenEdges,    \* what Backspace took off each panel
    moving,         \* blocks that an edge click sent off, until they return
    lost,           \* blocks that return somewhere else than where they were laid out
    view,           \* each panel's zoom behaviour, [k |-> scale, x |-> translate]
    drawn,          \* the transform attribute of its g
    last,           \* lastScale, lastTranslate
    initialScale,   \* the scale each graph was fitted with
    isSyncEnabled,
    mode,           \* the checked radio, the pane displayed
    viewCombined,   \* whether the radio "combined" is enabled
    requests,       \* requests of the combined graph in flight
    combined,       \* its initialScale once drawn: 1 fits the pane, -1 is what a hidden one gives
    draws,          \* ghost: how often it was drawn
    combinedError,  \* #combined_error is displayed
    inputs          \* what the reader did so far, a bound

graphs   == <<stage, loops, paint, boundary>>
controls == <<highlight, isLoopBoundaryShown, ticked>>
removed  == <<hidden, hiddenEdges>>
moved    == <<moving, lost>>
zooms    == <<view, drawn, last>>
panes    == <<mode, viewCombined, requests, combined, draws, combinedError>>
vars == <<graphs, controls, hovered, removed, moved, zooms, initialScale, isSyncEnabled, panes, inputs>>

Shown == {p \in Panels : stage[p] = "shown"}
Unset == [k |-> 0, x |-> 0]

Init ==
    /\ stage = [p \in Panels |-> "asking"] /\ loops = [p \in Panels |-> <<>>]
    /\ paint = [p \in Panels |-> <<>>] /\ boundary = [p \in Panels |-> "none"]
    /\ highlight = None /\ isLoopBoundaryShown = TRUE /\ ticked = TRUE
    /\ hovered = None
    /\ hidden = [p \in Panels |-> {}] /\ hiddenEdges = [p \in Panels |-> {}]
    /\ moving = [p \in Panels |-> {}] /\ lost = [p \in Panels |-> {}]
    /\ view = [p \in Panels |-> Unset] /\ drawn = view /\ last = view
    /\ initialScale = [p \in Panels |-> 0]
    /\ isSyncEnabled = TRUE
    /\ mode = "side-by-side" /\ viewCombined = FALSE
    /\ requests = 0 /\ combined = 0 /\ draws = 0 /\ combinedError = FALSE
    /\ inputs = 0

\* The reader does something, a few times.
Input == inputs < MaxInputs /\ inputs' = inputs + 1

-----------------------------------------------------------------------------
(* Loading and painting (main_duo.js).                                      *)

\* The fills after colouring groups over them: the last group that holds a block wins.
\* Only rendered blocks have a fill: a group may name others.
Coloured(fills, kind, groups) ==
    [b \in DOMAIN fills |->
        LET holding == {i \in DOMAIN groups : b \in groups[i]}
        IN IF holding = {} THEN fills[b] ELSE <<kind, Max(holding)>>]

showCycles(fills) == [p \in Panels |-> Coloured(fills[p], "cycles", Cycles[p])]
showLoops(fills, found) == [p \in Panels |-> Coloured(fills[p], "loops", found[p])]

\* What the highlight that is on makes of the fills.
Highlighted(fills, on, found) ==
    CASE on = "cycles" -> showCycles(fills)
      [] on = "loops"  -> showLoops(fills, found)
      [] OTHER         -> fills

Diff(p) == [b \in Graph[p].blocks |-> <<"diff", 0>>]
resetNodeFills(fills) == [p \in Panels |-> [b \in DOMAIN fills[p] |-> <<"diff", 0>>]]

\* fetchDotGraph answered; findLoops is asked next.  On a failure the callback throws.
DotGraph(p) ==
    /\ stage[p] = "asking"
    /\ \E s \in {"parsed", "failed"} : stage' = [stage EXCEPT ![p] = s]
    /\ UNCHANGED <<loops, paint, boundary, controls, hovered, removed, moved, zooms,
                   initialScale, isSyncEnabled, panes, inputs>>

\* A pane that is not displayed has no size, and the scale that fits it is negative.
FitOf(p) == IF mode = "side-by-side" THEN Fit[p] ELSE -1

\* Mutant: the combined view is offered as soon as one graph is on screen.
OfferEarly(p) == viewCombined' = (p \in Panels)
\* onGraphShown, once p is in graph_zooms.
Offer(p) == viewCombined' = (viewCombined \/ Opposite[p] \in Shown)

\* Mutant: a late panel keeps its diff colours while a highlight is on.
ReapplyNothing(fills, found) == fills
reapplyHighlight(fills, found) == Highlighted(fills, highlight, found)

\* The loops' fills of p, drawn as the checkbox is known to be.
renderLoopBoundaries(p) ==
    boundary' = [boundary EXCEPT ![p] = IF isLoopBoundaryShown THEN "on" ELSE "off"]

\* findLoops answered: the panel is drawn, fitted, handed to onGraphShown, and decorated.
ShowGraph(p) ==
    /\ stage[p] = "parsed"
    /\ stage' = [stage EXCEPT ![p] = "shown"]
    /\ \E answer \in LoopAnswers[p] : loops' = [loops EXCEPT ![p] = answer]
    /\ paint' = reapplyHighlight([paint EXCEPT ![p] = Diff(p)], loops')
    /\ renderLoopBoundaries(p)
    /\ initialScale' = [initialScale EXCEPT ![p] = FitOf(p)]
    /\ view' = [view EXCEPT ![p] = [k |-> FitOf(p), x |-> 0]]
    /\ drawn' = [drawn EXCEPT ![p] = view'[p]] /\ last' = [last EXCEPT ![p] = view'[p]]
    /\ Offer(p)
    /\ UNCHANGED <<controls, hovered, removed, moved, isSyncEnabled,
                   mode, requests, combined, draws, combinedError, inputs>>

-----------------------------------------------------------------------------
(* The controls main_duo.js binds, while it draws the first graph.          *)

Bound == Shown # {}

setHighlightMode(on) ==
    /\ highlight' = on
    /\ paint' = Highlighted(resetNodeFills(paint), on, loops)

\* A click on "Show Cycles" or "Show Loops", "Hide ..." while it is on.
ToggleHighlight ==
    /\ Bound /\ Input
    /\ \E on \in Modes \ {None} : setHighlightMode(IF highlight = on THEN None ELSE on)
    /\ UNCHANGED <<stage, loops, boundary, isLoopBoundaryShown, ticked, hovered, removed,
                   moved, zooms, initialScale, isSyncEnabled, panes>>

\* A click on "Show Loop Boundaries": nobody listens until a graph was drawn.
ToggleBoundaries ==
    /\ Input
    /\ ticked' = ~ticked
    /\ isLoopBoundaryShown' = IF Bound THEN ticked' ELSE isLoopBoundaryShown
    /\ boundary' = [p \in Panels |-> IF boundary[p] = "none" THEN "none"
                                     ELSE IF isLoopBoundaryShown' THEN "on" ELSE "off"]
    /\ UNCHANGED <<stage, loops, paint, highlight, hovered, removed, moved, zooms,
                   initialScale, isSyncEnabled, panes>>

Visible(p) == IF mode = "side-by-side" /\ p \in Shown THEN Graph[p].blocks \ hidden[p] ELSE {}

Hover(p) ==
    /\ hovered = None /\ Input
    /\ \E b \in Visible(p) : hovered' = <<p, b>>
    /\ UNCHANGED <<graphs, controls, removed, moved, zooms, initialScale, isSyncEnabled, panes>>

Leave ==
    /\ hovered # None
    /\ hovered' = None
    /\ UNCHANGED <<graphs, controls, removed, moved, zooms, initialScale, isSyncEnabled, panes, inputs>>

EdgesOf(p, b) == {e \in Graph[p].edges : e[1] = b \/ e[2] = b}
\* Mutant: the edges are selected on the whole page.
EdgesAnywhere(p, b) == [q \in Panels |-> hiddenEdges[q] \cup (EdgesOf(p, b) \cap Graph[q].edges)]
EdgesWithout(p, b) == [hiddenEdges EXCEPT ![p] = @ \cup EdgesOf(p, b)]

\* Backspace takes the hovered block and its edges off its panel.
Backspace ==
    /\ hovered # None /\ Input
    /\ hidden' = [hidden EXCEPT ![hovered[1]] = @ \cup {hovered[2]}]
    /\ hiddenEdges' = EdgesWithout(hovered[1], hovered[2])
    /\ UNCHANGED <<graphs, controls, hovered, moved, zooms, initialScale, isSyncEnabled, panes>>

\* A click on an edge sends its two blocks off, and back to where they were at the click.
ClickEdge(p) ==
    /\ mode = "side-by-side" /\ p \in Shown /\ Input
    /\ \E e \in Graph[p].edges \ hiddenEdges[p] :
        /\ moving' = [moving EXCEPT ![p] = @ \cup {e[1], e[2]}]
        /\ lost' = [lost EXCEPT ![p] = @ \cup ({e[1], e[2]} \cap moving[p])]
    /\ UNCHANGED <<graphs, controls, hovered, removed, zooms, initialScale, isSyncEnabled, panes>>

\* The second transition of a block ended.
Return(p) ==
    /\ \E b \in moving[p] : moving' = [moving EXCEPT ![p] = @ \ {b}]
    /\ UNCHANGED <<graphs, controls, hovered, removed, lost, zooms, initialScale, isSyncEnabled, panes, inputs>>

-----------------------------------------------------------------------------
(* Panning and zooming (function_compare.js).                               *)

Quot(n, d) == IF d > 0 THEN n \div d ELSE (-n) \div (-d)

\* What d3 makes of a gesture: a pan, a doubling or a halving around a point of the pane.
Gestured(v) ==
         {[v EXCEPT !.x = @ + d] : d \in Pans}
    \cup {[k |-> 2 * v.k, x |-> 2 * v.x - q] : q \in Points}
    \cup {[k |-> v.k \div 2, x |-> q - (q - v.x) \div 2] :
            q \in {c \in Points : v.k % 2 = 0 /\ (c - v.x) % 2 = 0}}

\* Mutant: a zoom takes the other graph to this one's translate.
MirrorAbsolutely(new, old, other) ==
    IF new.k = old.k THEN [other EXCEPT !.x = @ + new.x - old.x]
    ELSE [k |-> Quot(other.k * new.k, old.k), x |-> new.x]

\* The other graph after this one went from old to new: panned by as much, or zoomed by the
\* same factor around the same point.
Mirror(new, old, other) ==
    IF new.k = old.k THEN [other EXCEPT !.x = @ + new.x - old.x]
    ELSE LET point == Quot(new.k * old.x - old.k * new.x, new.k - old.k)
         IN [k |-> Quot(other.k * new.k, old.k),
             x |-> point - Quot((point - other.x) * new.k, old.k)]

InBounds(v) == v.k \in 1..MaxScale /\ v.x \in -MaxOffset..MaxOffset

\* The position behind Mirror is whole: the bound on the gestures that are looked at.
Whole(new, old, other) ==
    (other.k * new.k) % old.k = 0 /\
    LET point == Quot(new.k * old.x - old.k * new.x, new.k - old.k)
    IN new.k # old.k => ((point - other.x) * new.k) % old.k = 0

Gesture(p) ==
    /\ mode = "side-by-side" /\ p \in Shown /\ Input
    /\ \E new \in Gestured(view[p]) :
        LET q == Opposite[p]
            both == isSyncEnabled /\ q \in Shown
            other == IF both THEN Mirror(new, last[p], last[q]) ELSE view[q]
        IN /\ InBounds(new)
           /\ both => Whole(new, last[p], last[q]) /\ InBounds(other)
           /\ view' = [view EXCEPT ![p] = new, ![q] = other]
           /\ drawn' = [drawn EXCEPT ![p] = new, ![q] = IF both THEN other ELSE @]
           /\ last' = [last EXCEPT ![p] = new, ![q] = IF both THEN other ELSE @]
    /\ UNCHANGED <<graphs, controls, hovered, removed, moved, initialScale, isSyncEnabled, panes>>

\* Mutant: the pan to the match is not written down, as centerOn did not need for itself.
CentreSilently(q, b) ==
    LET x == Middle - Place[b] * view[q].k
    IN /\ view' = [view EXCEPT ![q].x = x] /\ drawn' = [drawn EXCEPT ![q].x = x]
       /\ UNCHANGED last
centerOn(q, b) ==
    LET x == Middle - Place[b] * view[q].k
    IN /\ view' = [view EXCEPT ![q].x = x] /\ drawn' = [drawn EXCEPT ![q].x = x]
       /\ last' = [last EXCEPT ![q].x = x]

\* A click on a block centres the other graph on its first match.
ClickBlock(p) ==
    /\ Input
    /\ \E b \in Visible(p) :
        LET q == Opposite[p] c == Partner[p][b]
        IN IF q \in Shown /\ c \in Graph[q].blocks THEN centerOn(q, c) ELSE UNCHANGED zooms
    /\ UNCHANGED <<graphs, controls, hovered, removed, moved, initialScale, isSyncEnabled, panes>>

ToggleSync ==
    /\ Input
    /\ isSyncEnabled' = ~isSyncEnabled
    /\ UNCHANGED <<graphs, controls, hovered, removed, moved, zooms, initialScale, panes>>

resetView ==
    /\ Input
    /\ view' = [p \in Panels |-> IF p \in Shown THEN [k |-> initialScale[p], x |-> 0] ELSE view[p]]
    /\ drawn' = [p \in Panels |-> IF p \in Shown THEN view'[p] ELSE drawn[p]]
    /\ last' = [p \in Panels |-> IF p \in Shown THEN view'[p] ELSE last[p]]
    /\ UNCHANGED <<graphs, controls, hovered, removed, moved, initialScale, isSyncEnabled, panes>>

-----------------------------------------------------------------------------
(* The combined view (function_compare.js).                                 *)

\* Mutant: a second request may start while one is in flight.
loadCombinedAgain == requests' = requests + 1
loadCombined == requests' = IF requests > 0 THEN requests ELSE 1

setViewMode ==
    /\ Input
    /\ \/ /\ viewCombined /\ mode = "side-by-side"
          /\ mode' = "combined"
          /\ IF combined = 0 THEN loadCombined ELSE UNCHANGED requests
       \/ /\ mode = "combined"
          /\ mode' = "side-by-side" /\ UNCHANGED requests
    /\ UNCHANGED <<graphs, controls, hovered, removed, moved, zooms, initialScale,
                   isSyncEnabled, viewCombined, combined, draws, combinedError>>

\* fetchCombinedDotGraph failed, and the message stays for good; or it answered what
\* does not parse, which is thrown and says nothing.
CombinedFails ==
    /\ requests > 0
    /\ requests' = requests - 1 /\ combinedError' \in {combinedError, TRUE}
    /\ UNCHANGED <<graphs, controls, hovered, removed, moved, zooms, initialScale,
                   isSyncEnabled, mode, viewCombined, combined, draws, inputs>>

\* It answered: the graph is drawn and fitted to its pane, displayed or not.
renderCombined ==
    /\ requests > 0
    /\ requests' = requests - 1
    /\ combined' = IF mode = "combined" THEN 1 ELSE -1
    /\ draws' = draws + 1
    /\ UNCHANGED <<graphs, controls, hovered, removed, moved, zooms, initialScale,
                   isSyncEnabled, mode, viewCombined, combinedError, inputs>>

Next ==
    \/ \E p \in Panels : \/ DotGraph(p) \/ ShowGraph(p) \/ Hover(p) \/ ClickEdge(p)
                         \/ Return(p) \/ Gesture(p) \/ ClickBlock(p)
    \/ ToggleHighlight \/ ToggleBoundaries \/ Leave \/ Backspace \/ ToggleSync
    \/ resetView \/ setViewMode \/ CombinedFails \/ renderCombined

Spec == Init /\ [][Next]_vars

-----------------------------------------------------------------------------
View == [k : Int, x : Int]

TypeOK ==
    /\ stage \in [Panels -> {"asking", "parsed", "shown", "failed"}]
    /\ \A p \in Panels : loops[p] \in LoopAnswers[p] \cup {<<>>}
    /\ \A p \in Panels : DOMAIN paint[p] = IF p \in Shown THEN Graph[p].blocks ELSE {}
    /\ boundary \in [Panels -> {"none", "on", "off"}]
    /\ highlight \in Modes /\ {isLoopBoundaryShown, ticked} \subseteq BOOLEAN
    /\ hovered \in {None} \cup (Panels \X Blocks)
    /\ \A p \in Panels : hidden[p] \cup moving[p] \cup lost[p] \subseteq Graph[p].blocks
    /\ \A p \in Panels : hiddenEdges[p] \subseteq Graph[p].edges
    /\ {view, drawn, last} \subseteq [Panels -> View] /\ initialScale \in [Panels -> Int]
    /\ mode \in {"side-by-side", "combined"}
    /\ {isSyncEnabled, viewCombined, combinedError} \subseteq BOOLEAN
    /\ requests \in Nat /\ combined \in {0, 1, -1} /\ draws \in Nat
    /\ inputs \in 0..MaxInputs

Groups(p) == CASE highlight = "cycles" -> Cycles[p]
               [] highlight = "loops"  -> loops[p]
               [] OTHER                -> <<>>

(* Whichever panel answers first and whatever the reader clicks meanwhile,  *)
(* every block on screen wears the colour the buttons stand for: of the     *)
(* last group of the highlight that holds it, and its diff colour           *)
(* otherwise; and the boundaries of every panel are drawn or not alike      *)
(* (reapplyHighlight, setHighlightMode, renderLoopBoundaries).              *)
Decorated ==
    \A p \in Shown :
        /\ \A b \in Graph[p].blocks :
            \/ /\ paint[p][b] = <<"diff", 0>>
               /\ \A i \in DOMAIN Groups(p) : b \notin Groups(p)[i]
            \/ \E i \in DOMAIN Groups(p) :
                /\ paint[p][b] = <<highlight, i>> /\ b \in Groups(p)[i]
                /\ \A j \in DOMAIN Groups(p) : b \in Groups(p)[j] => j <= i
        /\ boundary[p] = IF isLoopBoundaryShown THEN "on" ELSE "off"

(* What is drawn, what d3's zoom behaviour holds and what the next gesture  *)
(* is measured from are the same, after every gesture, mirrored gesture,    *)
(* click and reset: no graph jumps under the next turn of the wheel         *)
(* (function_compare.js writes the three apart in four places).             *)
InStep == \A p \in Shown : drawn[p] = view[p] /\ last[p] = view[p]

(* No graph of the two panes is fitted while its pane is hidden: the        *)
(* combined view is offered once both are on screen (onGraphShown).         *)
FittedOnScreen == \A p \in Shown : initialScale[p] > 0

(* Of each panel exactly the edges of the hidden blocks are hidden: none    *)
(* dangles, none of the other panel goes although the two functions share   *)
(* block offsets (the keydown handler of showGraph).                        *)
EdgesFollowBlocks ==
    \A p \in Panels : hiddenEdges[p] =
        {e \in Graph[p].edges : e[1] \in hidden[p] \/ e[2] \in hidden[p]}

(* However often the reader goes to and fro, one request of the combined    *)
(* graph is in flight at most, none after it was drawn, and it is drawn     *)
(* into its pane once (setViewMode, loadCombined, renderCombined).          *)
CombinedDrawnOnce == draws + requests <= 1

(* While the graphs are synchronised a gesture leaves the offset between    *)
(* them and the ratio of their scales as they were, wherever a click had    *)
(* centred one of them before: they stay offset rather than drifting (the   *)
(* zoom handler of onGraphShown).                                           *)
SyncKeepsOffset ==
    [][\A p \in Panels : Gesture(p) /\ isSyncEnabled /\ Shown = Panels =>
        /\ view'["a"].k * view["b"].k = view["a"].k * view'["b"].k
        /\ (view'["a"].x - view'["b"].x) * view["a"].k
           = (view["a"].x - view["b"].x) * view'["a"].k]_vars

(* A test says of a late panel that it "must not put back what was just     *)
(* taken off": the boundaries drawn are those the checkbox shows.           *)
BoundariesAsTicked == \A p \in Shown : boundary[p] = IF ticked THEN "on" ELSE "off"

(* A comment says why a graph must not be fitted while its pane is hidden:  *)
(* so the combined graph on screen fits its pane.                           *)
CombinedFits == mode = "combined" => combined # -1

(* A test says of a click on an edge that "it has to leave the graph as it  *)
(* found it": a block that moves no more is where it was laid out.          *)
BlocksReturn == \A p \in Panels : lost[p] \subseteq moving[p]
=============================================================================
