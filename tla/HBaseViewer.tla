---------------------------- MODULE HBaseViewer ----------------------------
(***************************************************************************)
(* The page of the HBase span viewer (spans.js): the spans of a trace, in  *)
(* the order they came, become rows, a span above its children.            *)
(*                                                                         *)
(* The variable is the answer to /getspans: a sequence of spans, whose     *)
(* identifiers are their positions.  A parent is a span, the root (0), or  *)
(* a span that was not received (Missing).                                 *)
(***************************************************************************)
EXTENDS Integers, Sequences, FiniteSets, FiniteSetsExt, SequencesExt

CONSTANTS Spans,       \* bound: their number
          LastTime,    \* bound: the times are 0..LastTime
          Width        \* of the picture

VARIABLE spans         \* <<[parent, start, stop], ...>>

ROOT_SPAN_ID == 0
Missing == Spans + 1
Received == {s \in [parent : 0..Missing, start : 0..LastTime, stop : 0..LastTime] : s.start <= s.stop}

Init == spans \in UNION {[1..n -> Received] : n \in 0..Spans}

-----------------------------------------------------------------------------
Earlier(a, b) == \/ spans[a].start < spans[b].start
                 \/ spans[a].start = spans[b].start /\ a < b

(* byparent.get: the spans with that parent by their start; <<>> for none. *)
byparent(p) == SetToSortSeq({i \in DOMAIN spans : spans[i].parent = p}, Earlier)

traverse_ByLevel(children) ==
  LET RECURSIVE levels(_, _)
      levels(depth, nodes) ==
        IF nodes = <<>> THEN <<>>
        ELSE [k \in DOMAIN nodes |-> [span |-> nodes[k], depth |-> depth]]
               \o levels(depth + 1, FoldLeft(LAMBDA all, e : all \o byparent(e), <<>>, nodes))
  IN levels(0, children)

(* addchildren and traverse: a row for every span, its children's rows     *)
(* after it.                                                               *)
traverse(children) ==
  LET RECURSIVE visit(_, _)
      visit(depth, nodes) ==
        FoldLeft(LAMBDA rows, e : rows \o <<[span |-> e, depth |-> depth]>> \o visit(depth + 1, byparent(e)),
                 <<>>, nodes)
  IN visit(0, children)

(* Without a root, byparent.get answers undefined and forEach throws: no   *)
(* picture.                                                                *)
Throws == byparent(ROOT_SPAN_ID) = <<>>
rows == traverse(byparent(ROOT_SPAN_ID))

tmin == Min({spans[i].start : i \in DOMAIN spans})
tmax == Max({spans[i].stop : i \in DOMAIN spans})

(* The bar of a span, in units of 1 / (tmax - tmin): where it begins and   *)
(* how wide it is.                                                         *)
Bar(s) == [left |-> Width * (s.start - tmin), width |-> Width * (s.stop - s.start)]

-----------------------------------------------------------------------------
(* What the rows must be, from the parents alone. *)
RECURSIVE DepthTo(_, _)
DepthTo(i, fuel) ==   \* the number of ancestors, -1 if they do not lead to the root
  LET p == spans[i].parent IN
  IF p = ROOT_SPAN_ID THEN 0
  ELSE IF p \notin DOMAIN spans \/ fuel = 0 \/ DepthTo(p, fuel - 1) = -1 THEN -1
  ELSE 1 + DepthTo(p, fuel - 1)
Depth(i) == DepthTo(i, Len(spans))

(* The picture is the tree: the spans that descend from the root, each     *)
(* once, indented by its depth; under a span come its children, the        *)
(* earlier first, with nothing of another span between; and every bar is   *)
(* in the picture.  There is no picture only if there is no root.          *)
TreeDrawn ==
  \/ Throws /\ \A i \in DOMAIN spans : Depth(i) = -1
  \/ LET at(i) == CHOOSE k \in DOMAIN rows : rows[k].span = i IN
     /\ ~Throws
     /\ Len(rows) = Cardinality({i \in DOMAIN spans : Depth(i) >= 0})
     /\ {rows[k].span : k \in DOMAIN rows} = {i \in DOMAIN spans : Depth(i) >= 0}
     /\ \A k \in DOMAIN rows :
          LET i == rows[k].span
              p == spans[i].parent IN
          /\ rows[k].depth = Depth(i)
          /\ p # ROOT_SPAN_ID => /\ at(p) < k
                                 /\ \A j \in at(p) + 1..k : rows[j].depth > rows[at(p)].depth
          /\ \A j \in 1..k - 1 : spans[rows[j].span].parent = p => spans[rows[j].span].start <= spans[i].start
          /\ Bar(spans[i]).left >= 0 /\ Bar(spans[i]).left + Bar(spans[i]).width <= Width * (tmax - tmin)
=============================================================================
