------------------------------ MODULE ProgressCalls ------------------------------
(***************************************************************************)
(* The reports an operation makes, in the order in which DoPyramidize and  *)
(* CopyAttachments make them.  A plane is a record [blocks, tiles]: its    *)
(* number of sub-blocks, and the number of tiles of each pyramid layer,    *)
(* none if the region is not above the threshold.                          *)
(***************************************************************************)
EXTENDS Integers, Sequences, SequencesExt

Call(kind, coordinate, layer, total, done) ==
  [kind |-> kind, coordinate |-> coordinate, layer |-> layer, total |-> total, done |-> done]

\* 0 of total, then one report per step.
Counting(kind, coordinate, layer, total) ==
  [i \in 1 .. total + 1 |-> Call(kind, coordinate, layer, total, i - 1)]

\* DoPlane: the sub-blocks are copied first, unless there is no pyramid to make.
CallsOfPlane(coordinate, plane) ==
  IF plane.tiles = <<>>
  THEN <<Call("pyramidize", coordinate, 0, 0, 0)>> \o Counting("copy", coordinate, 0, plane.blocks)
  ELSE Counting("copy", coordinate, 0, plane.blocks)
       \o FlattenSeq([i \in DOMAIN plane.tiles |->
                        Counting("pyramidize", coordinate, i - 1, plane.tiles[i])])

CallsOf(coordinate, planes, attachments) ==
  FlattenSeq([i \in DOMAIN planes |-> CallsOfPlane(coordinate, planes[i])])
  \o [i \in 1 .. attachments + 1 |-> Call("attachments", 0, 0, 0, i - 1)]
=============================================================================
