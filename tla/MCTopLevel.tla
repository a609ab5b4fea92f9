------------------------------- MODULE MCTopLevel -------------------------------
(***************************************************************************)
(* The command line option --max_top_level_pyramid_size, of which          *)
(* DoPyramidize has no counterpart: nothing in the code reads it.          *)
(***************************************************************************)
EXTENDS MCDoPyramidize

CONSTANT MaxTopLevelPyramidSize     \* command line option

\* "Pyramid layers are added until the top-level pyramid tile is smaller than
\* this size" (docs/usage/cli.md:44).
TopLevelSmallEnough ==
  phase = "done" =>
    \A t \in WrittenTiles :
       (\A u \in WrittenTiles : u.coordinate = t.coordinate => Scale(u) <= Scale(t))
         => t.bitmap.w < MaxTopLevelPyramidSize /\ t.bitmap.h < MaxTopLevelPyramidSize
=============================================================================
