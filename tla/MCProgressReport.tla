---------------------------- MODULE MCProgressReport ----------------------------
(***************************************************************************)
(* Documents for ProgressReport: planes with so few and so many sub-blocks *)
(* and tiles that each kind of line is followed by shorter and longer ones *)
(* of each kind.                                                           *)
(***************************************************************************)
EXTENDS ProgressReport

P == INSTANCE ProgressCalls

Plane(blocks, tiles) == [blocks |-> blocks, tiles |-> tiles]

MCPlanes ==
  {<<Plane(3, <<>>), Plane(2, <<4, 1>>)>>,
   <<Plane(12, <<>>), Plane(1, <<1>>), Plane(0, <<>>)>>,
   <<Plane(100, <<1>>), Plane(1, <<12, 4, 1>>)>>,
   <<Plane(120, <<2>>), Plane(110, <<1, 1>>), Plane(2, <<>>)>>}

MCCallSequences == {P!CallsOf(8, planes, n) : planes \in MCPlanes, n \in {0, 11}}

MCDefaultColors == {7, 16 * 1 + 14, 255}
=============================================================================
