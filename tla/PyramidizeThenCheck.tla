-------------------------- MODULE PyramidizeThenCheck --------------------------
(***************************************************************************)
(* CheckForPyramid applied to what DoPyramidize has written: a second run  *)
(* of the program on the destination of the first.                         *)
(***************************************************************************)
EXTENDS DoPyramidize, CheckForPyramid

\* The sub-blocks of the destination document, by where they come from.
DestinationKeys ==
  {<<"copied", b>> : b \in {c \in DOMAIN doc.subBlocks : copied[c] > 0}}
    \cup {<<"written", k>> : k \in DOMAIN written}

DestinationSubBlocks ==
  [key \in DestinationKeys |->
     IF key[1] = "copied" THEN doc.subBlocks[key[2]]
     ELSE LET t == written[key[2]]
          IN  [coordinate |-> t.coordinate, rect |-> t.rect, mIndex |-> 0, layer0 |-> FALSE]]

LayerOfDestination ==
  [key \in DestinationKeys |->
     IF key[1] = "copied" THEN 0
     ELSE CHOOSE n \in 1 .. 30 : Scale(written[key[2]]) = PowerOfTwo[n]]

\* Once Execute has returned, the destination has the pyramid it needs, whatever
\* the threshold, as long as it is not below the tile size: a second run with
\* mode IfNeeded, or --check-only, finds nothing to do.
DestinationNeedsNoPyramid ==
  phase = "done" =>
    \A threshold \in PyramidTileSize .. IntMax :
       ~NeedsPyramid(StatisticsOf(DestinationSubBlocks),
                     PyramidStatisticsOf(DestinationSubBlocks, LayerOfDestination), threshold)
=============================================================================
