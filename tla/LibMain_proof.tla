----------------------------- MODULE LibMain_proof -----------------------------
(***************************************************************************)
(* Proofs about LibMain, for any directory, any command lines and any      *)
(* number of runs.                                                         *)
(***************************************************************************)
EXTENDS LibMain, TLAPS

-----------------------------------------------------------------------------
(* Types.                                                                  *)

\* The type of the state is preserved by every step of libmain, of the user and
\* of the operating system.
THEOREM TypeCorrect == Safety => []TypeOK
<1>1. Init => TypeOK
  BY LibMainAssumption DEF Init, TypeOK
<1>2. TypeOK /\ [Next]_vars => TypeOK'
  <2> SUFFICES ASSUME TypeOK, [Next]_vars PROVE TypeOK'
    OBVIOUS
  <2> USE DEF TypeOK, Exit
  <2>1. CASE Start
    BY <2>1, LibMainAssumption DEF Start
  <2>2. CASE Parse
    BY <2>2 DEF Parse
  <2>3. CASE OpenSource
    BY <2>3 DEF OpenSource
  <2>4. CASE CheckForNecessityOfPyramid
    BY <2>4 DEF CheckForNecessityOfPyramid
  <2>5. CASE CreateDestination
    BY <2>5 DEF CreateDestination
  <2>6. ASSUME NEW region \in NextRegions,
               PyramidizeLayer(region) \/ RegionDone(region) \/ DivideByZero(region)
        PROVE  TypeOK'
    BY <2>6 DEF PyramidizeLayer, RegionDone, DivideByZero
  <2>7. CASE PyramidizeDone
    BY <2>7 DEF PyramidizeDone
  <2>8. CASE WriteMetadata
    BY <2>8 DEF WriteMetadata
  <2>9. CASE CopyAttachment
    BY <2>9 DEF CopyAttachment
  <2>10. CASE Close
    BY <2>10 DEF Close
  <2>11. CASE Fail \/ Throw \/ Kill
    BY <2>11 DEF Fail, Throw, Kill
  <2>12. CASE UNCHANGED vars
    BY <2>12 DEF vars
  <2> QED
    BY <2>1, <2>2, <2>3, <2>4, <2>5, <2>6, <2>7, <2>8, <2>9, <2>10, <2>11, <2>12 DEF Next, Run
<1> QED
  BY <1>1, <1>2, PTL DEF Safety
-----------------------------------------------------------------------------
(* Regions, rectangles and layers.                                         *)

\* The layers 0 to n of a region.
LayersUpTo(n) == {[layer |-> k, count |-> 1] : k \in 0 .. n}

\* Layers are numbered without a gap, one sub-block each.
LEMMA LayersOf ==
  ASSUME NEW n \in Nat
  PROVE  /\ LayersUpTo(n) # {}
         /\ {l.layer : l \in LayersUpTo(n)} = 0 .. n
         /\ \A l \in LayersUpTo(n) : l.layer \in 0 .. n /\ l.count = 1
<1>1. \A k \in 0 .. n : [layer |-> k, count |-> 1] \in LayersUpTo(n)
  BY DEF LayersUpTo
<1>2. \A l \in LayersUpTo(n) : l.layer \in 0 .. n /\ l.count = 1
  BY DEF LayersUpTo
<1>3. {l.layer : l \in LayersUpTo(n)} \subseteq 0 .. n
  BY <1>2
<1>4. ASSUME NEW k \in 0 .. n PROVE k \in {l.layer : l \in LayersUpTo(n)}
  <2>1. [layer |-> k, count |-> 1] \in LayersUpTo(n) /\ [layer |-> k, count |-> 1].layer = k
    BY <1>1
  <2> QED
    BY <2>1, Zenon
<1>5. LayersUpTo(n) # {}
  <2>1. 0 \in 0 .. n
    OBVIOUS
  <2> QED
    BY <1>1, <2>1
<1> QED
  BY <1>2, <1>3, <1>4, <1>5

\* A region whose layer 0 is copied has this layer.
LEMMA OneLayer == LayersUpTo(0) = {[layer |-> 0, count |-> 1]}
BY DEF LayersUpTo

\* The next layer makes one set of layers the next one.
LEMMA OneLayerMore ==
  ASSUME NEW n \in Nat
  PROVE  LayersUpTo(n) \cup {[layer |-> n + 1, count |-> 1]} = LayersUpTo(n + 1)
<1>1. 0 .. (n + 1) = (0 .. n) \cup {n + 1}
  OBVIOUS
<1> QED
  BY ONLY <1>1, Zenon DEF LayersUpTo

\* TopLayer is the number of the highest layer.
LEMMA TopLayerOf ==
  ASSUME NEW n \in Nat
  PROVE  TopLayer(LayersUpTo(n)) = n
<1> DEFINE IsTop(l) == l \in LayersUpTo(n) /\ \A k \in LayersUpTo(n) : k.layer <= l.layer
<1>1. IsTop([layer |-> n, count |-> 1])
  BY DEF LayersUpTo
<1>2. ASSUME NEW l, IsTop(l) PROVE l.layer = n
  <2>1. l.layer \in 0 .. n
    BY <1>2, LayersOf
  <2>2. n <= l.layer
    BY <1>1, <1>2
  <2> QED
    BY <2>1, <2>2
<1>3. TopLayer(LayersUpTo(n)) = (CHOOSE l : IsTop(l)).layer
  BY DEF TopLayer
<1> HIDE DEF IsTop
<1> QED
  BY <1>1, <1>2, <1>3

\* IntMin and IntMax, which stand for "no scene", are no scene indices.
LEMMA IntBounds == IntMin \in Int /\ IntMax \in Int /\ IntMin < 0 /\ 0 <= IntMax
BY UintAssumption DEF IntMin, IntMax

\* Regions are numbers, their rectangles have sizes, and neither DoPyramidize nor
\* WriteMetadata gives two of them the same index.
LEMMA RegionIndices ==
  ASSUME NEW document, IsWellFormed(document)
  PROVE  /\ Regions(document.statistics) \subseteq Int
         /\ \A r \in Regions(document.statistics) : BoxOf(document.statistics, r).w \in Int
                                                 /\ BoxOf(document.statistics, r).h \in Int
         /\ \A r, s \in Regions(document.statistics) :
              /\ ResultIndex(r) = ResultIndex(s) => r = s
              /\ SceneIndexConsolidated(ResultIndex(r)) = SceneIndexConsolidated(ResultIndex(s))
                   => r = s
BY IntBounds DEF IsWellFormed, Regions, HasScenes, BoxOf, IsRectangle, ResultIndex,
                 SceneIndexConsolidated

\* The copy of a document has the regions that have data, with their rectangles.
LEMMA RegionsWritten ==
  ASSUME NEW document, IsWellFormed(document)
  PROVE  LET written == WrittenStatistics(document.statistics)
         IN  /\ Regions(written) = RegionsWithData(document.statistics)
             /\ RegionsWithData(written) = Regions(written)
             /\ \A r \in Regions(written) :
                  BoxOf(written, r) = BoxOf(document.statistics, r)
<1> DEFINE statistics == document.statistics
           kept == {s \in DOMAIN statistics.sceneBoundingBoxes :
                      ~IsUnknown(statistics.sceneBoundingBoxes[s])}
           written == WrittenStatistics(statistics)
<1>1. /\ written.boundingBoxLayer0Only = statistics.boundingBoxLayer0Only
      /\ written.sceneBoundingBoxes = [s \in kept |-> statistics.sceneBoundingBoxes[s]]
  BY DEF WrittenStatistics
<1>2. RegionsWithData(statistics) # {} /\ ~IsUnknown(statistics.boundingBoxLayer0Only)
  BY DEF IsWellFormed
<1> HIDE DEF written
<1>3. CASE HasScenes(statistics)
  <2>1. RegionsWithData(statistics) = kept
    BY <1>3 DEF RegionsWithData, Regions, BoxOf
  <2>2. DOMAIN written.sceneBoundingBoxes = kept /\ HasScenes(written)
    BY <1>1, <1>2, <2>1 DEF HasScenes
  <2> QED
    BY <1>1, <1>3, <2>1, <2>2 DEF RegionsWithData, Regions, BoxOf, written
<1>4. CASE ~HasScenes(statistics)
  <2>1. ~HasScenes(written)
    BY <1>1, <1>4 DEF HasScenes
  <2> QED
    BY <1>1, <1>2, <1>4, <2>1 DEF RegionsWithData, Regions, BoxOf, written
<1> QED
  BY <1>3, <1>4

\* CheckForPyramid finds what a document lacks.
LEMMA NeedsIsLacks ==
  ASSUME NEW document, IsWellFormed(document), NEW threshold \in Nat
  PROVE  Needs(document, threshold) <=> LacksPyramid(document, threshold)
<1> DEFINE statistics == document.statistics
           layers == document.pyramidStatistics
           Above(r) == IsRectangleAboveThreshold(BoxOf(statistics, r), threshold)
<1>1. /\ DOMAIN layers = Regions(statistics)
      /\ \A r \in Regions(statistics) :
           DoesContainPyramidLayer(layers[r]) <=> ~\A l \in layers[r] : l.layer = 0
  BY DEF IsWellFormed, DoesContainPyramidLayer
<1>2. \A r \in Regions(statistics) : Above(r) =>
        /\ ~IsUnknown(BoxOf(statistics, r))
        /\ IsRectangleAboveThreshold(statistics.boundingBoxLayer0Only, threshold)
  BY DEF IsWellFormed, Regions, BoxOf, IsRectangleAboveThreshold, IsUnknown, IsRectangle
<1>3. Needs(document, threshold) <=>
        \E r \in Regions(statistics) : Above(r) /\ ~DoesContainPyramidLayer(layers[r])
  <2>1. CASE HasScenes(statistics)
    BY <1>1, <1>2, <2>1 DEF Needs, NeedsPyramid, CheckIfPyramidIsPresent, ScenesAboveThreshold,
         CheckOverallBoundingBoxForNecessityOfPyramid, Regions, BoxOf
  <2>2. CASE ~HasScenes(statistics)
    BY <1>1, <1>2, <2>2 DEF Needs, NeedsPyramid, CheckIfPyramidIsPresent,
         CheckOverallBoundingBoxForNecessityOfPyramid, Regions, BoxOf
  <2> QED
    BY <2>1, <2>2
<1> QED
  BY <1>1, <1>2, <1>3 DEF LacksPyramid, RegionsWithData, IsRectangleAboveThreshold
-----------------------------------------------------------------------------
(* The directory.  It is what it was when the run began until CreateDestina- *)
(* tion; from then on the destination is incomplete, and it was free then or *)
(* may be overwritten.                                                       *)

DestinationFree == files_at_start[request.destination] = NoFile \/ request.overwrite

Writing == phase \in {"pyramidize", "metadata", "attachments"}

DirectoryInv ==
  /\ \A r \in Requests : r.source \in DOMAIN files /\ r.destination \in DOMAIN files
  /\ phase \in {"parse", "open", "check", "destination"} =>
       files = files_at_start /\ DOMAIN pyramidizing_result = {}
  /\ Writing => DestinationFree /\ files[request.destination] = Incomplete
  /\ phase = "destination" \/ Writing => request.command = "Pyramidize"
  /\ RetryNeedsOverwrite

\* Between runs nothing is claimed of the directory.
LEMMA DirectoryInvInitially == Init => DirectoryInv
BY LibMainAssumption DEF Init, DirectoryInv, Writing, RetryNeedsOverwrite, Exited

\* Only CreateDestination and Close write to the directory.
LEMMA DirectoryInvStep == TypeOK /\ DirectoryInv /\ [Next]_vars => DirectoryInv'
<1> SUFFICES ASSUME TypeOK, DirectoryInv, [Next]_vars PROVE DirectoryInv'
  OBVIOUS
<1> USE DEF DirectoryInv, Writing, DestinationFree, RetryNeedsOverwrite, Exited, Exit,
            SUCCESS, GENERAL_ERROR, PYRAMIDISNEEDEDED, NOACTIONBECAUSENOPYRAMIDNEEDED,
            INVALID_ARGUMENTS, ABORTED, KILLED, DIVIDED_BY_ZERO
<1>1. CASE Start
  BY <1>1 DEF Start
<1>2. CASE Parse
  BY <1>2 DEF Parse
<1>3. CASE OpenSource
  BY <1>3 DEF OpenSource
<1>4. CASE CheckForNecessityOfPyramid
  BY <1>4, LibMainAssumption DEF CheckForNecessityOfPyramid, TypeOK
<1>5. CASE CreateDestination
  <2>1. request.destination \in DOMAIN files
    BY DEF TypeOK
  <2> QED
    BY <1>5, <2>1 DEF CreateDestination, CanCreateDestination
<1>6. ASSUME NEW region \in NextRegions,
             PyramidizeLayer(region) \/ RegionDone(region) \/ DivideByZero(region)
      PROVE  DirectoryInv'
  BY <1>6 DEF NextRegions, PyramidizeLayer, RegionDone, DivideByZero
<1>7. CASE PyramidizeDone
  BY <1>7 DEF PyramidizeDone
<1>8. CASE WriteMetadata
  BY <1>8 DEF WriteMetadata
<1>9. CASE CopyAttachment
  BY <1>9 DEF CopyAttachment
<1>10. CASE Close
  BY <1>10 DEF Close
<1>11. CASE Fail \/ Throw \/ Kill
  BY <1>11 DEF Fail, Throw, Kill
<1>12. CASE UNCHANGED vars
  BY <1>12 DEF vars
<1> QED
  BY <1>1, <1>2, <1>3, <1>4, <1>5, <1>6, <1>7, <1>8, <1>9, <1>10, <1>11, <1>12 DEF Next, Run

\* A run succeeds only over a free destination, or when told to overwrite.
THEOREM RetriesNeedOverwrite == Safety => []RetryNeedsOverwrite
<1>1. Init => DirectoryInv
  BY DirectoryInvInitially
<1>2. TypeOK /\ DirectoryInv /\ [Next]_vars => DirectoryInv'
  BY DirectoryInvStep
<1>3. DirectoryInv => RetryNeedsOverwrite
  BY DEF DirectoryInv
<1> QED
  BY TypeCorrect, <1>1, <1>2, <1>3, PTL DEF Safety
-----------------------------------------------------------------------------
(* The source, and what has been written of the destination.               *)

\* The source is the document that was there when the run began.
SourceInv ==
  phase \in {"check", "destination"} \/ Writing =>
    source = files_at_start[request.source] /\ IsWellFormed(source)

FilesInv ==
  \A name \in DOMAIN files : IsDocumentFile(name) => IsWellFormed(files[name])

IsOutput(o) ==
  o = [statistics |-> o.statistics, pyramidStatistics |-> o.pyramidStatistics,
       metadata |-> o.metadata, pyramid_info |-> o.pyramid_info, attachments |-> o.attachments]

\* What the steps of a writing run do to the record of the output.
LEMMA OutputUpdated ==
  ASSUME NEW o, IsOutput(o), NEW v, NEW w
  PROVE  /\ [o EXCEPT !.pyramidStatistics = v] =
              [statistics |-> o.statistics, pyramidStatistics |-> v, metadata |-> o.metadata,
               pyramid_info |-> o.pyramid_info, attachments |-> o.attachments]
         /\ [o EXCEPT !.pyramid_info = v, !.metadata = w] =
              [statistics |-> o.statistics, pyramidStatistics |-> o.pyramidStatistics,
               metadata |-> w, pyramid_info |-> v, attachments |-> o.attachments]
         /\ [o EXCEPT !.attachments = v] =
              [statistics |-> o.statistics, pyramidStatistics |-> o.pyramidStatistics,
               metadata |-> o.metadata, pyramid_info |-> o.pyramid_info, attachments |-> v]
<1>1. PICK s, p, m, i, a : o = [statistics |-> s, pyramidStatistics |-> p, metadata |-> m,
                                pyramid_info |-> i, attachments |-> a]
  BY DEF IsOutput
<1>2. [o EXCEPT !.pyramidStatistics = v] =
        [statistics |-> o.statistics, pyramidStatistics |-> v, metadata |-> o.metadata,
         pyramid_info |-> o.pyramid_info, attachments |-> o.attachments]
  BY <1>1
<1>3. [o EXCEPT !.pyramid_info = v, !.metadata = w] =
        [statistics |-> o.statistics, pyramidStatistics |-> o.pyramidStatistics,
         metadata |-> w, pyramid_info |-> v, attachments |-> o.attachments]
  <2>1. PICK first : first = [o EXCEPT !.pyramid_info = v]
    OBVIOUS
  <2>2. first = [statistics |-> s, pyramidStatistics |-> p, metadata |-> m,
                 pyramid_info |-> v, attachments |-> a]
    BY <1>1, <2>1
  <2>3. [first EXCEPT !.metadata = w] =
          [statistics |-> s, pyramidStatistics |-> p, metadata |-> w,
           pyramid_info |-> v, attachments |-> a]
    BY <2>2
  <2> QED
    BY <1>1, <2>1, <2>3
<1>4. [o EXCEPT !.attachments = v] =
        [statistics |-> o.statistics, pyramidStatistics |-> o.pyramidStatistics,
         metadata |-> o.metadata, pyramid_info |-> o.pyramid_info, attachments |-> v]
  BY <1>1
<1> QED
  BY <1>2, <1>3, <1>4

OutputInv ==
  Writing =>
    /\ IsOutput(output)
    /\ output.statistics = WrittenStatistics(source.statistics)
    /\ output.attachments \in Nat

\* The layers of a region are those from 0 to some n, the last one because the
\* one below did not fit into a tile.
HasLayers(region, n) ==
  /\ region \in DOMAIN output.pyramidStatistics
  /\ output.pyramidStatistics[region] = LayersUpTo(n)
  /\ n > 0 => IsAdditionalLayerNeeded(BoxOf(source.statistics, region), request.tile_size, n - 1)

LayersInv ==
  Writing =>
    /\ DOMAIN output.pyramidStatistics \subseteq RegionsWithData(source.statistics)
    /\ \A r \in DOMAIN output.pyramidStatistics : \E n \in Nat : HasLayers(r, n)

\* What is reported of a region is its highest layer.
IsReported(region, n) ==
  /\ HasLayers(region, n)
  /\ request.tile_size > 0 =>
       ~IsAdditionalLayerNeeded(BoxOf(source.statistics, region), request.tile_size, n)
  /\ pyramidizing_result[ResultIndex(region)] = n

ResultInv ==
  Writing =>
    /\ DOMAIN pyramidizing_result \subseteq {ResultIndex(r) : r \in Regions(source.statistics)}
    /\ \A r \in RegionsWithData(source.statistics) :
         ResultIndex(r) \in DOMAIN pyramidizing_result => \E n \in Nat : IsReported(r, n)
    /\ phase # "pyramidize" => RegionsToDo = {}

MetadataInv ==
  Writing =>
    IF phase = "attachments"
    THEN /\ output.metadata = source.metadata
         /\ output.metadata => \A r \in Regions(source.statistics) :
              output.pyramid_info[SceneIndexConsolidated(ResultIndex(r))]
                = pyramidizing_result[ResultIndex(r)]
    ELSE output.metadata = FALSE

Inv == /\ TypeOK /\ DirectoryInv
       /\ SourceInv /\ FilesInv /\ OutputInv /\ LayersInv /\ ResultInv /\ MetadataInv

\* Between runs nothing is claimed of a source or an output.
LEMMA InvInitially == Init => Inv
<1> SUFFICES ASSUME Init PROVE Inv
  OBVIOUS
<1>1. TypeOK /\ DirectoryInv
  BY LibMainAssumption, DirectoryInvInitially DEF Init, TypeOK
<1>2. phase = "exited" /\ FilesInv
  BY LibMainAssumption DEF Init, FilesInv, IsDocumentFile
<1> QED
  BY <1>1, <1>2 DEF Inv, Writing, SourceInv, OutputInv, LayersInv, ResultInv, MetadataInv

\* Of a run that writes, only these steps are left to look at for each part.
LEMMA StepsOfWriting ==
  ASSUME Next, Writing'
  PROVE  /\ phase = "destination" \/ Writing
         /\ UNCHANGED <<request, source, files_at_start>>
         /\ \/ CreateDestination
            \/ \E region \in NextRegions : PyramidizeLayer(region) \/ RegionDone(region)
            \/ PyramidizeDone \/ WriteMetadata \/ CopyAttachment
<1> USE DEF Writing, Exit
<1>1. ~Start /\ ~Parse /\ ~OpenSource /\ ~CheckForNecessityOfPyramid /\ ~Close
      /\ ~Fail /\ ~Throw /\ ~Kill
  BY DEF Start, Parse, OpenSource, CheckForNecessityOfPyramid, Close, Fail, Throw, Kill
<1>2. \A region : ~DivideByZero(region)
  BY DEF DivideByZero
<1>3. CreateDestination => phase = "destination" /\ UNCHANGED <<request, source, files_at_start>>
  BY DEF CreateDestination
<1>4. ASSUME NEW region \in NextRegions, PyramidizeLayer(region) \/ RegionDone(region)
      PROVE  Writing /\ UNCHANGED <<request, source, files_at_start>>
  BY <1>4 DEF NextRegions, PyramidizeLayer, RegionDone
<1>5. PyramidizeDone \/ WriteMetadata \/ CopyAttachment
        => Writing /\ UNCHANGED <<request, source, files_at_start>>
  BY DEF PyramidizeDone, WriteMetadata, CopyAttachment
<1> QED
  BY <1>1, <1>2, <1>3, <1>4, <1>5 DEF Next, Run

\* The source is what OpenSource has read.
LEMMA SourceInvStep == Inv /\ Next => SourceInv'
<1> SUFFICES ASSUME Inv, Next PROVE SourceInv'
  OBVIOUS
<1> USE DEF Exit
<1>1. CASE OpenSource
  <2>1. files = files_at_start /\ source' = files[request.source] /\ request.source \in DOMAIN files
    BY <1>1 DEF OpenSource, Inv, TypeOK, DirectoryInv
  <2>2. IsWellFormed(source')
    BY <1>1, <2>1 DEF OpenSource, CanOpenSource, Inv, FilesInv
  <2> QED
    BY <1>1, <2>1, <2>2 DEF OpenSource, SourceInv
<1>2. CASE CheckForNecessityOfPyramid
  BY <1>2 DEF CheckForNecessityOfPyramid, Inv, SourceInv, Writing
<1>3. CASE Writing'
  BY <1>3, StepsOfWriting DEF Inv, SourceInv
<1>4. CASE ~OpenSource /\ ~CheckForNecessityOfPyramid /\ ~Writing'
  <2>1. phase' \notin {"check", "destination"}
    <3>1. CASE \E region \in NextRegions :
                 PyramidizeLayer(region) \/ RegionDone(region) \/ DivideByZero(region)
      BY <3>1 DEF NextRegions, PyramidizeLayer, RegionDone, DivideByZero
    <3>2. CASE Start \/ Parse \/ Fail \/ Throw \/ Kill
      BY <3>2 DEF Start, Parse, Fail, Throw, Kill
    <3>3. CASE CreateDestination \/ PyramidizeDone \/ WriteMetadata \/ CopyAttachment \/ Close
      BY <3>3 DEF CreateDestination, PyramidizeDone, WriteMetadata, CopyAttachment, Close
    <3> QED
      BY <1>4, <3>1, <3>2, <3>3 DEF Next, Run
  <2> QED
    BY <1>4, <2>1 DEF SourceInv
<1> QED
  BY <1>1, <1>2, <1>3, <1>4
\* The output starts with the source's layer 0 and is never replaced.
LEMMA OutputInvStep == Inv /\ Next => OutputInv'
<1> SUFFICES ASSUME Inv, Next, Writing' PROVE OutputInv'
  BY DEF OutputInv
<1> DEFINE Goal == /\ IsOutput(output')
                   /\ output'.statistics = WrittenStatistics(source.statistics)
                   /\ output'.attachments \in Nat
<1>1. UNCHANGED source
  BY StepsOfWriting
<1>2. CASE CreateDestination
  BY <1>1, <1>2 DEF CreateDestination, OutputInv, IsOutput
<1>3. ASSUME Writing PROVE Goal
  <2>1. IsOutput(output) /\ output.statistics = WrittenStatistics(source.statistics)
        /\ output.attachments \in Nat
    BY <1>3 DEF Inv, OutputInv
  <2>2. CASE UNCHANGED output
    BY <2>1, <2>2
  <2>3. ASSUME NEW statistics, output' = [output EXCEPT !.pyramidStatistics = statistics]
        PROVE  Goal
    BY <2>1, <2>3, OutputUpdated DEF IsOutput
  <2>4. ASSUME NEW info, NEW metadata,
               output' = [output EXCEPT !.pyramid_info = info, !.metadata = metadata]
        PROVE  Goal
    <3>1. output' = [statistics |-> output.statistics,
                     pyramidStatistics |-> output.pyramidStatistics, metadata |-> metadata,
                     pyramid_info |-> info, attachments |-> output.attachments]
      BY <2>1, <2>4, OutputUpdated
    <3> QED
      BY <2>1, <3>1 DEF IsOutput
  <2>5. ASSUME output' = [output EXCEPT !.attachments = @ + 1]
        PROVE  Goal
    <3>1. output' = [statistics |-> output.statistics,
                     pyramidStatistics |-> output.pyramidStatistics, metadata |-> output.metadata,
                     pyramid_info |-> output.pyramid_info, attachments |-> output.attachments + 1]
      BY <2>1, <2>5, OutputUpdated
    <3> QED
      BY <2>1, <3>1 DEF IsOutput
  <2> HIDE DEF Goal
  <2>6. ASSUME NEW region \in NextRegions, PyramidizeLayer(region) \/ RegionDone(region)
        PROVE  Goal
    <3>1. (\E statistics : output' = [output EXCEPT !.pyramidStatistics = statistics])
          \/ UNCHANGED output
      BY <2>6, Zenon DEF PyramidizeLayer, RegionDone
    <3> QED
      BY <2>2, <2>3, <3>1
  <2>7. CASE PyramidizeDone
    BY <2>2, <2>7 DEF PyramidizeDone
  <2>8. CASE WriteMetadata
    <3>1. (\E info, metadata :
             output' = [output EXCEPT !.pyramid_info = info, !.metadata = metadata])
          \/ UNCHANGED output
      BY <2>8, Zenon DEF WriteMetadata
    <3> QED
      BY <2>2, <2>4, <3>1
  <2>9. CASE CopyAttachment
    BY <2>5, <2>9 DEF CopyAttachment
  <2>10. CASE CreateDestination
    BY <1>3, <2>10 DEF CreateDestination, Writing
  <2> QED
    BY <2>6, <2>7, <2>8, <2>9, <2>10, StepsOfWriting
<1>4. ~Writing => CreateDestination
  BY StepsOfWriting DEF Writing, NextRegions, PyramidizeDone, WriteMetadata, CopyAttachment
<1> QED
  BY <1>1, <1>2, <1>3, <1>4 DEF OutputInv
\* A step of the pyramidizing gives its region the layer on top of those it has.
LEMMA LayerAdded ==
  ASSUME Inv, NEW region \in NextRegions, PyramidizeLayer(region)
  PROVE  /\ Writing /\ Writing' /\ UNCHANGED <<phase, request, source, pyramidizing_result>>
         /\ region \in RegionsWithData(source.statistics)
         /\ DOMAIN output'.pyramidStatistics = DOMAIN output.pyramidStatistics \cup {region}
         /\ \E n \in Nat : HasLayers(region, n)'
         /\ \A r \in DOMAIN output.pyramidStatistics :
              r # region => output'.pyramidStatistics[r] = output.pyramidStatistics[r]
<1> DEFINE old == output.pyramidStatistics
           layers == LayersWritten(region)
           layer == IF layers = {} THEN 0 ELSE TopLayer(layers) + 1
           new == [r \in DOMAIN old \cup {region} |->
                     IF r = region THEN layers \cup {[layer |-> layer, count |-> 1]} ELSE old[r]]
<1>1. Writing /\ Writing' /\ UNCHANGED <<phase, request, source, pyramidizing_result>>
  BY DEF NextRegions, PyramidizeLayer, Writing
<1>2. output' = [output EXCEPT !.pyramidStatistics = new]
  BY Zenon DEF PyramidizeLayer
<1>3. output'.pyramidStatistics = new
  <2>1. IsOutput(output)
    BY <1>1 DEF Inv, OutputInv
  <2> HIDE DEF new
  <2>2. output' = [statistics |-> output.statistics, pyramidStatistics |-> new,
                   metadata |-> output.metadata, pyramid_info |-> output.pyramid_info,
                   attachments |-> output.attachments]
    BY <1>2, <2>1, OutputUpdated
  <2> QED
    BY <2>2
<1>4. region \in Regions(source.statistics) /\ ~IsRegionComplete(region)
  BY DEF NextRegions, RegionsToDo, PyramidizeLayer
<1>5. CASE layers = {}
  <2>1. region \notin DOMAIN old
    <3> SUFFICES ASSUME region \in DOMAIN old PROVE FALSE
      OBVIOUS
    <3>1. PICK n \in Nat : old[region] = LayersUpTo(n)
      BY <1>1 DEF Inv, LayersInv, HasLayers
    <3> QED
      BY <1>5, <3>1, LayersOf DEF LayersWritten
  <2>2. region \in RegionsWithData(source.statistics)
    BY <1>4, <1>5 DEF IsRegionComplete, RegionsWithData
  <2>3. new[region] = LayersUpTo(0)
    BY <1>5, OneLayer
  <2>4. HasLayers(region, 0)'
    BY <1>3, <2>3 DEF HasLayers
  <2> QED
    BY <1>1, <1>3, <2>1, <2>2, <2>4
<1>6. CASE layers # {}
  <2>1. region \in DOMAIN old /\ layers = old[region]
    BY <1>6 DEF LayersWritten
  <2>2. PICK n \in Nat : layers = LayersUpTo(n)
    BY <1>1, <2>1 DEF Inv, LayersInv, HasLayers
  <2>3. layer = n + 1
    BY <1>6, <2>2, TopLayerOf
  <2>4. IsAdditionalLayerNeeded(BoxOf(source.statistics, region), request.tile_size, n)
    BY <1>4, <1>6, <2>2, TopLayerOf DEF IsRegionComplete
  <2>5. new[region] = LayersUpTo(n + 1)
    <3>1. new[region] = LayersUpTo(n) \cup {[layer |-> n + 1, count |-> 1]}
      BY <2>2, <2>3
    <3> QED
      BY <3>1, OneLayerMore
  <2>6. HasLayers(region, n + 1)'
    BY <1>1, <1>3, <2>4, <2>5 DEF HasLayers
  <2>7. region \in RegionsWithData(source.statistics)
    BY <1>1, <2>1 DEF Inv, LayersInv
  <2> QED
    BY <1>1, <1>3, <2>6, <2>7
<1> QED
  BY <1>5, <1>6

\* The other steps of a writing run leave the layers alone.
LEMMA LayersKept ==
  ASSUME Inv, Writing,
         \/ \E region \in NextRegions : RegionDone(region)
         \/ PyramidizeDone \/ WriteMetadata \/ CopyAttachment
  PROVE  /\ UNCHANGED <<request, source>>
         /\ output'.pyramidStatistics = output.pyramidStatistics
<1>1. IsOutput(output)
  BY DEF Inv, OutputInv
<1>2. CASE \E region \in NextRegions : RegionDone(region)
  BY <1>2 DEF RegionDone
<1>3. CASE PyramidizeDone
  BY <1>3 DEF PyramidizeDone
<1>4. CASE WriteMetadata
  <2>1. (\E info, metadata :
           output' = [output EXCEPT !.pyramid_info = info, !.metadata = metadata])
        \/ UNCHANGED output
    BY <1>4, Zenon DEF WriteMetadata
  <2>2. ASSUME NEW info, NEW metadata,
               output' = [output EXCEPT !.pyramid_info = info, !.metadata = metadata]
        PROVE  output'.pyramidStatistics = output.pyramidStatistics
    <3>1. output' = [statistics |-> output.statistics,
                     pyramidStatistics |-> output.pyramidStatistics, metadata |-> metadata,
                     pyramid_info |-> info, attachments |-> output.attachments]
      BY <1>1, <2>2, OutputUpdated
    <3> QED
      BY <3>1
  <2> QED
    BY <1>4, <2>1, <2>2 DEF WriteMetadata
<1>5. CASE CopyAttachment
  <2>1. output' = [output EXCEPT !.attachments = @ + 1] /\ UNCHANGED <<request, source>>
    BY <1>5 DEF CopyAttachment
  <2>2. output' = [statistics |-> output.statistics,
                   pyramidStatistics |-> output.pyramidStatistics, metadata |-> output.metadata,
                   pyramid_info |-> output.pyramid_info, attachments |-> output.attachments + 1]
    BY <1>1, <2>1, OutputUpdated
  <2> QED
    BY <2>1, <2>2
<1> QED
  BY <1>2, <1>3, <1>4, <1>5

\* Layers are only added, one at a time, on top.
LEMMA LayersInvStep == Inv /\ Next => LayersInv'
<1> SUFFICES ASSUME Inv, Next, Writing' PROVE LayersInv'
  BY DEF LayersInv
<1>1. CASE CreateDestination
  <2>1. output'.pyramidStatistics = [r \in {} |-> {}]
    BY <1>1 DEF CreateDestination
  <2> QED
    BY <2>1 DEF LayersInv
<1>2. ASSUME NEW region \in NextRegions, PyramidizeLayer(region)
      PROVE  LayersInv'
  <2>1. ASSUME NEW r \in DOMAIN output'.pyramidStatistics
        PROVE  r \in RegionsWithData(source'.statistics) /\ \E n \in Nat : HasLayers(r, n)'
    <3>1. CASE r = region
      BY <1>2, <3>1, LayerAdded
    <3>2. CASE r # region
      <4>1. r \in DOMAIN output.pyramidStatistics
            /\ output'.pyramidStatistics[r] = output.pyramidStatistics[r]
            /\ Writing /\ UNCHANGED <<request, source>>
        BY <1>2, <3>2, LayerAdded
      <4>2. r \in RegionsWithData(source.statistics)
        BY <4>1 DEF Inv, LayersInv
      <4>3. PICK n \in Nat : HasLayers(r, n)
        BY <4>1 DEF Inv, LayersInv
      <4> QED
        BY <4>1, <4>2, <4>3 DEF HasLayers
    <3> QED
      BY <3>1, <3>2
  <2> QED
    BY <2>1 DEF LayersInv
<1>3. CASE (\E region \in NextRegions : RegionDone(region))
           \/ PyramidizeDone \/ WriteMetadata \/ CopyAttachment
  <2>1. Writing
    BY <1>3 DEF NextRegions, PyramidizeDone, WriteMetadata, CopyAttachment, Writing
  <2>2. output'.pyramidStatistics = output.pyramidStatistics /\ UNCHANGED <<request, source>>
    BY <1>3, <2>1, LayersKept
  <2> QED
    BY <2>1, <2>2 DEF Inv, LayersInv, HasLayers
<1> QED
  BY <1>1, <1>2, <1>3, StepsOfWriting
\* DoPyramidize::Execute reports a region when its layers are complete.
LEMMA ResultInvStep == Inv /\ Next => ResultInv'
<1> SUFFICES ASSUME Inv, Next, Writing' PROVE ResultInv'
  BY DEF ResultInv
<1> DEFINE Reported(r) == ResultIndex(r) \in DOMAIN pyramidizing_result
                            => \E n \in Nat : IsReported(r, n)
<1>1. CASE CreateDestination
  <2>1. DOMAIN pyramidizing_result' = {} /\ phase' = "pyramidize"
    BY <1>1 DEF CreateDestination, Inv, DirectoryInv
  <2> QED
    BY <2>1 DEF ResultInv
<1>2. ASSUME NEW region \in NextRegions, PyramidizeLayer(region)
      PROVE  ResultInv'
  <2>1. /\ Writing /\ UNCHANGED <<phase, request, source, pyramidizing_result>>
        /\ \A r \in DOMAIN output.pyramidStatistics :
             /\ r \in DOMAIN output'.pyramidStatistics
             /\ r # region => output'.pyramidStatistics[r] = output.pyramidStatistics[r]
    BY <1>2, LayerAdded
  <2>2. ResultIndex(region) \notin DOMAIN pyramidizing_result /\ phase = "pyramidize"
    BY DEF NextRegions, RegionsToDo
  <2>3. ASSUME NEW r \in RegionsWithData(source.statistics) PROVE Reported(r)'
    <3> SUFFICES ASSUME ResultIndex(r) \in DOMAIN pyramidizing_result
                 PROVE  \E n \in Nat : IsReported(r, n)'
      BY <2>1
    <3>1. PICK n \in Nat : IsReported(r, n)
      BY <2>1 DEF Inv, ResultInv
    <3>2. IsReported(r, n)'
      BY <2>1, <2>2, <3>1 DEF IsReported, HasLayers
    <3> QED
      BY <3>2
  <2> QED
    BY <2>1, <2>2, <2>3 DEF Inv, ResultInv
<1>3. ASSUME NEW region \in NextRegions, RegionDone(region)
      PROVE  ResultInv'
  <2>1. /\ Writing /\ phase = "pyramidize" /\ region \in Regions(source.statistics)
        /\ UNCHANGED <<phase, request, source, output>> /\ IsRegionComplete(region)
    BY <1>3 DEF NextRegions, RegionsToDo, RegionDone, Writing
  <2>2. /\ DOMAIN pyramidizing_result' = DOMAIN pyramidizing_result \cup {ResultIndex(region)}
        /\ pyramidizing_result'[ResultIndex(region)]
             = NumberOfPyramidLayers(LayersWritten(region))
        /\ \A s \in DOMAIN pyramidizing_result :
             s # ResultIndex(region) => pyramidizing_result'[s] = pyramidizing_result[s]
    BY <1>3 DEF RegionDone
  <2>3. IsWellFormed(source)
    BY <2>1 DEF Inv, SourceInv
  <2>4. ASSUME NEW r \in RegionsWithData(source.statistics) PROVE Reported(r)'
    <3>1. r \in Regions(source.statistics) /\ ~IsUnknown(BoxOf(source.statistics, r))
      BY DEF RegionsWithData
    <3>2. CASE r = region
      <4>1. LayersWritten(region) # {} /\ region \in DOMAIN output.pyramidStatistics
        BY <2>1, <3>1, <3>2 DEF IsRegionComplete, LayersWritten
      <4>2. PICK n \in Nat : HasLayers(region, n)
        BY <2>1, <4>1 DEF Inv, LayersInv
      <4>3. LayersWritten(region) = LayersUpTo(n)
        BY <4>1, <4>2 DEF HasLayers, LayersWritten
      <4>4. pyramidizing_result'[ResultIndex(region)] = n
        BY <2>2, <4>1, <4>3, TopLayerOf DEF NumberOfPyramidLayers
      <4>5. request.tile_size > 0 =>
              ~IsAdditionalLayerNeeded(BoxOf(source.statistics, region), request.tile_size, n)
        BY <2>1, <4>1, <4>3, TopLayerOf DEF IsRegionComplete
      <4>6. IsReported(region, n)'
        BY <2>1, <4>2, <4>4, <4>5 DEF IsReported, HasLayers
      <4> QED
        BY <3>2, <4>6
    <3>3. CASE r # region
      <4> SUFFICES ASSUME ResultIndex(r) \in DOMAIN pyramidizing_result'
                   PROVE  \E n \in Nat : IsReported(r, n)'
        OBVIOUS
      <4>1. ResultIndex(r) # ResultIndex(region)
        BY <2>1, <2>3, <3>1, <3>3, RegionIndices
      <4>2. PICK n \in Nat : IsReported(r, n)
        BY <2>1, <2>2, <4>1 DEF Inv, ResultInv
      <4>3. IsReported(r, n)'
        BY <2>1, <2>2, <4>1, <4>2 DEF IsReported, HasLayers
      <4> QED
        BY <4>3
    <3> QED
      BY <3>2, <3>3
  <2> QED
    BY <2>1, <2>2, <2>4 DEF Inv, ResultInv
<1>4. CASE PyramidizeDone \/ WriteMetadata \/ CopyAttachment
  <2>1. Writing /\ UNCHANGED pyramidizing_result
    BY <1>4 DEF PyramidizeDone, WriteMetadata, CopyAttachment, Writing
  <2>2. output'.pyramidStatistics = output.pyramidStatistics /\ UNCHANGED <<request, source>>
    BY <1>4, <2>1, LayersKept
  <2>3. RegionsToDo' = RegionsToDo /\ RegionsToDo = {}
    BY <1>4, <2>1, <2>2
       DEF RegionsToDo, PyramidizeDone, WriteMetadata, CopyAttachment, Inv, ResultInv
  <2>4. ASSUME NEW r \in RegionsWithData(source.statistics) PROVE Reported(r)'
    <3>1. Reported(r)
      BY <2>1 DEF Inv, ResultInv
    <3> QED
      BY <2>1, <2>2, <3>1 DEF IsReported, HasLayers
  <2> QED
    BY <2>1, <2>2, <2>3, <2>4 DEF Inv, ResultInv
<1> QED
  BY <1>1, <1>2, <1>3, <1>4, StepsOfWriting
\* WriteMetadata writes what was reported.
LEMMA MetadataInvStep == Inv /\ Next => MetadataInv'
<1> SUFFICES ASSUME Inv, Next, Writing' PROVE MetadataInv'
  BY DEF MetadataInv
<1>1. CASE CreateDestination
  BY <1>1 DEF CreateDestination, MetadataInv
<1>2. ASSUME NEW region \in NextRegions, PyramidizeLayer(region)
      PROVE  MetadataInv'
  <2>1. /\ Writing /\ phase = "pyramidize" /\ phase' = phase
        /\ \E statistics : output' = [output EXCEPT !.pyramidStatistics = statistics]
    BY <1>2, Zenon DEF NextRegions, PyramidizeLayer, Writing
  <2>2. IsOutput(output) /\ output.metadata = FALSE
    BY <2>1 DEF Inv, OutputInv, MetadataInv
  <2>3. PICK statistics : output' = [output EXCEPT !.pyramidStatistics = statistics]
    BY <2>1
  <2>4. output' = [statistics |-> output.statistics, pyramidStatistics |-> statistics,
                   metadata |-> output.metadata, pyramid_info |-> output.pyramid_info,
                   attachments |-> output.attachments]
    BY <2>2, <2>3, OutputUpdated
  <2> QED
    BY <2>1, <2>2, <2>4 DEF MetadataInv
<1>3. CASE (\E region \in NextRegions : RegionDone(region)) \/ PyramidizeDone
  BY <1>3 DEF NextRegions, RegionDone, PyramidizeDone, Inv, MetadataInv, Writing
<1>4. CASE WriteMetadata
  <2> DEFINE Consolidated(i) ==
               {s \in DOMAIN pyramidizing_result : SceneIndexConsolidated(s) = i}
             scenes == {SceneIndexConsolidated(s) : s \in DOMAIN pyramidizing_result}
             pyramid_info ==
               [i \in DOMAIN source.pyramid_info \cup scenes |->
                  IF i \in scenes
                  THEN pyramidizing_result[CHOOSE s \in Consolidated(i) : TRUE]
                  ELSE source.pyramid_info[i]]
  <2>1. /\ Writing /\ phase = "metadata" /\ phase' = "attachments"
        /\ UNCHANGED <<source, pyramidizing_result>>
    BY <1>4 DEF WriteMetadata, Writing
  <2>2. /\ IsWellFormed(source) /\ source.metadata \in BOOLEAN
        /\ IsOutput(output) /\ output.metadata = FALSE
    BY <2>1 DEF Inv, SourceInv, OutputInv, MetadataInv, IsWellFormed
  <2>3. output' = IF source.metadata
                  THEN [output EXCEPT !.pyramid_info = pyramid_info, !.metadata = source.metadata]
                  ELSE output
    BY <1>4, Zenon DEF WriteMetadata
  <2>4. ASSUME NEW r \in Regions(source.statistics)
        PROVE  pyramid_info[SceneIndexConsolidated(ResultIndex(r))]
                 = pyramidizing_result[ResultIndex(r)]
    <3>1. ResultIndex(r) \in DOMAIN pyramidizing_result
      BY <2>1 DEF Inv, ResultInv, RegionsToDo
    <3>2. ASSUME NEW s \in Consolidated(SceneIndexConsolidated(ResultIndex(r)))
          PROVE  s = ResultIndex(r)
      <4>1. PICK other \in Regions(source.statistics) : s = ResultIndex(other)
        BY <2>1 DEF Inv, ResultInv
      <4> QED
        BY <2>2, <4>1, RegionIndices
    <3>3. (CHOOSE s \in Consolidated(SceneIndexConsolidated(ResultIndex(r))) : TRUE)
            = ResultIndex(r)
      BY <3>1, <3>2
    <3>4. SceneIndexConsolidated(ResultIndex(r)) \in scenes
      BY <3>1
    <3> HIDE DEF Consolidated, scenes
    <3> QED
      BY <3>3, <3>4
  <2> HIDE DEF pyramid_info
  <2>5. CASE source.metadata
    <3>1. output' = [statistics |-> output.statistics,
                     pyramidStatistics |-> output.pyramidStatistics,
                     metadata |-> source.metadata, pyramid_info |-> pyramid_info,
                     attachments |-> output.attachments]
      BY <2>2, <2>3, <2>5, OutputUpdated
    <3> QED
      BY <2>1, <2>4, <3>1 DEF MetadataInv
  <2>6. CASE ~source.metadata
    BY <2>1, <2>2, <2>3, <2>6 DEF MetadataInv
  <2> QED
    BY <2>5, <2>6
<1>5. CASE CopyAttachment
  <2>1. /\ Writing /\ phase = "attachments" /\ phase' = phase
        /\ UNCHANGED <<source, pyramidizing_result>>
        /\ output' = [output EXCEPT !.attachments = @ + 1]
    BY <1>5 DEF CopyAttachment, Writing
  <2>2. IsOutput(output)
    BY <2>1 DEF Inv, OutputInv
  <2>3. output' = [statistics |-> output.statistics,
                   pyramidStatistics |-> output.pyramidStatistics, metadata |-> output.metadata,
                   pyramid_info |-> output.pyramid_info, attachments |-> output.attachments + 1]
    BY <2>1, <2>2, OutputUpdated
  <2> QED
    BY <2>1, <2>3 DEF Inv, MetadataInv
<1> QED
  BY <1>1, <1>2, <1>3, <1>4, <1>5, StepsOfWriting

-----------------------------------------------------------------------------
(* What Close makes a document of.                                         *)

\* The pyramid of each region is whole, and it is as the metadata say.
LEMMA OutputIsWhole ==
  ASSUME Inv, phase = "attachments"
  PROVE  /\ Regions(output.statistics) = RegionsWithData(source.statistics)
         /\ DOMAIN output.pyramidStatistics = Regions(output.statistics)
         /\ \A r \in Regions(output.statistics) :
              /\ BoxOf(output.statistics, r) = BoxOf(source.statistics, r)
              /\ \E n \in Nat : IsReported(r, n)
<1>1. /\ Writing /\ IsWellFormed(source)
      /\ output.statistics = WrittenStatistics(source.statistics)
  BY DEF Writing, Inv, SourceInv, OutputInv
<1>2. /\ Regions(output.statistics) = RegionsWithData(source.statistics)
      /\ \A r \in Regions(output.statistics) :
           BoxOf(output.statistics, r) = BoxOf(source.statistics, r)
  BY <1>1, RegionsWritten
<1>3. ASSUME NEW r \in RegionsWithData(source.statistics)
      PROVE  \E n \in Nat : IsReported(r, n)
  <2>1. ResultIndex(r) \in DOMAIN pyramidizing_result
    BY <1>1 DEF Inv, ResultInv, RegionsToDo, RegionsWithData
  <2> QED
    BY <1>1, <2>1 DEF Inv, ResultInv
<1>4. RegionsWithData(source.statistics) \subseteq DOMAIN output.pyramidStatistics
  BY <1>3 DEF IsReported, HasLayers
<1>5. DOMAIN output.pyramidStatistics \subseteq RegionsWithData(source.statistics)
  BY <1>1 DEF Inv, LayersInv
<1> QED
  BY <1>2, <1>3, <1>4, <1>5

\* What Close writes can be the source of a later run.
LEMMA OutputIsWellFormed ==
  ASSUME Inv, phase = "attachments"
  PROVE  IsWellFormed(output)
<1> DEFINE written == output.statistics
           original == source.statistics
<1>1. /\ IsWellFormed(source) /\ written = WrittenStatistics(original)
      /\ output.attachments \in Nat /\ output.metadata = source.metadata
  BY DEF Writing, Inv, SourceInv, OutputInv, MetadataInv
<1>2. /\ written.boundingBoxLayer0Only = original.boundingBoxLayer0Only
      /\ DOMAIN written.sceneBoundingBoxes \subseteq DOMAIN original.sceneBoundingBoxes
      /\ \A s \in DOMAIN written.sceneBoundingBoxes :
           written.sceneBoundingBoxes[s] = original.sceneBoundingBoxes[s]
  BY <1>1 DEF WrittenStatistics
<1>3. RegionsWithData(written) # {} /\ DOMAIN output.pyramidStatistics = Regions(written)
  BY <1>1, OutputIsWhole, RegionsWritten DEF IsWellFormed
<1>4. \A r \in Regions(written) : \A l \in output.pyramidStatistics[r] :
        l.layer \in Nat /\ l.count \in Nat \ {0}
  BY OutputIsWhole, LayersOf DEF IsReported, HasLayers
<1> QED
  BY <1>1, <1>2, <1>3, <1>4 DEF IsWellFormed
\* Only CreateDestination and Close touch a file.
LEMMA StepsOnFiles ==
  ASSUME [Next]_vars
  PROVE  CreateDestination \/ Close \/ UNCHANGED files
<1>1. \A region : PyramidizeLayer(region) \/ RegionDone(region) \/ DivideByZero(region)
        => UNCHANGED files
  BY DEF PyramidizeLayer, RegionDone, DivideByZero
<1> QED
  BY <1>1 DEF Next, Run, vars, Start, Parse, OpenSource, CheckForNecessityOfPyramid,
       PyramidizeDone, WriteMetadata, CopyAttachment, Fail, Throw, Kill

\* Every document that libmain writes is one that it can read.
LEMMA FilesInvStep == Inv /\ [Next]_vars => FilesInv'
<1> SUFFICES ASSUME Inv, [Next]_vars, NEW name \in DOMAIN files', IsDocumentFile(name)'
             PROVE  IsWellFormed(files'[name])
  BY DEF FilesInv
<1>1. CASE CreateDestination
  <2>1. name \in DOMAIN files /\ name # request.destination /\ files'[name] = files[name]
    BY <1>1 DEF CreateDestination, IsDocumentFile
  <2> QED
    BY <2>1 DEF Inv, FilesInv, IsDocumentFile
<1>2. CASE Close
  <2>1. IsWellFormed(output)
    BY <1>2, OutputIsWellFormed DEF Close
  <2>2. name \in DOMAIN files
        /\ files'[name] = IF name = request.destination THEN output ELSE files[name]
    BY <1>2 DEF Close
  <2> QED
    BY <2>1, <2>2 DEF Inv, FilesInv, IsDocumentFile
<1>3. CASE UNCHANGED files
  BY <1>3 DEF Inv, FilesInv, IsDocumentFile
<1> QED
  BY <1>1, <1>2, <1>3, StepsOnFiles

\* The invariant of libmain and PyramidizerOperation::Execute.
THEOREM InvCorrect == Safety => []Inv
<1>1. Init => Inv
  BY InvInitially
<1>2. Inv /\ TypeOK' /\ [Next]_vars => Inv'
  <2> SUFFICES ASSUME Inv, TypeOK', [Next]_vars PROVE Inv'
    OBVIOUS
  <2>1. DirectoryInv' /\ FilesInv'
    BY DirectoryInvStep, FilesInvStep DEF Inv
  <2>2. CASE Next
    BY <2>1, <2>2, SourceInvStep, OutputInvStep, LayersInvStep, ResultInvStep, MetadataInvStep
       DEF Inv
  <2>3. CASE UNCHANGED vars
    <3>1. SourceInv' /\ OutputInv' /\ LayersInv' /\ ResultInv' /\ MetadataInv'
      BY <2>3 DEF Inv, vars, Writing, SourceInv, OutputInv, LayersInv, ResultInv, MetadataInv,
           IsReported, HasLayers, RegionsToDo
    <3> QED
      BY <2>1, <3>1 DEF Inv
  <2> QED
    BY <2>2, <2>3
<1> QED
  BY <1>1, <1>2, TypeCorrect, PTL DEF Safety

-----------------------------------------------------------------------------
(* The properties.                                                         *)

\* DoPlane makes another layer exactly if the picture of the last one exceeds a
\* tile; that layer 0 is a case of its own in the code makes no difference.
LEMMA NeededIfExceeding ==
  ASSUME NEW box, box.w \in Int, box.h \in Int, NEW tile_size, NEW n
  PROVE  IsAdditionalLayerNeeded(box, tile_size, n) <=> ExceedsTile(box, tile_size, n)
<1>1. 2^0 = 1 /\ box.w \div 1 = box.w /\ box.h \div 1 = box.h
  OBVIOUS
<1>2. CASE n = 0
  <2>1. box.w \div 2^n = box.w /\ box.h \div 2^n = box.h
    BY <1>1, <1>2
  <2> QED
    BY <1>2, <2>1, Zenon DEF IsAdditionalLayerNeeded, IsAbovePyramidThreshold, ExceedsTile
<1>3. CASE n # 0
  BY <1>3, Zenon DEF IsAdditionalLayerNeeded, IsAbovePyramidThreshold, ExceedsTile
<1> QED
  BY <1>2, <1>3

\* A document that appears has whole pyramids.
THEOREM PyramidsAreWhole == Safety => OnlyWholePyramidsAppear
<1> DEFINE Appears ==
      \A name \in DOMAIN files :
        files'[name] \notin {files[name], NoFile, Incomplete} /\ request.tile_size > 0
          => HasWholePyramids(files'[name], request.tile_size)
<1>1. Inv /\ [Next]_vars => [Appears]_vars
  <2> SUFFICES ASSUME Inv, [Next]_vars, NEW name \in DOMAIN files,
                      files'[name] \notin {files[name], NoFile, Incomplete},
                      request.tile_size > 0
               PROVE  HasWholePyramids(files'[name], request.tile_size)
    OBVIOUS
  <2>1. ~CreateDestination
    BY DEF CreateDestination
  <2>2. Close
    BY <2>1, StepsOnFiles
  <2>3. phase = "attachments" /\ files'[name] = output
    BY <2>2 DEF Close
  <2>4. ASSUME NEW r \in Regions(output.statistics)
        PROVE  LET top == TopLayer(output.pyramidStatistics[r])
                   box == BoxOf(output.statistics, r)
               IN  /\ r \in DOMAIN output.pyramidStatistics
                   /\ {l.layer : l \in output.pyramidStatistics[r]} = 0 .. top
                   /\ ~ExceedsTile(box, request.tile_size, top)
                   /\ top > 0 => ExceedsTile(box, request.tile_size, top - 1)
    <3>1. PICK n \in Nat : IsReported(r, n)
      BY <2>3, OutputIsWhole
    <3>2. output.pyramidStatistics[r] = LayersUpTo(n)
      BY <3>1 DEF IsReported, HasLayers
    <3>3. /\ TopLayer(output.pyramidStatistics[r]) = n
          /\ {l.layer : l \in output.pyramidStatistics[r]} = 0 .. n
      BY <3>2, TopLayerOf, LayersOf
    <3>4. BoxOf(output.statistics, r) = BoxOf(source.statistics, r)
      BY <2>3, OutputIsWhole
    <3>5. /\ ~IsAdditionalLayerNeeded(BoxOf(output.statistics, r), request.tile_size, n)
          /\ n > 0 => IsAdditionalLayerNeeded(BoxOf(output.statistics, r), request.tile_size, n - 1)
      BY <3>1, <3>4 DEF IsReported, HasLayers
    <3>6. BoxOf(output.statistics, r).w \in Int /\ BoxOf(output.statistics, r).h \in Int
      BY <2>3, OutputIsWellFormed, RegionIndices
    <3>7. \A k : IsAdditionalLayerNeeded(BoxOf(output.statistics, r), request.tile_size, k)
                <=> ExceedsTile(BoxOf(output.statistics, r), request.tile_size, k)
      BY <3>6, NeededIfExceeding
    <3> QED
      BY <3>1, <3>3, <3>5, <3>7 DEF IsReported, HasLayers
  <2> QED
    BY <2>3, <2>4 DEF HasWholePyramids
<1> QED
  BY <1>1, InvCorrect, PTL DEF Safety, OnlyWholePyramidsAppear

\* What the check has found still holds when the destination is created, and of the
\* exit codes that report it.
ReportInv ==
  /\ ReportsAreTruthful
  /\ phase = "destination" =>
       \/ request.mode = "Always"
       \/ LacksPyramid(files_at_start[request.source], request.threshold)

\* The check's result stays true of the directory until the run ends.
LEMMA ReportInvStep == Inv /\ ReportInv /\ [Next]_vars => ReportInv'
<1> SUFFICES ASSUME Inv, ReportInv, [Next]_vars PROVE ReportInv'
  OBVIOUS
<1> USE DEF Exit, SUCCESS, GENERAL_ERROR, PYRAMIDISNEEDEDED, NOACTIONBECAUSENOPYRAMIDNEEDED,
            INVALID_ARGUMENTS, ABORTED, KILLED, DIVIDED_BY_ZERO, Exited
<1>1. CASE CheckForNecessityOfPyramid
  <2>1. /\ files = files_at_start /\ source = files_at_start[request.source]
        /\ IsWellFormed(source)
        /\ request \in Requests
    BY <1>1 DEF CheckForNecessityOfPyramid, Inv, TypeOK, DirectoryInv, SourceInv
  <2>2. Needs(source, request.threshold) <=> LacksPyramid(source, request.threshold)
    BY <2>1, NeedsIsLacks, LibMainAssumption
  <2>3. request.mode = "Always" \/ request.mode = "OnlyOperateIfPyramidIsNeeded"
    BY <2>1, LibMainAssumption
  <2> QED
    BY <1>1, <2>1, <2>2, <2>3 DEF CheckForNecessityOfPyramid, ReportInv, ReportsAreTruthful
<1>2. CASE Parse
  <2>1. files = files_at_start
    BY <1>2 DEF Parse, Inv, DirectoryInv
  <2> QED
    BY <1>2, <2>1 DEF Parse, ReportInv, ReportsAreTruthful
<1>3. CASE Next /\ ~CheckForNecessityOfPyramid /\ ~Parse
  <2>1. CASE \E region \in NextRegions :
               PyramidizeLayer(region) \/ RegionDone(region) \/ DivideByZero(region)
    BY <2>1 DEF NextRegions, PyramidizeLayer, RegionDone, DivideByZero, ReportInv,
         ReportsAreTruthful
  <2>2. CASE Start \/ OpenSource \/ CreateDestination \/ PyramidizeDone \/ WriteMetadata
    BY <2>2 DEF Start, OpenSource, CreateDestination, PyramidizeDone, WriteMetadata, ReportInv,
         ReportsAreTruthful
  <2>3. CASE CopyAttachment \/ Close \/ Fail \/ Throw \/ Kill
    BY <2>3 DEF CopyAttachment, Close, Fail, Throw, Kill, ReportInv, ReportsAreTruthful
  <2> QED
    BY <1>3, <2>1, <2>2, <2>3 DEF Next, Run
<1>4. CASE UNCHANGED vars
  BY <1>4 DEF vars, ReportInv, ReportsAreTruthful, LacksPyramid
<1> QED
  BY <1>1, <1>2, <1>3, <1>4

\* The invariant of what the exit codes report.
THEOREM ReportInvCorrect == Safety => []ReportInv
<1>1. Init => ReportInv
  BY DEF Init, ReportInv, ReportsAreTruthful, Exited
<1> QED
  BY <1>1, ReportInvStep, InvCorrect, PTL DEF Safety

\* The exit codes 10 and 11 tell the truth, and go with files that nobody touched.
THEOREM ReportsTrue == Safety => []ReportsAreTruthful
BY ReportInvCorrect, PTL DEF ReportInv

\* A directory that a run has changed, before it could end with an exit code of success,
\* differs in its destination, which is incomplete.
TraceInv ==
  /\ FailureLeavesOneTrace
  /\ phase \in {"check", "destination"} \/ Writing =>
       files_at_start[request.source] \notin {NoFile, Incomplete}
  /\ Writing =>
       /\ files = [files_at_start EXCEPT ![request.destination] = Incomplete]
       /\ \/ request.mode = "Always"
          \/ LacksPyramid(files_at_start[request.source], request.threshold)

\* The trace appears with CreateDestination and stays until Close.
LEMMA TraceInvStep == Inv /\ ReportInv /\ TraceInv /\ [Next]_vars => TraceInv'
<1> SUFFICES ASSUME Inv, ReportInv, TraceInv, [Next]_vars PROVE TraceInv'
  OBVIOUS
<1> USE DEF Exit, SUCCESS, GENERAL_ERROR, PYRAMIDISNEEDEDED, NOACTIONBECAUSENOPYRAMIDNEEDED,
            INVALID_ARGUMENTS, ABORTED, KILLED, DIVIDED_BY_ZERO, Exited
<1>1. CASE OpenSource
  <2>1. phase' = "check" /\ UNCHANGED <<files, runs, request, files_at_start>>
    BY <1>1 DEF OpenSource
  <2>2. files_at_start[request.source] \notin {NoFile, Incomplete}
    BY <1>1 DEF OpenSource, CanOpenSource, IsDocumentFile, Inv, DirectoryInv
  <2> QED
    BY <2>1, <2>2 DEF TraceInv, FailureLeavesOneTrace, Writing
<1>2. CASE CheckForNecessityOfPyramid
  <2>1. /\ phase = "check" /\ files = files_at_start
        /\ phase' \in {"destination", "exited"}
        /\ UNCHANGED <<files, runs, request, files_at_start>>
    BY <1>2 DEF CheckForNecessityOfPyramid, Inv, DirectoryInv
  <2> QED
    BY <2>1 DEF TraceInv, FailureLeavesOneTrace, Writing
<1>3. CASE CreateDestination
  <2>1. /\ phase = "destination" /\ phase' = "pyramidize" /\ files = files_at_start
        /\ files' = [files EXCEPT ![request.destination] = Incomplete]
        /\ UNCHANGED <<runs, request, files_at_start>>
    BY <1>3 DEF CreateDestination, Inv, DirectoryInv
  <2> QED
    BY <2>1 DEF TraceInv, ReportInv, FailureLeavesOneTrace, Writing
<1>4. CASE PyramidizeDone \/ WriteMetadata \/ CopyAttachment
  <2>1. Writing /\ Writing' /\ UNCHANGED <<files, runs, request, files_at_start>>
    BY <1>4 DEF PyramidizeDone, WriteMetadata, CopyAttachment, Writing
  <2> QED
    BY <2>1 DEF TraceInv, FailureLeavesOneTrace, Writing
<1>5. CASE Start
  BY <1>5 DEF Start, TraceInv, FailureLeavesOneTrace, Writing
<1>6. CASE Parse
  <2>1. files = files_at_start /\ UNCHANGED <<files, files_at_start>> /\ phase' \in {"open", "exited"}
    BY <1>6 DEF Parse, Inv, DirectoryInv
  <2> QED
    BY <2>1 DEF TraceInv, FailureLeavesOneTrace, Writing
<1>7. CASE Close
  BY <1>7 DEF Close, TraceInv, FailureLeavesOneTrace, Writing
<1>8. ASSUME phase' = "exited", phase # "exited",
             UNCHANGED <<files, runs, request, files_at_start>>
      PROVE  TraceInv'
  <2>1. CASE Writing
    <3>1. /\ files = [files_at_start EXCEPT ![request.destination] = Incomplete]
          /\ request.command = "Pyramidize"
          /\ files_at_start[request.destination] = NoFile \/ request.overwrite
          /\ files_at_start[request.source] \notin {NoFile, Incomplete}
          /\ \/ request.mode = "Always"
             \/ LacksPyramid(files_at_start[request.source], request.threshold)
      BY <2>1 DEF TraceInv, Inv, DirectoryInv, DestinationFree
    <3> QED
      BY <1>8, <3>1 DEF TraceInv, FailureLeavesOneTrace, Writing
  <2>2. CASE ~Writing
    <3>1. files = files_at_start
      BY <1>8, <2>2 DEF Inv, TypeOK, DirectoryInv, Writing
    <3> QED
      BY <1>8, <3>1 DEF TraceInv, FailureLeavesOneTrace, Writing
  <2> QED
    BY <2>1, <2>2
<1>9. CASE Fail \/ Throw \/ Kill
  <2>1. /\ phase' = "exited" /\ phase # "exited"
        /\ UNCHANGED <<files, runs, request, files_at_start>>
    BY <1>9 DEF Fail, Throw, Kill
  <2> QED
    BY <1>8, <2>1
<1>10. ASSUME NEW region \in NextRegions,
              PyramidizeLayer(region) \/ RegionDone(region) \/ DivideByZero(region)
       PROVE  TraceInv'
  <2>1. phase = "pyramidize" /\ UNCHANGED <<files, runs, request, files_at_start>>
    BY <1>10 DEF NextRegions, PyramidizeLayer, RegionDone, DivideByZero
  <2>2. CASE DivideByZero(region)
    BY <1>8, <2>1, <2>2 DEF DivideByZero
  <2>3. CASE PyramidizeLayer(region) \/ RegionDone(region)
    <3>1. UNCHANGED phase
      BY <2>3 DEF PyramidizeLayer, RegionDone
    <3> QED
      BY <2>1, <3>1 DEF TraceInv, FailureLeavesOneTrace, Writing
  <2> QED
    BY <1>10, <2>2, <2>3
<1>11. CASE UNCHANGED vars
  BY <1>11 DEF vars, TraceInv, FailureLeavesOneTrace, Writing, LacksPyramid
<1> QED
  BY <1>1, <1>2, <1>3, <1>4, <1>5, <1>6, <1>7, <1>9, <1>10, <1>11 DEF Next, Run

\* A run that does not come to its end leaves at most an incomplete destination, and
\* only where it was allowed to create one.
THEOREM FailuresLeaveOneTrace == Safety => []FailureLeavesOneTrace
<1>1. Init => TraceInv
  BY DEF Init, TraceInv, FailureLeavesOneTrace, Exited, Writing
<1>2. TraceInv => FailureLeavesOneTrace
  BY DEF TraceInv
<1> QED
  BY <1>1, <1>2, TraceInvStep, InvCorrect, ReportInvCorrect, PTL DEF Safety

\* A document is given up only where it may be, and for a reason.
THEOREM NoDocumentLost == Safety => DocumentsSurvive
<1> DEFINE Survives ==
      \A name \in DOMAIN files :
        IsDocumentFile(name) /\ files'[name] # files[name] =>
          /\ request.command = "Pyramidize" /\ request.overwrite /\ name = request.destination
          /\ \/ request.mode = "Always"
             \/ LacksPyramid(files_at_start[request.source], request.threshold)
<1>1. Inv /\ ReportInv /\ [Next]_vars => [Survives]_vars
  <2> SUFFICES ASSUME Inv, ReportInv, [Next]_vars, NEW name \in DOMAIN files,
                      IsDocumentFile(name), files'[name] # files[name]
               PROVE  /\ request.command = "Pyramidize" /\ request.overwrite
                      /\ name = request.destination
                      /\ \/ request.mode = "Always"
                         \/ LacksPyramid(files_at_start[request.source], request.threshold)
    OBVIOUS
  <2>1. ~Close
    <3> SUFFICES ASSUME Close PROVE FALSE
      OBVIOUS
    <3>1. name = request.destination /\ phase = "attachments"
      BY DEF Close
    <3>2. files[request.destination] = Incomplete
      BY <3>1 DEF Inv, DirectoryInv, Writing
    <3> QED
      BY <3>1, <3>2 DEF IsDocumentFile
  <2>2. CreateDestination
    BY <2>1, StepsOnFiles
  <2>3. phase = "destination" /\ CanCreateDestination /\ name = request.destination
    BY <2>2 DEF CreateDestination
  <2>4. request.overwrite
    BY <2>3 DEF CanCreateDestination, IsDocumentFile
  <2> QED
    BY <2>3, <2>4 DEF Inv, DirectoryInv, ReportInv
<1> QED
  BY <1>1, InvCorrect, ReportInvCorrect, PTL DEF Safety, DocumentsSurvive
\* Close leaves a document that no check objects to, whose metadata describe it.
LEMMA CloseCompletes ==
  ASSUME ~IsOutput(NoFile), ~IsOutput(Incomplete), Inv, Close
  PROVE  SuccessIsComplete'
<1> SUFFICES ASSUME request.tile_size > 0 PROVE SuccessIsComplete'
  BY DEF Close, SuccessIsComplete
<1> DEFINE original == files_at_start[request.source]
           result == output
<1>1. /\ phase = "attachments" /\ Writing /\ output.attachments = source.attachments
      /\ UNCHANGED <<request, files_at_start>>
      /\ files' = [files EXCEPT ![request.destination] = output]
  BY DEF Close, Writing
<1>2. /\ source = original /\ IsWellFormed(source) /\ IsOutput(output)
      /\ request \in Requests /\ request.destination \in DOMAIN files
  BY <1>1 DEF Inv, TypeOK, DirectoryInv, SourceInv, OutputInv
<1>3. files'[request.destination] = result
  BY <1>1, <1>2
<1>4. IsDocumentFile(request.destination)'
  <2>1. output # NoFile /\ output # Incomplete
    BY <1>2
  <2> QED
    BY <1>1, <1>3, <2>1 DEF IsDocumentFile
<1>5. Regions(result.statistics) = RegionsWithData(original.statistics)
  BY <1>1, <1>2, OutputIsWhole
<1>6. ASSUME NEW threshold \in request.tile_size .. IntMax
      PROVE  /\ ~Needs(result, threshold)
             /\ ~NeedsPyramidThrows(result.statistics, result.pyramidStatistics, threshold)
  <2>1. threshold \in Nat /\ request.tile_size \in Nat /\ request.tile_size <= threshold
    BY <1>2, LibMainAssumption, IntBounds
  <2>2. IsWellFormed(result)
    BY <1>1, OutputIsWellFormed
  <2>3. ASSUME NEW r \in RegionsWithData(result.statistics),
               \/ BoxOf(result.statistics, r).w > threshold
               \/ BoxOf(result.statistics, r).h > threshold,
               \A l \in result.pyramidStatistics[r] : l.layer = 0
        PROVE  FALSE
    <3>1. r \in Regions(result.statistics)
      BY DEF RegionsWithData
    <3>2. PICK n \in Nat : IsReported(r, n)
      BY <1>1, <3>1, OutputIsWhole
    <3>3. \A k \in 0 .. n : k = 0
      <4>1. result.pyramidStatistics[r] = LayersUpTo(n)
        BY <3>2 DEF IsReported, HasLayers
      <4> QED
        BY <2>3, <4>1, LayersOf
    <3>4. n = 0
      BY <3>3
    <3>5. ~IsAbovePyramidThreshold(BoxOf(source.statistics, r).w,
                                   BoxOf(source.statistics, r).h, request.tile_size)
      BY <3>2, <3>4 DEF IsReported, IsAdditionalLayerNeeded
    <3>6. BoxOf(result.statistics, r) = BoxOf(source.statistics, r)
      BY <1>1, <3>1, OutputIsWhole
    <3>7. BoxOf(result.statistics, r).w \in Int /\ BoxOf(result.statistics, r).h \in Int
      BY <2>2, <3>1, RegionIndices
    <3> QED
      BY <2>1, <2>3, <3>5, <3>6, <3>7 DEF IsAbovePyramidThreshold
  <2>4. ~LacksPyramid(result, threshold)
    BY <2>3 DEF LacksPyramid
  <2>5. ~Needs(result, threshold)
    BY <2>1, <2>2, <2>4, NeedsIsLacks
  <2>6. RegionsWithData(result.statistics) = Regions(result.statistics)
    BY <1>1, <1>2, RegionsWritten DEF Inv, OutputInv
  <2>7. ~NeedsPyramidThrows(result.statistics, result.pyramidStatistics, threshold)
    BY <2>2, <2>6 DEF NeedsPyramidThrows, IsWellFormed, RegionsWithData, Regions, HasScenes, BoxOf
  <2> QED
    BY <2>5, <2>7
<1>7. result.metadata = original.metadata
  BY <1>1, <1>2 DEF Inv, MetadataInv
<1>8. ASSUME result.metadata, NEW r \in Regions(result.statistics)
      PROVE  {l.layer : l \in result.pyramidStatistics[r]}
               = 0 .. result.pyramid_info[SceneIndexConsolidated(ResultIndex(r))]
  <2>1. PICK n \in Nat : IsReported(r, n)
    BY <1>1, OutputIsWhole
  <2>2. r \in Regions(source.statistics)
    BY <1>2, <1>5 DEF RegionsWithData
  <2>3. result.pyramid_info[SceneIndexConsolidated(ResultIndex(r))] = n
    BY <1>1, <1>8, <2>1, <2>2 DEF Inv, MetadataInv, IsReported
  <2>4. result.pyramidStatistics[r] = LayersUpTo(n)
    BY <2>1 DEF IsReported, HasLayers
  <2> QED
    BY <2>3, <2>4, LayersOf
<1>9. result.attachments = original.attachments
  BY <1>1, <1>2
<1> HIDE DEF original
<1> QED
  BY <1>1, <1>3, <1>4, <1>5, <1>6, <1>7, <1>8, <1>9 DEF SuccessIsComplete, original

\* Exit code 0 of an operation means that all of it was done.  That a document is
\* none of the two marks for a file that is none is the only assumption on them.
THEOREM SuccessComplete ==
  ASSUME ~IsOutput(NoFile), ~IsOutput(Incomplete)
  PROVE  Safety => []SuccessIsComplete
<1>1. Init => SuccessIsComplete
  BY DEF Init, SuccessIsComplete, Exited
<1>2. Inv /\ SuccessIsComplete /\ [Next]_vars => SuccessIsComplete'
  <2> SUFFICES ASSUME Inv, SuccessIsComplete, [Next]_vars, ~Close
               PROVE  SuccessIsComplete'
    BY CloseCompletes
  <2> USE DEF Exit, SUCCESS, GENERAL_ERROR, PYRAMIDISNEEDEDED, NOACTIONBECAUSENOPYRAMIDNEEDED,
              INVALID_ARGUMENTS, ABORTED, KILLED, DIVIDED_BY_ZERO, Exited
  <2> DEFINE Done == Exited(SUCCESS) /\ request.command = "Pyramidize" /\ request.arguments = "ok"
  <2>1. CASE UNCHANGED vars
    BY <2>1 DEF vars, SuccessIsComplete, IsDocumentFile
  <2>2. CASE Next
    <3> SUFFICES ~Done'
      BY Zenon DEF SuccessIsComplete
    <3>1. CASE \E region \in NextRegions :
                 PyramidizeLayer(region) \/ RegionDone(region) \/ DivideByZero(region)
      BY <3>1 DEF NextRegions, PyramidizeLayer, RegionDone, DivideByZero
    <3>2. CASE Start \/ Parse \/ OpenSource \/ CheckForNecessityOfPyramid \/ CreateDestination
      BY <3>2 DEF Start, Parse, OpenSource, CheckForNecessityOfPyramid, CreateDestination
    <3>3. CASE PyramidizeDone \/ WriteMetadata \/ CopyAttachment \/ Fail \/ Throw \/ Kill
      BY <3>3 DEF PyramidizeDone, WriteMetadata, CopyAttachment, Fail, Throw, Kill
    <3> QED
      BY <2>2, <3>1, <3>2, <3>3 DEF Next, Run
  <2> QED
    BY <2>1, <2>2
<1> QED
  BY <1>1, <1>2, InvCorrect, PTL DEF Safety
=============================================================================
