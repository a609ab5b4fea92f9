-------------------------------- MODULE LibMain --------------------------------
(***************************************************************************)
(* libmain and PyramidizerOperation::Execute: runs of the program, one     *)
(* after another, on the files of a directory.  A run may be killed and    *)
(* every call into libCZI may throw; what is left of the destination then  *)
(* is what a later run finds.  Of the pyramid there are the layers of each *)
(* region, written one after the other; DoPyramidize has their tiles.      *)
(***************************************************************************)
EXTENDS CheckForPyramid, FiniteSetsExt

CONSTANTS
  InitialFiles,    \* contents of the directory: functions from names to documents
  Requests,        \* command lines
  MaxRuns,         \* bound on the number of runs
  NoFile,          \* content of a name that does not exist
  Incomplete       \* content of a file that was created and never closed

VARIABLES
  files,           \* the directory
  runs,            \* number of runs started
  phase,           \* where libmain is; "exited" between runs
  request,         \* command_line_options of the run
  source,          \* the document the reader has opened
  pyramidizing_result,  \* of DoPyramidize::Execute: layers by scene index
  output,          \* what the writer has been given so far
  exit_code,       \* of the last run
  files_at_start   \* history: the directory when the run was started

vars == <<files, runs, phase, request, source, pyramidizing_result, output, exit_code,
          files_at_start>>

\* libpyramidizer.h
SUCCESS                        == 0
GENERAL_ERROR                  == 1
PYRAMIDISNEEDEDED              == 10
NOACTIONBECAUSENOPYRAMIDNEEDED == 11
INVALID_ARGUMENTS              == 99

\* What a shell reports of a process that std::terminate or a signal has ended.
ABORTED == 134
KILLED  == 137
DIVIDED_BY_ZERO == 136

IsDocumentFile(name) == files[name] # NoFile /\ files[name] # Incomplete

Needs(document, threshold) ==
  NeedsPyramid(document.statistics, document.pyramidStatistics, threshold)

\* The regions of a document, and the rectangle of each.
Regions(statistics) ==
  IF HasScenes(statistics) THEN DOMAIN statistics.sceneBoundingBoxes ELSE {IntMax}

BoxOf(statistics, region) ==
  IF HasScenes(statistics) THEN statistics.sceneBoundingBoxes[region]
  ELSE statistics.boundingBoxLayer0Only

\* The regions of a document that have a layer 0.
RegionsWithData(statistics) ==
  {r \in Regions(statistics) : ~IsUnknown(BoxOf(statistics, r))}

\* A document libCZI has opened: rectangles are sizes or unknown, there is a layer
\* 0 and its overall rectangle covers the scenes', and libCZI counts the sub-blocks
\* of each region by layers.
IsRectangle(rectangle) ==
  rectangle.w \in Int /\ rectangle.h \in Int /\ (rectangle.w >= 0 <=> rectangle.h >= 0)

IsWellFormed(document) ==
  LET statistics == document.statistics
      overall    == statistics.boundingBoxLayer0Only
  IN  /\ IsRectangle(overall) /\ ~IsUnknown(overall)
      /\ \A s \in DOMAIN statistics.sceneBoundingBoxes :
           LET box == statistics.sceneBoundingBoxes[s]
           IN  /\ s \in Int /\ s # IntMin /\ s # IntMax
               /\ IsRectangle(box) /\ box.w <= overall.w /\ box.h <= overall.h
      /\ RegionsWithData(statistics) # {}
      /\ DOMAIN document.pyramidStatistics = Regions(statistics)
      /\ \A r \in Regions(statistics) : \A l \in document.pyramidStatistics[r] :
           l.layer \in Nat /\ l.count \in Nat \ {0}
      /\ document.metadata \in BOOLEAN /\ document.attachments \in Nat

ASSUME LibMainAssumption ==
  /\ MaxRuns \in Nat
  /\ Requests # {}
  /\ NoFile # Incomplete
  /\ \A r \in Requests :
       /\ r.command \in {"CheckOnly", "Pyramidize"}
       /\ r.mode \in {"Always", "OnlyOperateIfPyramidIsNeeded"}
       /\ r.threshold \in Nat /\ r.tile_size \in Nat
  /\ \A f \in InitialFiles :
       /\ \A r \in Requests : r.source \in DOMAIN f /\ r.destination \in DOMAIN f
       /\ \A name \in DOMAIN f : f[name] \notin {NoFile, Incomplete} => IsWellFormed(f[name])

IsAbovePyramidThreshold(width, height, tile_size) == width > tile_size \/ height > tile_size

\* DoPlane makes another layer on top of layer n.
IsAdditionalLayerNeeded(box, tile_size, n) ==
  IF n = 0 THEN IsAbovePyramidThreshold(box.w, box.h, tile_size)
  ELSE IsAbovePyramidThreshold(box.w \div 2^n, box.h \div 2^n, tile_size)

\* What of a source's statistics the copy of its layer 0 keeps: a scene without
\* one is gone.
WrittenStatistics(statistics) ==
  LET scenes == DOMAIN statistics.sceneBoundingBoxes
      kept   == {s \in scenes : ~IsUnknown(statistics.sceneBoundingBoxes[s])}
  IN  [boundingBoxLayer0Only |-> statistics.boundingBoxLayer0Only,
       sceneBoundingBoxes |-> [s \in kept |-> statistics.sceneBoundingBoxes[s]],
       dimBounds |-> IF kept = scenes THEN statistics.dimBounds
                     ELSE [statistics.dimBounds EXCEPT !["S"] =
                             [start |-> Min(kept), size |-> Max(kept) - Min(kept) + 1]]]

\* The highest layer of a set of layers.
TopLayer(layers) == (CHOOSE l \in layers : \A k \in layers : k.layer <= l.layer).layer

\* The index of a region in the pyramid statistics (IntMax: no scene), as
\* DoPyramidize names it (IntMin), and as WriteMetadata does.
ResultIndex(region) == IF region = IntMax THEN IntMin ELSE region
SceneIndexConsolidated(scene_index) == IF scene_index = IntMin THEN 0 ELSE scene_index

Exit(code) ==
  /\ phase' = "exited"
  /\ exit_code' = code

-----------------------------------------------------------------------------
Init ==
  /\ files \in InitialFiles
  /\ runs = 0
  /\ phase = "exited"
  /\ request = CHOOSE r \in Requests : TRUE
  /\ source = NoFile
  /\ pyramidizing_result = [s \in {} |-> 0]
  /\ output = NoFile
  /\ exit_code = SUCCESS
  /\ files_at_start = files

\* A user starts the program.
Start ==
  /\ phase = "exited"
  /\ runs < MaxRuns
  /\ runs' = runs + 1
  /\ request' \in Requests
  /\ phase' = "parse"
  /\ source' = NoFile
  /\ pyramidizing_result' = [s \in {} |-> 0]
  /\ output' = NoFile
  /\ files_at_start' = files
  /\ UNCHANGED <<files, exit_code>>

\* CommandLineOptions::Parse, which libmain calls outside of its try block.
Parse ==
  /\ phase = "parse"
  /\ CASE request.arguments = "help"     -> Exit(SUCCESS)
       [] request.arguments = "invalid"  -> Exit(INVALID_ARGUMENTS)
       [] request.arguments = "throwing" -> Exit(ABORTED)
       [] OTHER -> phase' = "open" /\ UNCHANGED exit_code
  /\ UNCHANGED <<files, runs, request, source, pyramidizing_result, output, files_at_start>>

CanOpenSource == IsDocumentFile(request.source)

\* Mutant: the destination is created along with the source's reader.
OpenSourceAndDestination ==
  /\ phase = "open"
  /\ CanOpenSource
  /\ source' = files[request.source]
  /\ files' = [files EXCEPT ![request.destination] = Incomplete]
  /\ phase' = "check"
  /\ UNCHANGED <<runs, request, pyramidizing_result, output, exit_code, files_at_start>>

\* CreateSourceStream and ICZIReader::Open.
OpenSource ==
  /\ phase = "open"
  /\ CanOpenSource
  /\ source' = files[request.source]
  /\ phase' = "check"
  /\ UNCHANGED <<files, runs, request, pyramidizing_result, output, exit_code, files_at_start>>

IsCheckAskedFor ==
  request.command = "CheckOnly" \/ request.mode = "OnlyOperateIfPyramidIsNeeded"

CanCheck ==
  IsCheckAskedFor =>
    ~NeedsPyramidThrows(source.statistics, source.pyramidStatistics, request.threshold)

\* Command CheckOnly ends here; so does Pyramidize if there is nothing to do.
CheckForNecessityOfPyramid ==
  /\ phase = "check"
  /\ CanCheck
  /\ LET needed == Needs(source, request.threshold)
     IN  IF request.command = "CheckOnly"
         THEN Exit(IF needed THEN PYRAMIDISNEEDEDED ELSE SUCCESS)
         ELSE IF request.mode = "OnlyOperateIfPyramidIsNeeded" /\ ~needed
              THEN Exit(NOACTIONBECAUSENOPYRAMIDNEEDED)
              ELSE phase' = "destination" /\ UNCHANGED exit_code
  /\ UNCHANGED <<files, runs, request, source, pyramidizing_result, output, files_at_start>>

\* Without --overwrite there must be no such file.
CanCreateDestination == request.overwrite \/ files[request.destination] = NoFile

\* Mutant: --overwrite does not matter.
CreateDestinationAlways ==
  /\ phase = "destination"
  /\ files' = [files EXCEPT ![request.destination] = Incomplete]
  /\ output' = [statistics |-> WrittenStatistics(source.statistics), pyramidStatistics |-> [r \in {} |-> {}],
                metadata |-> FALSE, pyramid_info |-> [s \in {} |-> 0], attachments |-> 0]
  /\ phase' = "pyramidize"
  /\ UNCHANGED <<runs, request, source, pyramidizing_result, exit_code, files_at_start>>

\* get_destination_stream_functor and ICziWriter::Create: the file is created,
\* or emptied.
CreateDestination ==
  /\ phase = "destination"
  /\ CanCreateDestination
  /\ files' = [files EXCEPT ![request.destination] = Incomplete]
  /\ output' = [statistics |-> WrittenStatistics(source.statistics), pyramidStatistics |-> [r \in {} |-> {}],
                metadata |-> FALSE, pyramid_info |-> [s \in {} |-> 0], attachments |-> 0]
  /\ phase' = "pyramidize"
  /\ UNCHANGED <<runs, request, source, pyramidizing_result, exit_code, files_at_start>>

\* The sub-blocks are read from the source file, which may have been emptied
\* meanwhile, and the plane enumerator rejects some documents.
CanPyramidize == IsDocumentFile(request.source) /\ Enumerable(source.statistics)

\* The regions whose layers are not complete yet, and the first of them.
RegionsToDo ==
  {r \in Regions(source.statistics) : ResultIndex(r) \notin DOMAIN pyramidizing_result}

NextRegions ==
  IF phase # "pyramidize" THEN {}
  ELSE {r \in RegionsToDo : \A other \in RegionsToDo : r <= other}

LayersWritten(region) ==
  IF region \in DOMAIN output.pyramidStatistics THEN output.pyramidStatistics[region] ELSE {}

NumberOfPyramidLayers(layers) == IF layers = {} THEN 0 ELSE TopLayer(layers)

\* A scene without a layer 0 has no tiles either.  Division by a tile size of 0 is
\* undefined; where it gives 0, there are no tiles.
IsRegionComplete(region) ==
  LET box == BoxOf(source.statistics, region)
  IN  IF LayersWritten(region) = {} THEN IsUnknown(box)
      ELSE request.tile_size > 0 =>
             ~IsAdditionalLayerNeeded(box, request.tile_size, TopLayer(LayersWritten(region)))

\* DoLayer0 and the loop over the layers: copying or decimating gives the region
\* one more layer.
PyramidizeLayer(region) ==
  /\ CanPyramidize
  /\ ~IsRegionComplete(region)
  /\ LET layers == LayersWritten(region)
         layer  == IF layers = {} THEN 0 ELSE TopLayer(layers) + 1
     IN  output' = [output EXCEPT !.pyramidStatistics =
           [r \in DOMAIN @ \cup {region} |->
              IF r = region THEN layers \cup {[layer |-> layer, count |-> 1]} ELSE @[r]]]
  /\ UNCHANGED <<files, runs, phase, request, source, pyramidizing_result, exit_code,
                 files_at_start>>

\* The plane's number of layers.
RegionDone(region) ==
  /\ CanPyramidize
  /\ IsRegionComplete(region)
  /\ pyramidizing_result' =
       [s \in DOMAIN pyramidizing_result \cup {ResultIndex(region)} |->
          IF s = ResultIndex(region) THEN NumberOfPyramidLayers(LayersWritten(region))
          ELSE pyramidizing_result[s]]
  /\ UNCHANGED <<files, runs, phase, request, source, output, exit_code, files_at_start>>

\* The other outcome of the division, in TilingEnumerator::GetNumberOfTiles.
DivideByZero(region) ==
  /\ CanPyramidize
  /\ request.tile_size = 0 /\ IsRegionComplete(region)
  /\ Exit(DIVIDED_BY_ZERO)
  /\ UNCHANGED <<files, runs, request, source, pyramidizing_result, output, files_at_start>>

\* DoPyramidize::Execute returns.
PyramidizeDone ==
  /\ phase = "pyramidize" /\ RegionsToDo = {}
  /\ phase' = "metadata"
  /\ UNCHANGED <<files, runs, request, source, pyramidizing_result, output, exit_code,
                 files_at_start>>

\* WriteMetadata: the source's, with the pyramid information of each region.
WriteMetadata ==
  /\ phase = "metadata"
  /\ LET Consolidated(i) ==
           {s \in DOMAIN pyramidizing_result : SceneIndexConsolidated(s) = i}
         scenes == {SceneIndexConsolidated(s) : s \in DOMAIN pyramidizing_result}
         pyramid_info ==
           [i \in DOMAIN source.pyramid_info \cup scenes |->
              IF i \in scenes
              THEN pyramidizing_result[CHOOSE s \in Consolidated(i) : TRUE]
              ELSE source.pyramid_info[i]]
     IN  output' = IF source.metadata
                   THEN [output EXCEPT !.pyramid_info = pyramid_info, !.metadata = source.metadata]
                   ELSE output
  /\ phase' = "attachments"
  /\ UNCHANGED <<files, runs, request, source, pyramidizing_result, exit_code, files_at_start>>

\* Mutant: after the last attachment comes the first.
CopyAttachmentsInCircles ==
  /\ phase = "attachments"
  /\ output.attachments < source.attachments
  /\ output' = [output EXCEPT !.attachments = (@ + 1) % source.attachments]
  /\ UNCHANGED <<files, runs, phase, request, source, pyramidizing_result, exit_code,
                 files_at_start>>

CopyAttachment ==
  /\ phase = "attachments"
  /\ output.attachments < source.attachments
  /\ output' = [output EXCEPT !.attachments = @ + 1]
  /\ UNCHANGED <<files, runs, phase, request, source, pyramidizing_result, exit_code,
                 files_at_start>>

\* Mutant: not all attachments are waited for.
CloseEarly ==
  /\ phase = "attachments"
  /\ files' = [files EXCEPT ![request.destination] = output]
  /\ Exit(SUCCESS)
  /\ UNCHANGED <<runs, request, source, pyramidizing_result, output, files_at_start>>

\* ICziWriter::Close makes a document of the file.
Close ==
  /\ phase = "attachments"
  /\ output.attachments = source.attachments
  /\ files' = [files EXCEPT ![request.destination] = output]
  /\ Exit(SUCCESS)
  /\ UNCHANGED <<runs, request, source, pyramidizing_result, output, files_at_start>>

\* A step that cannot be done throws; libmain catches the exception.
Fail ==
  /\ \/ phase = "open" /\ ~CanOpenSource
     \/ phase = "check" /\ ~CanCheck
     \/ phase = "destination" /\ ~CanCreateDestination
     \/ phase = "pyramidize" /\ RegionsToDo # {} /\ ~CanPyramidize
  /\ Exit(GENERAL_ERROR)
  /\ UNCHANGED <<files, runs, request, source, pyramidizing_result, output, files_at_start>>

\* Mutants: the exception gets an exit code of its own; the destination is
\* removed, created by this run or not.
ThrowOwnExitCode ==
  /\ phase \notin {"exited", "parse"}
  /\ Exit(2)
  /\ UNCHANGED <<files, runs, request, source, pyramidizing_result, output, files_at_start>>

ThrowAndCleanUp ==
  /\ phase \notin {"exited", "parse"}
  /\ Exit(GENERAL_ERROR)
  /\ files' = [files EXCEPT ![request.destination] = NoFile]
  /\ UNCHANGED <<runs, request, source, pyramidizing_result, output, files_at_start>>

\* Mutant: the writer is closed on the way out.
ThrowAndClose ==
  /\ phase \notin {"exited", "parse"}
  /\ Exit(GENERAL_ERROR)
  /\ files' = IF phase = "pyramidize" THEN [files EXCEPT ![request.destination] = output] ELSE files
  /\ UNCHANGED <<runs, request, source, pyramidizing_result, output, files_at_start>>

\* Any other call into libCZI or the operating system may throw as well.
Throw ==
  /\ phase \notin {"exited", "parse"}
  /\ Exit(GENERAL_ERROR)
  /\ UNCHANGED <<files, runs, request, source, pyramidizing_result, output, files_at_start>>

\* The process is killed.
Kill ==
  /\ phase # "exited"
  /\ Exit(KILLED)
  /\ UNCHANGED <<files, runs, request, source, pyramidizing_result, output, files_at_start>>

Run ==
  \/ Parse
  \/ OpenSource
  \/ CheckForNecessityOfPyramid
  \/ CreateDestination
  \/ \E region \in NextRegions :
       PyramidizeLayer(region) \/ RegionDone(region) \/ DivideByZero(region)
  \/ PyramidizeDone
  \/ WriteMetadata
  \/ CopyAttachment
  \/ Close
  \/ Fail

Next == Start \/ Run \/ Throw \/ Kill

Safety == Init /\ [][Next]_vars

\* One thread takes a run to its end; nobody has to start or to kill a run, and
\* nothing has to go wrong.
Spec == Safety /\ WF_vars(Run)

-----------------------------------------------------------------------------
(* Properties.                                                             *)

\* The run has ended, with this exit code.
Exited(code) == runs > 0 /\ phase = "exited" /\ exit_code = code

TypeOK ==
  /\ runs \in 0 .. MaxRuns
  /\ phase \in {"parse", "open", "check", "destination", "pyramidize", "metadata",
                "attachments", "exited"}
  /\ request \in Requests
  /\ exit_code \in {SUCCESS, GENERAL_ERROR, PYRAMIDISNEEDEDED, NOACTIONBECAUSENOPYRAMIDNEEDED,
                    INVALID_ARGUMENTS, ABORTED, KILLED, DIVIDED_BY_ZERO}
  /\ DOMAIN files = DOMAIN files_at_start

\* A region with a layer 0 larger than the threshold has no layer above it.
LacksPyramid(document, threshold) ==
  \E r \in RegionsWithData(document.statistics) :
    /\ \/ BoxOf(document.statistics, r).w > threshold
       \/ BoxOf(document.statistics, r).h > threshold
    /\ \A l \in document.pyramidStatistics[r] : l.layer = 0

\* A picture of this size, halved so many times, is larger than a tile.
ExceedsTile(box, tile_size, halvings) ==
  box.w \div 2^halvings > tile_size \/ box.h \div 2^halvings > tile_size

\* In each region the layers lead without a gap from layer 0 to one that fits
\* into a tile, and no further.
HasWholePyramids(document, tile_size) ==
  \A r \in Regions(document.statistics) :
    LET box == BoxOf(document.statistics, r)
        top == TopLayer(document.pyramidStatistics[r])
    IN  /\ r \in DOMAIN document.pyramidStatistics
        /\ {l.layer : l \in document.pyramidStatistics[r]} = 0 .. top
        /\ ~ExceedsTile(box, tile_size, top)
        /\ top > 0 => ExceedsTile(box, tile_size, top - 1)

\* Exit code 0 of an operation means that all of its steps were done: the
\* destination is a document with all data, with the pyramid the source calls
\* for, with what its metadata says of it, and with every attachment; a check
\* of it, whatever the threshold, says that there is nothing left to do.
SuccessIsComplete ==
  Exited(SUCCESS) /\ request.command = "Pyramidize" /\ request.arguments = "ok"
  /\ request.tile_size > 0 =>
    LET original == files_at_start[request.source]
        result   == files[request.destination]
    IN  /\ IsDocumentFile(request.destination)
        /\ Regions(result.statistics) = RegionsWithData(original.statistics)
        /\ result.attachments = original.attachments
        /\ \A threshold \in request.tile_size .. IntMax :
             /\ ~Needs(result, threshold)
             /\ ~NeedsPyramidThrows(result.statistics, result.pyramidStatistics, threshold)
        /\ result.metadata = original.metadata
        /\ result.metadata => \A r \in Regions(result.statistics) :
             {l.layer : l \in result.pyramidStatistics[r]}
                = 0 .. result.pyramid_info[SceneIndexConsolidated(ResultIndex(r))]

\* The other exit codes that report on the document mean that no file was
\* touched, and that the document is as they say.
ReportsAreTruthful ==
  /\ Exited(INVALID_ARGUMENTS) \/ Exited(ABORTED) => files = files_at_start
  /\ Exited(NOACTIONBECAUSENOPYRAMIDNEEDED) =>
       files = files_at_start /\ ~LacksPyramid(files[request.source], request.threshold)
  /\ Exited(PYRAMIDISNEEDEDED) =>
       files = files_at_start /\ LacksPyramid(files[request.source], request.threshold)

\* No run, however it ends, leaves a document with a pyramid in pieces: what
\* CheckForPyramid accepts by its first layer is then whole, if it is ours.
OnlyWholePyramidsAppear ==
  [][\A name \in DOMAIN files :
       files'[name] \notin {files[name], NoFile, Incomplete} /\ request.tile_size > 0
         => HasWholePyramids(files'[name], request.tile_size)]_vars

\* A run that fails, is killed or divides by zero, whenever it does, leaves the
\* directory as it was but for one trace: its destination is incomplete.  It may leave
\* that only over a free or overwritable name, and for a source that was read and
\* not found to need nothing: so for one that is rejected only afterwards, too.
FailureLeavesOneTrace ==
  files # files_at_start
  /\ (Exited(GENERAL_ERROR) \/ Exited(KILLED) \/ Exited(DIVIDED_BY_ZERO)) =>
    /\ files = [files_at_start EXCEPT ![request.destination] = Incomplete]
    /\ request.command = "Pyramidize"
    /\ files_at_start[request.destination] = NoFile \/ request.overwrite
    /\ files_at_start[request.source] \notin {NoFile, Incomplete}
    /\ \/ request.mode = "Always"
       \/ LacksPyramid(files_at_start[request.source], request.threshold)

\* A file that was left incomplete is replaced only by a run that was told to
\* overwrite: a plain retry after a failure or a crash cannot succeed.
RetryNeedsOverwrite ==
  Exited(SUCCESS) /\ request.command = "Pyramidize" /\ request.arguments = "ok" =>
    files_at_start[request.destination] = NoFile \/ request.overwrite

\* A document is given up only as the destination of an operation that may
\* overwrite it, and only after the source was read and found to need one.
DocumentsSurvive ==
  [][\A name \in DOMAIN files :
       IsDocumentFile(name) /\ files'[name] # files[name] =>
         /\ request.command = "Pyramidize" /\ request.overwrite /\ name = request.destination
         /\ \/ request.mode = "Always"
            \/ LacksPyramid(files_at_start[request.source], request.threshold)]_vars

\* "99 - There was an error parsing the command-line arguments."
\* (docs/usage/cli.md:97)
ParseErrorHasExitCode ==
  runs > 0 /\ phase = "exited" /\ request.arguments \in {"invalid", "throwing"}
    => exit_code \in {INVALID_ARGUMENTS, KILLED}

\* "The following exit codes are returned from the application:" 0, 1, 10, 11 and
\* 99 (docs/usage/cli.md:87-97), for arguments that Parse accepts.
AcceptedArgumentsHaveExitCode ==
  runs > 0 /\ phase = "exited" /\ request.arguments = "ok"
    => exit_code \in {SUCCESS, GENERAL_ERROR, PYRAMIDISNEEDEDED,
                      NOACTIONBECAUSENOPYRAMIDNEEDED, INVALID_ARGUMENTS, KILLED}

\* "'IfNeeded' meaning that a pyramid generation is attempted irrespective
\* whether a pyramid is present in the source" (docs/usage/cli.md:34).
IfNeededAttemptsRegardless ==
  Exited(NOACTIONBECAUSENOPYRAMIDNEEDED) =>
    LET statistics == files[request.source].statistics
    IN  ~CheckOverallBoundingBoxForNecessityOfPyramid(statistics, request.threshold)
        \/ (HasScenes(statistics) /\ ScenesAboveThreshold(statistics, request.threshold) = {})

\* Every run ends.
RunEnds == phase # "exited" ~> phase = "exited"
=============================================================================
