------------------------------ MODULE CommandLine ------------------------------
(***************************************************************************)
(* A command line on its way to the pyramid: CommandLineOptions::Parse     *)
(* fills the options step by step, libmain opens the source with them, and *)
(* PyramidizerOperation::Execute turns them, with what the source says of  *)
(* itself, into the Context: the compression and the background of the     *)
(* tiles.  What Execute does with files in between is in LibMain.          *)
(*                                                                         *)
(* A command line is a record: of an option only what Parse tells apart is *)
(* kept, and "none" stands for one that is not given.  A source has a      *)
(* sequence of sub-blocks, and in its metadata up to two lists of channels *)
(* with their illuminations: display_setting and dimensions are sets of at *)
(* most one list.                                                          *)
(***************************************************************************)
EXTENDS Integers, Sequences

CONSTANTS
  Lines,           \* command lines
  Documents,       \* sources: [blocks, display_setting, dimensions]
  PropertyTypes    \* libCZI's table of stream properties: name -> type

CompressionModes == {"UnCompressed", "Jpg", "JpgXr", "Zstd0", "Zstd1", "Invalid"}

\* A member of a property bag; of its value only what tells values apart.
Members == [name : STRING, type : STRING, value : Nat]

IsLine(l) ==
  /\ {l.help, l.unknown_option, l.version, l.check_only} \subseteq BOOLEAN
  /\ {l.source, l.destination} \subseteq {"none", "utf8", "not utf8"}
  /\ l.stream_class \in BOOLEAN
  /\ l.compression \in {"none", "uncompressed", "jpgxr", "zstd0", "zstd1", "nonsense"}
  /\ l.background \in {"none", "black", "white", "auto", "nonsense"}
  /\ l.tile_size \in Int /\ l.threshold \in Int
  /\ l.bag.kind \in {"none", "not an object", "object"} /\ l.bag.members \in Seq(Members)
  /\ l.bag.kind # "object" => l.bag.members = <<>>

IsSource(d) ==
  /\ d.blocks \in Seq([compression : CompressionModes, pyramid : BOOLEAN])
  /\ \A lists \in {d.display_setting, d.dimensions} : \A l \in lists : l \in Seq(STRING)

ASSUME CommandLineAssumption ==
  (\A l \in Lines : IsLine(l)) /\ (\A d \in Documents : IsSource(d))

VARIABLES
  line, document,  \* what the program is given
  pc,              \* where it is
  parse_result,    \* "OK", "Exit", "Error", "throws", or "none" yet
  options,         \* the members of CommandLineOptions
  members,         \* of the property bag, still to be read
  stream,          \* how the source is opened: [class, bag]
  context,         \* Context: [compression, white]
  printed,         \* compression in "Operational Parameters"
  tile             \* compression of the tile written

vars == <<line, document, pc, parse_result, options, members, stream, context, printed, tile>>

given    == <<line, document>>
operation == <<stream, context, printed, tile>>

\* The members as the class initializes them.
DefaultOptions ==
  [command |-> "Invalid", bag |-> [n \in {} |-> 0], compression |-> "Invalid",
   background |-> [mode |-> "Auto", white_or_black |-> FALSE],
   tile_size |-> 1024, threshold |-> 4096]

Init ==
  /\ line \in Lines
  /\ document \in Documents
  /\ pc = "parse"
  /\ parse_result = "none"
  /\ options = DefaultOptions
  /\ members = <<>>
  /\ stream = [class |-> "none", bag |-> [n \in {} |-> 0]]
  /\ context = [compression |-> "none", white |-> FALSE]
  /\ printed = "none"
  /\ tile = "none"

Goto(step) == pc' = step /\ UNCHANGED parse_result

Return(result) ==
  /\ parse_result' = result
  /\ pc' = IF result = "OK" THEN "open" ELSE "ended"

-----------------------------------------------------------------------------
(* CommandLineOptions::Parse.                                              *)

\* TryParseCompressionOptions, for those that libCZI knows.
CompressionOfOption ==
  [uncompressed |-> "UnCompressed", jpgxr |-> "JpgXr", zstd0 |-> "Zstd0", zstd1 |-> "Zstd1"]

\* Mutant: a validator that only looks whether there is a value.
RefusedByValidatorUnparsed ==
  line.unknown_option \/ line.tile_size < 0 \/ line.threshold <= 0

\* What CLI11 refuses: an unknown option, or a value a validator of Parse refuses.
RefusedByValidator ==
  \/ line.unknown_option
  \/ line.compression \notin DOMAIN CompressionOfOption \cup {"none"}
  \/ line.background \notin {"none", "black", "white", "auto"}
  \/ line.tile_size < 0       \* CLI::NonNegativeNumber
  \/ line.threshold <= 0      \* CLI::PositiveNumber

\* app.parse; if help is asked for and an option refused, CLI11 may report either.
AppParse ==
  /\ pc = "parse"
  /\ \/ line.help /\ Return("Exit")
     \/ RefusedByValidator /\ Return("Error")
     \/ ~line.help /\ ~RefusedByValidator /\ Goto("version")
  /\ UNCHANGED <<given, options, members, operation>>

\* --version ends the program; a source is needed for anything else.  A source
\* that is not UTF-8 makes utf8_to_wstring throw.
SetSource ==
  /\ pc = "version"
  /\ IF line.version               THEN Return("Exit")
     ELSE IF line.source = "none"  THEN Return("Error")
     ELSE IF line.source # "utf8"  THEN Return("throws")
     ELSE IF line.bag.kind = "not an object" THEN Return("throws")
     ELSE Goto("bag")
  /\ members' = line.bag.members
  /\ UNCHANGED <<given, options, operation>>

Known(member) ==
  member.name \in DOMAIN PropertyTypes /\ PropertyTypes[member.name] = member.type

\* map::insert: the first member of a name stays.
Inserted(bag, member) ==
  [n \in DOMAIN bag \cup {member.name} |->
     IF n \in DOMAIN bag THEN bag[n] ELSE member.value]

\* Mutant: a member that is not known ends the loop, but not the function.
ParseMembersUntilUnknown ==
  /\ pc = "bag" /\ members # <<>>
  /\ IF Known(Head(members))
     THEN /\ options' = [options EXCEPT !.bag = Inserted(@, Head(members))]
          /\ members' = Tail(members)
     ELSE members' = <<>> /\ UNCHANGED options
  /\ Goto("bag")
  /\ UNCHANGED <<given, operation>>

\* TryParseInputStreamCreationPropertyBag, for one member.
ParseMember ==
  /\ pc = "bag" /\ members # <<>>
  /\ LET member == Head(members)
     IN  IF Known(member)
         THEN /\ options' = [options EXCEPT !.bag = Inserted(@, member)]
              /\ members' = Tail(members)
              /\ Goto("bag")
         ELSE Return("throws") /\ UNCHANGED <<options, members>>
  /\ UNCHANGED <<given, operation>>

\* TryParseBackgroundColorOption leaves white_or_black uninitialized for "auto".
ParseBackground(option) ==
  CASE option = "none"  -> {DefaultOptions.background}
    [] option = "auto"  -> [mode : {"Auto"}, white_or_black : BOOLEAN]
    [] option = "black" -> [mode : {"UseFixed"}, white_or_black : {FALSE}]
    [] option = "white" -> [mode : {"UseFixed"}, white_or_black : {TRUE}]
    [] OTHER            -> {}

\* The options the validators have let through; then the command.
SetOptions ==
  /\ pc = "bag" /\ members = <<>>
  /\ IF \/ line.compression \notin DOMAIN CompressionOfOption \cup {"none"}
        \/ ParseBackground(line.background) = {}
        \/ line.threshold < 0     \* gsl::narrow
     THEN Return("throws") /\ UNCHANGED options
     ELSE \E background \in ParseBackground(line.background) :
            /\ options' = [options EXCEPT
                 !.compression = IF line.compression = "none" THEN @
                                 ELSE CompressionOfOption[line.compression],
                 !.background = background,
                 !.tile_size = line.tile_size,
                 !.threshold = line.threshold,
                 !.command = IF line.check_only THEN "CheckOnly"
                             ELSE IF line.destination = "utf8" THEN "Pyramidize" ELSE @]
            /\ Return(IF line.check_only \/ line.destination = "utf8" THEN "OK"
                      ELSE IF line.destination = "none" THEN "Error" ELSE "throws")
  /\ UNCHANGED <<given, members, operation>>

-----------------------------------------------------------------------------
(* libmain and PyramidizerOperation::Execute.                              *)

\* The property bag is only for the stream classes of the factory.
CreateSourceStream ==
  /\ pc = "open"
  /\ stream' = IF line.stream_class THEN [class |-> "given", bag |-> options.bag]
               ELSE [class |-> "file", bag |-> [n \in {} |-> 0]]
  /\ pc' = IF options.command = "CheckOnly" THEN "ended" ELSE "context"
  /\ UNCHANGED <<given, parse_result, options, members, context, printed, tile>>

AllChannelsAre(illuminations, channels) ==
  \A i \in DOMAIN channels : channels[i] \in illuminations

\* The channels of DisplaySetting have to be at least one, those of Dimensions
\* need not.
DetermineWhetherBackgroundShouldBeWhite ==
  \/ \E channels \in document.display_setting :
       channels # <<>> /\ AllChannelsAre({"Transmitted", "Reflected"}, channels)
  \/ \E channels \in document.dimensions :
       AllChannelsAre({"Transmitted", "Oblique"}, channels)

\* Mutant: the member is read whatever the mode.
WhiteBackgroundWhateverMode ==
  IF options.background.white_or_black THEN TRUE
  ELSE DetermineWhetherBackgroundShouldBeWhite

WhiteBackground ==
  IF options.background.mode = "UseFixed" THEN options.background.white_or_black
  ELSE DetermineWhetherBackgroundShouldBeWhite

\* Mutant: the sub-blocks of an old pyramid count as well.
SubBlocksOfAllLayers == DOMAIN document.blocks

\* What EnumSubset enumerates with onlyLayer0, in ascending order.
SubBlocksOfLayer0 == {i \in DOMAIN document.blocks : ~document.blocks[i].pyramid}

\* Mutant: every compression of the source is taken over.
SupportedForTilesOrJpg == CompressionModes \ {"Invalid"}

\* The cases of the switch; "nullopt" for others.
SupportedForTiles == {"JpgXr", "Zstd0", "Zstd1", "UnCompressed"}

TryToDetermineCompressionMode ==
  IF options.compression # "Invalid" \/ SubBlocksOfLayer0 = {} THEN "nullopt"
  ELSE LET first == CHOOSE i \in SubBlocksOfLayer0 : \A j \in SubBlocksOfLayer0 : i <= j
           mode  == document.blocks[first].compression
       IN  IF mode \in SupportedForTiles THEN mode ELSE "nullopt"

\* IContext::CreateSp.
CreateContext ==
  /\ pc = "context"
  /\ context' = [compression |-> TryToDetermineCompressionMode, white |-> WhiteBackground]
  /\ pc' = "print"
  /\ UNCHANGED <<given, parse_result, options, members, stream, printed, tile>>

PrintOperationalParameters ==
  /\ pc = "print"
  /\ \/ printed' = IF options.compression # "Invalid" THEN options.compression
                   ELSE IF context.compression # "nullopt" THEN context.compression
                   ELSE "UnCompressed"
     \/ UNCHANGED printed     \* a verbosity below LOGLEVEL_INFORMATION
  /\ pc' = "tile"
  /\ UNCHANGED <<given, parse_result, options, members, stream, context, tile>>

\* Mutant: the source goes before the command line.
CompressionOfTileFromSource ==
  IF context.compression # "nullopt" THEN context.compression ELSE "Invalid"

CompressionOfTile ==
  IF options.compression = "Invalid" /\ context.compression # "nullopt"
  THEN context.compression ELSE options.compression

\* The switch of WritePyramidOutputTile.
WritePyramidOutputTile ==
  /\ pc = "tile"
  /\ tile' = CASE CompressionOfTile \in {"UnCompressed", "Invalid"} -> "UnCompressed"
               [] CompressionOfTile \in {"Zstd1", "Zstd0", "JpgXr"} -> CompressionOfTile
               [] CompressionOfTile = "Jpg" -> "throws"
  /\ pc' = "ended"
  /\ UNCHANGED <<given, parse_result, options, members, stream, context, printed>>

Next ==
  \/ AppParse \/ SetSource \/ ParseMember \/ SetOptions
  \/ CreateSourceStream \/ CreateContext \/ PrintOperationalParameters \/ WritePyramidOutputTile

Spec == Init /\ [][Next]_vars

-----------------------------------------------------------------------------
(* Properties.                                                             *)

\* Parser, detection and writer each have a list of compression modes: no accepted
\* command line and no source leads to a tile the writer refuses.
NoTileRefused == tile # "throws"

\* "Operational Parameters" shows the compression the tiles get: the choice is
\* made once for the print-out and again for each tile.
PrintedCompressionIsUsed == tile # "none" /\ printed # "none" => tile = printed

Layer0Compressions ==
  {document.blocks[i].compression :
     i \in {j \in DOMAIN document.blocks : ~document.blocks[j].pyramid}}

\* Without --compressionopts, tiles have a compression of the source's layer 0,
\* whatever its old pyramid had.  They are uncompressed instead only if there is no
\* layer 0, or a part of it is in Jpg or of a compression libCZI does not know: the
\* program can write neither, so that "the compression mode is derived from the source
\* document" (docs/usage/cli.md:152) holds for the other compressions only.
TilesLikeSource ==
  tile # "none" /\ line.compression = "none" =>
    \/ tile \in Layer0Compressions \ {"Jpg", "Invalid"}
    \/ /\ tile = "UnCompressed"
       /\ Layer0Compressions = {} \/ Layer0Compressions \cap {"Jpg", "Invalid"} # {}

\* The background is white exactly if this was asked for, or, where neither color
\* was, if the channels say so: there are some in the display setting, and all are
\* Transmitted or Reflected; or all of the dimensions are Transmitted or Oblique,
\* which is also so if there are none.  Each list is judged by itself, and the
\* member white_or_black of "auto" plays no part.
WhiteIfCalledFor ==
  pc \in {"print", "tile"} =>
    (context.white <=>
       \/ line.background = "white"
       \/ /\ line.background # "black"
          /\ \/ \E channels \in document.display_setting :
                  /\ Len(channels) > 0
                  /\ \A i \in DOMAIN channels : channels[i] \in {"Transmitted", "Reflected"}
             \/ \E channels \in document.dimensions :
                  \A i \in DOMAIN channels : channels[i] \in {"Transmitted", "Oblique"})

\* A stream of the factory is created with every property the user has named, each
\* with the value it is first given: a bag with a mistake in any place stops the
\* program and is never used in part.
StreamHasWholeBag ==
  LET bag == line.bag.members
  IN  stream.class = "given" =>
        /\ DOMAIN stream.bag = {bag[i].name : i \in DOMAIN bag}
        /\ \A i \in DOMAIN bag :
             (\A j \in 1 .. i - 1 : bag[j].name # bag[i].name)
               => stream.bag[bag[i].name] = bag[i].value

\* Only conversions that have no validator end Parse by an exception: those of
\* the URIs and of the property bag.
OnlyConversionsThrow ==
  parse_result = "throws" =>
    \/ "not utf8" \in {line.source, line.destination}
    \/ line.bag.kind = "not an object"
    \/ line.bag.kind = "object" /\ members # <<>>
=============================================================================
