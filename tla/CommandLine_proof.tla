--------------------------- MODULE CommandLine_proof ---------------------------
(***************************************************************************)
(* Parse, and what libmain and Execute make of its options, for all        *)
(* command lines and all sources.                                          *)
(***************************************************************************)
EXTENDS CommandLine, TLAPS, WellFoundedInduction

\* The compression the tiles will get, as the print-out has it.
Chosen ==
  IF options.compression # "Invalid" THEN options.compression
  ELSE IF context.compression # "nullopt" THEN context.compression
  ELSE "UnCompressed"

\* Every choice is among the modes the writer has a case for; once there is a
\* Context, the choice is settled.
IInv ==
  /\ DOMAIN options = DOMAIN DefaultOptions
  /\ options.compression \in SupportedForTiles \cup {"Invalid"}
  /\ pc \in {"print", "tile"} => context.compression \in SupportedForTiles \cup {"nullopt"}
  /\ pc = "tile" => printed \in {"none", Chosen}
  /\ pc \notin {"tile", "ended"} => printed = "none"
  /\ pc # "ended" => tile = "none"
  /\ NoTileRefused
  /\ PrintedCompressionIsUsed

\* Nothing is chosen before Parse.
LEMMA InvariantInit == Init => IInv
  BY DEF Init, IInv, DefaultOptions, NoTileRefused, PrintedCompressionIsUsed

\* Parse only ever stores modes of the writer.
LEMMA ParseKeeps ==
  ASSUME IInv, AppParse \/ SetSource \/ ParseMember \/ SetOptions
  PROVE  IInv'
  <1>1. UNCHANGED <<context, printed, tile>>
    BY DEF AppParse, SetSource, ParseMember, SetOptions, operation
  <1>2. pc \in {"parse", "version", "bag"} /\ pc' \in {"version", "bag", "open", "ended"}
    BY DEF AppParse, SetSource, ParseMember, SetOptions, Goto, Return
  <1>3. DOMAIN options' = DOMAIN options
    BY DEF AppParse, SetSource, ParseMember, SetOptions
  <1>4. options'.compression \in SupportedForTiles \cup {"Invalid"}
    <2>1. CASE AppParse \/ SetSource
      BY <2>1 DEF AppParse, SetSource, IInv
    <2>2. CASE ParseMember
      BY <2>2 DEF ParseMember, IInv, DefaultOptions
    <2>3. CASE SetOptions
      <3>1. \A c \in DOMAIN CompressionOfOption : CompressionOfOption[c] \in SupportedForTiles
        BY DEF CompressionOfOption, SupportedForTiles
      <3>2. "compression" \in DOMAIN options /\ options.compression \in SupportedForTiles \cup {"Invalid"}
        BY DEF IInv, DefaultOptions
      <3>3. CASE UNCHANGED options
        BY <3>2, <3>3
      <3>4. CASE ~UNCHANGED options
        <4>1. line.compression \in DOMAIN CompressionOfOption \cup {"none"}
          BY <2>3, <3>4 DEF SetOptions
        <4>2. options'.compression
                = IF line.compression = "none" THEN options.compression
                  ELSE CompressionOfOption[line.compression]
          BY <2>3, <3>2, <3>4 DEF SetOptions
        <4> QED
          BY <3>1, <3>2, <4>1, <4>2
      <3> QED
        BY <3>3, <3>4
    <2> QED
      BY <2>1, <2>2, <2>3
  <1> QED
    BY <1>1, <1>2, <1>3, <1>4 DEF IInv, NoTileRefused, PrintedCompressionIsUsed

\* The Context, the print-out and the writer agree on the mode.
LEMMA OperationKeeps ==
  ASSUME IInv, CreateSourceStream \/ CreateContext \/ PrintOperationalParameters
               \/ WritePyramidOutputTile
  PROVE  IInv'
  <1> USE DEF IInv, NoTileRefused, PrintedCompressionIsUsed
  <1>1. CASE CreateSourceStream
    BY <1>1 DEF CreateSourceStream, given
  <1>2. CASE CreateContext
    <2>1. TryToDetermineCompressionMode \in SupportedForTiles \cup {"nullopt"}
      BY DEF TryToDetermineCompressionMode
    <2> QED
      BY <1>2, <2>1 DEF CreateContext, given
  <1>3. CASE PrintOperationalParameters
    BY <1>3 DEF PrintOperationalParameters, given, Chosen
  <1>4. CASE WritePyramidOutputTile
    <2>1. CompressionOfTile \in SupportedForTiles \cup {"Invalid"}
      BY <1>4 DEF WritePyramidOutputTile, CompressionOfTile
    <2>2. tile' = Chosen
      BY <1>4, <2>1 DEF WritePyramidOutputTile, CompressionOfTile, Chosen, SupportedForTiles
    <2>3. tile' # "throws"
      BY <1>4, <2>1 DEF WritePyramidOutputTile, SupportedForTiles
    <2> QED
      BY <1>4, <2>2, <2>3 DEF WritePyramidOutputTile, given
  <1> QED
    BY <1>1, <1>2, <1>3, <1>4

\* Parse, libmain and Execute keep the choice of the compression consistent.
LEMMA InvariantNext == IInv /\ [Next]_vars => IInv'
  <1> SUFFICES ASSUME IInv, [Next]_vars PROVE IInv'
    OBVIOUS
  <1>1. CASE Next
    BY <1>1, ParseKeeps, OperationKeeps DEF Next
  <1>2. CASE UNCHANGED vars
    BY <1>2 DEF vars, IInv, NoTileRefused, PrintedCompressionIsUsed, Chosen
  <1> QED
    BY <1>1, <1>2

\* WritePyramidOutputTile never throws "Unsupported compression mode".
THEOREM TilesAreWritten == Spec => []NoTileRefused
  <1>1. Spec => []IInv
    BY InvariantInit, InvariantNext, PTL DEF Spec
  <1> QED
    BY <1>1, PTL DEF IInv

\* The compression shown before the operation is that of the tiles.
THEOREM PrintoutIsTrue == Spec => []PrintedCompressionIsUsed
  <1>1. Spec => []IInv
    BY InvariantInit, InvariantNext, PTL DEF Spec
  <1> QED
    BY <1>1, PTL DEF IInv

-----------------------------------------------------------------------------
(* What Parse leaves behind, and what is made of it.                       *)

\* The first n members of a sequence give a bag of just their names, and each of
\* these the value it is first given.
IsBagOf(bag, seq, n) ==
  /\ DOMAIN bag = {seq[i].name : i \in 1 .. n}
  /\ \A i \in 1 .. n :
       (\A j \in 1 .. i - 1 : seq[j].name # seq[i].name) => bag[seq[i].name] = seq[i].value

\* Of the members of the command line, n have been read, and the others are left.
HasRead(n) ==
  /\ Len(members) = Len(line.bag.members) - n
  /\ \A i \in 1 .. Len(members) : members[i] = line.bag.members[n + i]
  /\ IsBagOf(options.bag, line.bag.members, n)

\* What CLI11 has let through.
Validated ==
  /\ line.compression \in DOMAIN CompressionOfOption \cup {"none"}
  /\ line.background \in {"none", "black", "white", "auto"}
  /\ line.threshold > 0

\* The step libmain or Execute is at, once Parse has returned "OK".
Accepted == pc \in {"open", "context", "print", "tile"}

\* At each step, the options are those the command line asks for, the bag holds
\* the members read so far, and the Context is what the source makes of them.
ParseInv ==
  /\ line \in Lines /\ document \in Documents
  /\ DOMAIN options = DOMAIN DefaultOptions
  /\ pc \in {"version", "bag"} => Validated
  /\ pc \in {"parse", "version", "bag"} =>
       options.background = DefaultOptions.background /\ parse_result = "none"
  /\ pc \in {"parse", "version"} => DOMAIN options.bag = {}
  /\ pc = "bag" =>
       /\ line.source = "utf8" /\ line.bag.kind # "not an object"
       /\ members \in Seq(Members)
       /\ \E n \in 0 .. Len(line.bag.members) : HasRead(n)
  /\ Accepted => options.background \in ParseBackground(line.background)
                 /\ parse_result = "OK"
  /\ pc = "open" => IsBagOf(options.bag, line.bag.members, Len(line.bag.members))
  /\ line.compression = "none" => options.compression = "Invalid"
  /\ pc \in {"print", "tile"} => context.compression = TryToDetermineCompressionMode
  /\ pc \in {"parse", "version", "bag", "open"} => stream.class = "none"
  /\ pc \in {"parse", "version", "bag", "open", "context"} => ~context.white
  /\ pc # "ended" => tile = "none"
  /\ TilesLikeSource /\ WhiteIfCalledFor /\ StreamHasWholeBag /\ OnlyConversionsThrow

\* Before Parse nothing is read.
LEMMA ParseInit == Init => ParseInv
  BY DEF Init, ParseInv, DefaultOptions, Accepted, TilesLikeSource, WhiteIfCalledFor,
         StreamHasWholeBag, OnlyConversionsThrow

\* A set of indices that is not empty has a first.
LEMMA FirstExists ==
  ASSUME NEW S \in SUBSET Nat, S # {}
  PROVE  \E i \in S : \A j \in S : i <= j
  <1>1. IsWellFoundedOn(OpToRel(<, Nat), Nat)
    BY NatLessThanWellFounded
  <1>2. PICK i \in S : \A j \in S : ~(<<j, i>> \in OpToRel(<, Nat))
    BY <1>1, WFMin
  <1>3. ASSUME NEW j \in S PROVE i <= j
    <2>1. i \in Nat /\ j \in Nat
      OBVIOUS
    <2>2. ~(j < i)
      BY <1>2, <2>1 DEF OpToRel
    <2> QED
      BY <2>1, <2>2
  <1> QED
    BY <1>3

\* What TryToDetermineCompressionMode finds is a compression of layer 0 that tiles
\* may have; it finds none only without a layer 0, or if a part of it has another.
LEMMA FirstBlockDecides ==
  ASSUME document \in Documents, options.compression = "Invalid"
  PROVE  \/ TryToDetermineCompressionMode \in Layer0Compressions \cap SupportedForTiles
         \/ /\ TryToDetermineCompressionMode = "nullopt"
            /\ Layer0Compressions = {} \/ Layer0Compressions \cap {"Jpg", "Invalid"} # {}
  <1> DEFINE first == CHOOSE i \in SubBlocksOfLayer0 : \A j \in SubBlocksOfLayer0 : i <= j
             mode  == document.blocks[first].compression
  <1>1. Layer0Compressions = {document.blocks[i].compression : i \in SubBlocksOfLayer0}
    BY DEF Layer0Compressions, SubBlocksOfLayer0
  <1>2. document.blocks \in Seq([compression : CompressionModes, pyramid : BOOLEAN])
    BY CommandLineAssumption DEF IsSource
  <1>3. CASE SubBlocksOfLayer0 = {}
    BY <1>1, <1>3 DEF TryToDetermineCompressionMode
  <1>4. CASE SubBlocksOfLayer0 # {}
    <2>1. SubBlocksOfLayer0 \in SUBSET Nat /\ SubBlocksOfLayer0 \subseteq DOMAIN document.blocks
      <3>1. DOMAIN document.blocks \in SUBSET Nat
        BY <1>2
      <3> QED
        BY <3>1 DEF SubBlocksOfLayer0
    <2>2. first \in SubBlocksOfLayer0
      BY <1>4, <2>1, FirstExists
    <2>3. \A i \in SubBlocksOfLayer0 :
            /\ document.blocks[i].compression \in Layer0Compressions
            /\ document.blocks[i] \in [compression : CompressionModes, pyramid : BOOLEAN]
      <3>1. \A i \in SubBlocksOfLayer0 : document.blocks[i].compression \in Layer0Compressions
        BY <1>1, Zenon
      <3>2. \A i \in DOMAIN document.blocks :
              document.blocks[i] \in [compression : CompressionModes, pyramid : BOOLEAN]
        <4>1. ASSUME NEW T, NEW seq \in Seq(T) PROVE \A i \in DOMAIN seq : seq[i] \in T
          OBVIOUS
        <4> QED
          BY <1>2, <4>1, Zenon
      <3> QED
        BY <2>1, <3>1, <3>2
    <2>4. mode \in Layer0Compressions /\ mode \in SupportedForTiles \cup {"Jpg", "Invalid"}
      <3>1. document.blocks[first] \in [compression : CompressionModes, pyramid : BOOLEAN]
        BY <2>2, <2>3
      <3>2. mode \in CompressionModes
        BY <3>1
      <3>3. mode \in Layer0Compressions
        BY <2>2, <2>3
      <3> QED
        BY <3>2, <3>3 DEF CompressionModes, SupportedForTiles
    <2>5. TryToDetermineCompressionMode = IF mode \in SupportedForTiles THEN mode ELSE "nullopt"
      BY <1>4 DEF TryToDetermineCompressionMode
    <2> HIDE DEF mode
    <2> QED
      BY <2>4, <2>5
  <1> QED
    BY <1>3, <1>4

\* CLI11 lets through only what its validators do.
LEMMA AppParseKeeps == ParseInv /\ AppParse => ParseInv'
  <1> SUFFICES ASSUME ParseInv, AppParse PROVE ParseInv'
    OBVIOUS
  <1>1. line \in Lines /\ IsLine(line)
    BY CommandLineAssumption DEF ParseInv
  <1>2. pc' = "version" => Validated
    <2>1. pc' = "version" => ~RefusedByValidator
      BY DEF AppParse, Return, Goto
    <2>2. line.threshold \in Int
      BY <1>1 DEF IsLine
    <2>3. ~RefusedByValidator => ~(line.threshold <= 0)
      BY DEF RefusedByValidator
    <2>4. ~RefusedByValidator => line.threshold > 0
      BY <2>2, <2>3
    <2> QED
      BY <2>1, <2>4 DEF RefusedByValidator, Validated
  <1>3. /\ pc = "parse" /\ pc' \in {"version", "ended"}
        /\ parse_result' \in {"none", "Exit", "Error"}
        /\ UNCHANGED <<line, document, options, members, stream, context, printed, tile>>
        /\ pc' = "version" => parse_result' = "none"
    BY DEF AppParse, Return, Goto, given, operation, ParseInv
  <1> QED
    BY <1>2, <1>3 DEF ParseInv, Validated, Accepted, TilesLikeSource, WhiteIfCalledFor,
       StreamHasWholeBag, OnlyConversionsThrow

\* Parse throws for a URI or a bag it cannot convert; otherwise the bag is next.
LEMMA SetSourceKeeps == ParseInv /\ SetSource => ParseInv'
  <1> SUFFICES ASSUME ParseInv, SetSource PROVE ParseInv'
    OBVIOUS
  <1>1. line \in Lines /\ IsLine(line)
    BY CommandLineAssumption DEF ParseInv
  <1>2. /\ pc = "version" /\ pc' \in {"bag", "ended"} /\ members' = line.bag.members
        /\ UNCHANGED <<line, document, options, stream, context, printed, tile>>
        /\ pc' = "bag" => /\ parse_result' = "none" /\ line.source = "utf8"
                          /\ line.bag.kind # "not an object"
        /\ parse_result' = "throws" =>
             line.bag.kind = "not an object" \/ line.source \notin {"utf8", "none"}
    BY DEF SetSource, Return, Goto, given, operation, ParseInv
  <1>3. OnlyConversionsThrow'
    BY <1>1, <1>2 DEF OnlyConversionsThrow, IsLine
  <1>4. members' \in Seq(Members)
    BY <1>1, <1>2 DEF IsLine
  <1>5. line.bag.members \in Seq(Members) /\ Len(line.bag.members) \in Nat
    <2>1. line.bag.members \in Seq(Members)
      BY <1>1 DEF IsLine
    <2> QED
      BY <2>1
  <1>6. HasRead(0)'
    <2>1. DOMAIN options.bag = {}
      BY <1>2 DEF ParseInv
    <2>2. IsBagOf(options.bag, line.bag.members, 0)
      <3>1. 1 .. 0 = {}
        OBVIOUS
      <3> QED
        BY <2>1, <3>1 DEF IsBagOf
    <2>3. IsBagOf(options.bag, line.bag.members, 0)'
      BY <1>2, <2>2 DEF IsBagOf
    <2>4. /\ Len(members') = Len(line'.bag.members) - 0
          /\ \A i \in 1 .. Len(members') : members'[i] = line'.bag.members[0 + i]
      <3>1. members' = line.bag.members /\ line' = line
        BY <1>2
      <3>2. Len(line.bag.members) - 0 = Len(line.bag.members)
        BY <1>5
      <3>3. \A i \in 1 .. Len(line.bag.members) : 0 + i = i
        BY <1>5
      <3> QED
        BY <3>1, <3>2, <3>3
    <2> QED
      BY <2>3, <2>4 DEF HasRead
  <1>7. (\E n \in 0 .. Len(line.bag.members) : HasRead(n))'
    <2>1. 0 \in 0 .. Len(line.bag.members)
      BY <1>5
    <2> QED
      BY <1>2, <1>6, <2>1
  <1> QED
    BY <1>2, <1>3, <1>4, <1>7 DEF ParseInv, Validated, Accepted, TilesLikeSource,
       WhiteIfCalledFor, StreamHasWholeBag

\* One more member is read: what the first n give, with the next inserted.
LEMMA BagGrows ==
  ASSUME NEW bag, NEW seq \in Seq(Members), NEW n \in 0 .. Len(seq) - 1, IsBagOf(bag, seq, n)
  PROVE  IsBagOf(Inserted(bag, seq[n + 1]), seq, n + 1)
  <1> DEFINE next == seq[n + 1]
  <1>1. n \in Nat /\ 1 .. n + 1 = (1 .. n) \cup {n + 1} /\ 1 .. (n + 1) - 1 = 1 .. n
    OBVIOUS
  <1>2. DOMAIN Inserted(bag, next) = {seq[i].name : i \in 1 .. n + 1}
    BY <1>1 DEF IsBagOf, Inserted
  <1>3. ASSUME NEW i \in 1 .. n, \A j \in 1 .. i - 1 : seq[j].name # seq[i].name
        PROVE  Inserted(bag, next)[seq[i].name] = seq[i].value
    <2>1. seq[i].name \in DOMAIN bag /\ bag[seq[i].name] = seq[i].value
      BY <1>3 DEF IsBagOf
    <2> QED
      BY <2>1 DEF Inserted
  <1>4. ASSUME \A j \in 1 .. n : seq[j].name # next.name
        PROVE  Inserted(bag, next)[next.name] = next.value
    <2>1. next.name \notin DOMAIN bag
      BY <1>4 DEF IsBagOf
    <2> QED
      BY <2>1 DEF Inserted
  <1> QED
    BY <1>1, <1>2, <1>3, <1>4 DEF IsBagOf

\* A member goes from those to be read into the bag, or stays and ends Parse.
LEMMA ParseMemberKeeps == ParseInv /\ ParseMember => ParseInv'
  <1> SUFFICES ASSUME ParseInv, ParseMember PROVE ParseInv'
    OBVIOUS
  <1>1. line \in Lines /\ IsLine(line) /\ line.bag.members \in Seq(Members)
    BY CommandLineAssumption DEF ParseInv, IsLine
  <1>2. /\ pc = "bag" /\ members # <<>>
        /\ UNCHANGED <<line, document, stream, context, printed, tile>>
    BY DEF ParseMember, given, operation
  <1>3. members \in Seq(Members) /\ "bag" \in DOMAIN options
    <2>1. "bag" \in DOMAIN DefaultOptions
      BY DEF DefaultOptions
    <2> QED
      BY <1>2, <2>1 DEF ParseInv
  <1>4. PICK n \in 0 .. Len(line.bag.members) : HasRead(n)
    BY <1>2 DEF ParseInv
  <1>5. /\ Len(members) \in Nat \ {0} /\ Head(members) = members[1]
        /\ Len(line.bag.members) \in Nat /\ n \in Nat
    BY <1>1, <1>2, <1>3
  <1>6. n \in 0 .. Len(line.bag.members) - 1 /\ Head(members) = line.bag.members[n + 1]
    <2>1. Len(members) = Len(line.bag.members) - n
      BY <1>4 DEF HasRead
    <2>2. members[1] = line.bag.members[n + 1]
      BY <1>4, <1>5 DEF HasRead
    <2> QED
      BY <1>5, <2>1, <2>2
  <1>7. CASE Known(Head(members))
    <2>1. /\ options' = [options EXCEPT !.bag = Inserted(@, Head(members))]
          /\ members' = Tail(members) /\ pc' = "bag" /\ parse_result' = parse_result
      BY <1>7 DEF ParseMember, Goto
    <2>2. options'.bag = Inserted(options.bag, line.bag.members[n + 1])
      BY <1>3, <1>6, <2>1
    <2>3. IsBagOf(options'.bag, line.bag.members, n + 1)
      BY <1>1, <1>4, <1>6, <2>2, BagGrows DEF HasRead
    <2>4. HasRead(n + 1)'
      <3>1. Len(members') = Len(members) - 1
        BY <1>2, <1>3, <2>1
      <3>2. Len(members') = Len(line.bag.members) - (n + 1)
        BY <1>4, <1>5, <3>1 DEF HasRead
      <3>3. ASSUME NEW i \in 1 .. Len(members')
            PROVE  members'[i] = line.bag.members[(n + 1) + i]
        <4>1. i + 1 \in 1 .. Len(members) /\ n + (i + 1) = (n + 1) + i
          BY <1>5, <3>1, <3>3
        <4>2. members'[i] = members[i + 1]
          BY <1>2, <1>3, <2>1, <3>1, <3>3
        <4> QED
          BY <1>4, <4>1, <4>2 DEF HasRead
      <3> QED
        BY <1>2, <2>3, <3>2, <3>3 DEF HasRead, IsBagOf
    <2>5. (\E k \in 0 .. Len(line.bag.members) : HasRead(k))'
      <3>1. n + 1 \in 0 .. Len(line.bag.members)
        BY <1>5, <1>6
      <3> QED
        BY <1>2, <2>4, <3>1
    <2>6. /\ DOMAIN options' = DOMAIN options
          /\ options'.background = options.background
          /\ options'.compression = options.compression
      <3>1. "background" \in DOMAIN DefaultOptions /\ "compression" \in DOMAIN DefaultOptions
        BY DEF DefaultOptions
      <3>2. "background" \in DOMAIN options /\ "compression" \in DOMAIN options
        BY <3>1 DEF ParseInv
      <3> QED
        BY <2>1, <3>2
    <2>7. members' \in Seq(Members)
      BY <1>2, <1>3, <2>1
    <2> QED
      BY <1>2, <2>1, <2>5, <2>6, <2>7 DEF ParseInv, Validated, Accepted, TilesLikeSource,
         WhiteIfCalledFor, StreamHasWholeBag, OnlyConversionsThrow
  <1>8. CASE ~Known(Head(members))
    <2>1. pc' = "ended" /\ parse_result' = "throws" /\ UNCHANGED <<options, members>>
      BY <1>8 DEF ParseMember, Return
    <2>2. line.bag.kind = "object"
      <3>1. line.bag.members # <<>>
        BY <1>5, <1>6
      <3> QED
        BY <1>1, <3>1 DEF IsLine
    <2> QED
      BY <1>2, <2>1, <2>2 DEF ParseInv, Validated, Accepted, TilesLikeSource,
         WhiteIfCalledFor, StreamHasWholeBag, OnlyConversionsThrow
  <1> QED
    BY <1>7, <1>8

\* What CLI11 has let through is never refused here: the exceptions of these
\* conversions are never thrown, but for a destination that is not UTF-8.
LEMMA SetOptionsKeeps == ParseInv /\ SetOptions => ParseInv'
  <1> SUFFICES ASSUME ParseInv, SetOptions PROVE ParseInv'
    OBVIOUS
  <1>1. line \in Lines /\ IsLine(line)
    BY CommandLineAssumption DEF ParseInv
  <1>2. /\ pc = "bag" /\ members = <<>> /\ Validated /\ parse_result = "none"
        /\ UNCHANGED <<line, document, members, stream, context, printed, tile>>
    BY DEF SetOptions, given, operation, ParseInv
  <1>3. /\ line.compression \in DOMAIN CompressionOfOption \cup {"none"}
        /\ ParseBackground(line.background) # {}
        /\ ~(line.threshold < 0)
    <2>1. ParseBackground(line.background) # {}
      <3>1. line.background \in {"none", "black", "white", "auto"}
        BY <1>2 DEF Validated
      <3>2. CASE line.background = "none"
        BY <3>2 DEF ParseBackground
      <3>3. CASE line.background = "auto"
        <4>1. [mode |-> "Auto", white_or_black |-> TRUE] \in ParseBackground(line.background)
          BY <3>3 DEF ParseBackground
        <4> QED
          BY <4>1
      <3>4. CASE line.background = "black"
        <4>1. [mode |-> "UseFixed", white_or_black |-> FALSE] \in ParseBackground(line.background)
          BY <3>4 DEF ParseBackground
        <4> QED
          BY <4>1
      <3>5. CASE line.background = "white"
        <4>1. [mode |-> "UseFixed", white_or_black |-> TRUE] \in ParseBackground(line.background)
          BY <3>5 DEF ParseBackground
        <4> QED
          BY <4>1
      <3> QED
        BY <3>1, <3>2, <3>3, <3>4, <3>5
    <2>2. line.threshold \in Int
      BY <1>1 DEF IsLine
    <2>3. line.threshold > 0
      BY <1>2 DEF Validated
    <2>4. ~(line.threshold < 0)
      BY <2>2, <2>3
    <2> QED
      BY <1>2, <2>1, <2>4 DEF Validated
  <1>4. PICK background \in ParseBackground(line.background) :
          /\ options' = [options EXCEPT
               !.compression = IF line.compression = "none" THEN @
                               ELSE CompressionOfOption[line.compression],
               !.background = background,
               !.tile_size = line.tile_size,
               !.threshold = line.threshold,
               !.command = IF line.check_only THEN "CheckOnly"
                           ELSE IF line.destination = "utf8" THEN "Pyramidize" ELSE @]
          /\ Return(IF line.check_only \/ line.destination = "utf8" THEN "OK"
                    ELSE IF line.destination = "none" THEN "Error" ELSE "throws")
    BY <1>3 DEF SetOptions
  <1>5. /\ DOMAIN options' = DOMAIN options
        /\ options'.background = background /\ options'.bag = options.bag
        /\ line.compression = "none" => options'.compression = options.compression
    BY <1>4 DEF ParseInv, DefaultOptions
  <1>6. IsBagOf(options.bag, line.bag.members, Len(line.bag.members))
    <2>1. PICK n \in 0 .. Len(line.bag.members) : HasRead(n)
      BY <1>2 DEF ParseInv
    <2>2. Len(line.bag.members) \in Nat /\ Len(members) = 0
      <3>1. line.bag.members \in Seq(Members) /\ members = <<>>
        BY <1>1, <1>2 DEF IsLine
      <3> QED
        BY <3>1
    <2>3. n = Len(line.bag.members)
      BY <2>1, <2>2 DEF HasRead
    <2> QED
      BY <2>1, <2>3 DEF HasRead
  <1>7. /\ pc' \in {"open", "ended"} /\ parse_result' \in {"OK", "Error", "throws"}
        /\ pc' = "open" => parse_result' = "OK"
        /\ parse_result' = "throws" => line.destination \notin {"none", "utf8"}
    BY <1>4 DEF Return
  <1>8. OnlyConversionsThrow'
    BY <1>1, <1>2, <1>7 DEF OnlyConversionsThrow, IsLine
  <1>9. IsBagOf(options'.bag, line.bag.members, Len(line.bag.members))
    BY <1>5, <1>6
  <1> QED
    BY <1>2, <1>4, <1>5, <1>7, <1>8, <1>9 DEF ParseInv, Validated, Accepted, TilesLikeSource,
       WhiteIfCalledFor, StreamHasWholeBag

\* The stream is created with the whole bag or, by the file's name, with none.
LEMMA CreateSourceStreamKeeps == ParseInv /\ CreateSourceStream => ParseInv'
  <1> SUFFICES ASSUME ParseInv, CreateSourceStream PROVE ParseInv'
    OBVIOUS
  <1>1. /\ pc = "open" /\ pc' \in {"ended", "context"}
        /\ UNCHANGED <<line, document, parse_result, options, members, context, printed, tile>>
        /\ stream'.class = "given" => IsBagOf(stream'.bag, line.bag.members, Len(line.bag.members))
    BY DEF CreateSourceStream, given, ParseInv
  <1>2. DOMAIN line.bag.members = 1 .. Len(line.bag.members)
    <2>1. line.bag.members \in Seq(Members)
      BY CommandLineAssumption DEF ParseInv, IsLine
    <2> QED
      BY <2>1
  <1>3. StreamHasWholeBag'
    BY <1>1, <1>2 DEF StreamHasWholeBag, IsBagOf
  <1> QED
    BY <1>1, <1>3 DEF ParseInv, Accepted, TilesLikeSource, WhiteIfCalledFor,
       OnlyConversionsThrow

\* A white background comes from "white", or without "black" from the channels.
LEMMA CreateContextKeeps == ParseInv /\ CreateContext => ParseInv'
  <1> SUFFICES ASSUME ParseInv, CreateContext PROVE ParseInv'
    OBVIOUS
  <1>1. /\ pc = "context" /\ pc' = "print"
        /\ context' = [compression |-> TryToDetermineCompressionMode, white |-> WhiteBackground]
        /\ UNCHANGED <<line, document, parse_result, options, members, stream, printed, tile>>
    BY DEF CreateContext, given
  <1>2. TryToDetermineCompressionMode' = TryToDetermineCompressionMode
    BY <1>1 DEF TryToDetermineCompressionMode, SubBlocksOfLayer0
  <1>3. WhiteIfCalledFor'
    <2>1. options.background \in ParseBackground(line.background)
      BY <1>1 DEF ParseInv, Accepted
    <2>2. DetermineWhetherBackgroundShouldBeWhite
          <=> \/ \E channels \in document.display_setting :
                   /\ Len(channels) > 0
                   /\ \A i \in DOMAIN channels : channels[i] \in {"Transmitted", "Reflected"}
              \/ \E channels \in document.dimensions :
                   \A i \in DOMAIN channels : channels[i] \in {"Transmitted", "Oblique"}
      <3>1. \A channels \in document.display_setting : channels # <<>> <=> Len(channels) > 0
        <4>1. \A channels \in document.display_setting : channels \in Seq(STRING)
          BY CommandLineAssumption DEF ParseInv, IsSource
        <4> QED
          BY <4>1
      <3> QED
        BY <3>1 DEF DetermineWhetherBackgroundShouldBeWhite, AllChannelsAre
    <2>3. CASE line.background \in {"black", "white"}
      <3>1. /\ options.background.mode = "UseFixed"
            /\ options.background.white_or_black <=> line.background = "white"
        BY <2>1, <2>3 DEF ParseBackground
      <3> QED
        BY <1>1, <2>3, <3>1 DEF WhiteBackground, WhiteIfCalledFor
    <2>4. CASE line.background \in {"none", "auto"}
      <3>1. options.background.mode = "Auto"
        <4>1. DefaultOptions.background.mode = "Auto"
          BY DEF DefaultOptions
        <4> QED
          BY <2>1, <2>4, <4>1 DEF ParseBackground
      <3>2. context'.white = DetermineWhetherBackgroundShouldBeWhite
        BY <1>1, <3>1 DEF WhiteBackground
      <3> QED
        BY <1>1, <2>2, <2>4, <3>2, Zenon DEF WhiteIfCalledFor
    <2>5. CASE line.background \notin {"none", "auto", "black", "white"}
      BY <2>1, <2>5 DEF ParseBackground
    <2> QED
      BY <2>3, <2>4, <2>5
  <1> QED
    BY <1>1, <1>2, <1>3 DEF ParseInv, Accepted, TilesLikeSource, StreamHasWholeBag,
       OnlyConversionsThrow

\* The print-out changes nothing.
LEMMA PrintKeeps == ParseInv /\ PrintOperationalParameters => ParseInv'
  <1> SUFFICES ASSUME ParseInv, PrintOperationalParameters PROVE ParseInv'
    OBVIOUS
  <1>1. /\ pc = "print" /\ pc' = "tile"
        /\ UNCHANGED <<line, document, parse_result, options, members, stream, context, tile>>
    BY DEF PrintOperationalParameters, given
  <1>2. TryToDetermineCompressionMode' = TryToDetermineCompressionMode
    BY <1>1 DEF TryToDetermineCompressionMode, SubBlocksOfLayer0
  <1> QED
    BY <1>1, <1>2 DEF ParseInv, Accepted, TilesLikeSource, WhiteIfCalledFor,
       StreamHasWholeBag, OnlyConversionsThrow

\* Without the option, the tile has what TryToDetermineCompressionMode has found.
LEMMA WriteKeeps == ParseInv /\ WritePyramidOutputTile => ParseInv'
  <1> SUFFICES ASSUME ParseInv, WritePyramidOutputTile PROVE ParseInv'
    OBVIOUS
  <1>1. /\ pc = "tile" /\ pc' = "ended"
        /\ UNCHANGED <<line, document, parse_result, options, members, stream, context>>
    BY DEF WritePyramidOutputTile, given
  <1>2. TilesLikeSource'
    <2>1. Layer0Compressions' = Layer0Compressions
      BY <1>1 DEF Layer0Compressions
    <2> SUFFICES ASSUME line.compression = "none"
                 PROVE  \/ tile' \in Layer0Compressions \ {"Jpg", "Invalid"}
                        \/ /\ tile' = "UnCompressed"
                           /\ \/ Layer0Compressions = {}
                              \/ Layer0Compressions \cap {"Jpg", "Invalid"} # {}
      BY <1>1, <2>1 DEF TilesLikeSource
    <2>2. options.compression = "Invalid" /\ document \in Documents
      BY DEF ParseInv
    <2>3. context.compression = TryToDetermineCompressionMode
      BY <1>1 DEF ParseInv
    <2>4. CASE TryToDetermineCompressionMode \in Layer0Compressions \cap SupportedForTiles
      <3>1. CompressionOfTile \in Layer0Compressions /\ CompressionOfTile \in SupportedForTiles
        BY <2>2, <2>3, <2>4 DEF CompressionOfTile, SupportedForTiles
      <3>2. tile' = CompressionOfTile
        BY <3>1 DEF WritePyramidOutputTile, SupportedForTiles
      <3> QED
        BY <3>1, <3>2 DEF SupportedForTiles
    <2>5. CASE TryToDetermineCompressionMode = "nullopt"
      <3>1. CompressionOfTile = "Invalid"
        BY <2>2, <2>3, <2>5 DEF CompressionOfTile
      <3>2. tile' = "UnCompressed"
        BY <3>1 DEF WritePyramidOutputTile
      <3>3. TryToDetermineCompressionMode \notin SupportedForTiles
        BY <2>5 DEF SupportedForTiles
      <3> QED
        BY <2>2, <3>2, <3>3, FirstBlockDecides
    <2> QED
      BY <2>2, <2>4, <2>5, FirstBlockDecides
  <1> QED
    BY <1>1, <1>2 DEF ParseInv, Accepted, WhiteIfCalledFor, StreamHasWholeBag,
       OnlyConversionsThrow

\* Every step keeps the invariant.
LEMMA ParseNext == ParseInv /\ [Next]_vars => ParseInv'
  <1> SUFFICES ASSUME ParseInv, [Next]_vars PROVE ParseInv'
    OBVIOUS
  <1>1. CASE Next
    BY <1>1, AppParseKeeps, SetSourceKeeps, ParseMemberKeeps, SetOptionsKeeps,
       CreateSourceStreamKeeps, CreateContextKeeps, PrintKeeps, WriteKeeps DEF Next
  <1>2. CASE UNCHANGED vars
    <2>1. UNCHANGED <<line, document, pc, parse_result, options, members, stream, context, tile>>
      BY <1>2 DEF vars
    <2>2. /\ TryToDetermineCompressionMode' = TryToDetermineCompressionMode
          /\ Validated' = Validated /\ Accepted' = Accepted
          /\ (\E n \in 0 .. Len(line.bag.members) : HasRead(n))'
               = (\E n \in 0 .. Len(line.bag.members) : HasRead(n))
      BY <2>1 DEF TryToDetermineCompressionMode, SubBlocksOfLayer0, Validated, Accepted, HasRead,
         IsBagOf
    <2>3. /\ TilesLikeSource' = TilesLikeSource /\ WhiteIfCalledFor' = WhiteIfCalledFor
          /\ StreamHasWholeBag' = StreamHasWholeBag
          /\ OnlyConversionsThrow' = OnlyConversionsThrow
      BY <2>1 DEF TilesLikeSource, Layer0Compressions, WhiteIfCalledFor, StreamHasWholeBag, OnlyConversionsThrow
    <2> QED
      BY <2>1, <2>2, <2>3 DEF ParseInv
  <1> QED
    BY <1>1, <1>2

\* The invariant holds in every reachable state.
LEMMA ParseInvariant == Spec => []ParseInv
  BY ParseInit, ParseNext, PTL DEF Spec

\* Without --compressionopts, tiles get a compression of the source's layer 0, or,
\* where that has one the program cannot write, none.
THEOREM TilesTakeSourceCompression == Spec => []TilesLikeSource
  BY ParseInvariant, PTL DEF ParseInv

\* The background is white exactly where the option or the channels say so: the
\* uninitialized member is never used.
THEOREM WhiteIsJustified == Spec => []WhiteIfCalledFor
  BY ParseInvariant, PTL DEF ParseInv

\* A stream of the factory gets every property the user has named, with its value.
THEOREM StreamGetsWholeBag == Spec => []StreamHasWholeBag
  BY ParseInvariant, PTL DEF ParseInv

\* Parse throws for URIs and bags it cannot convert, and for nothing else.
THEOREM ValidatorsPrecedeConversions == Spec => []OnlyConversionsThrow
  BY ParseInvariant, PTL DEF ParseInv
=============================================================================
