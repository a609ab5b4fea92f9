----------------------------- MODULE MCCommandLine -----------------------------
(***************************************************************************)
(* Command lines and sources for CommandLine: every combination of what    *)
(* ends Parse early, and for a plain command line every compression,       *)
(* background and source.                                                  *)
(***************************************************************************)
EXTENDS CommandLine

\* Two of libCZI's stream properties, of different types.
Path   == "path"
Verify == "verify"

MCPropertyTypes == [n \in {Path, Verify} |-> IF n = Path THEN "String" ELSE "Boolean"]

Plain ==
  [help |-> FALSE, unknown_option |-> FALSE, version |-> FALSE, check_only |-> FALSE,
   source |-> "utf8", destination |-> "utf8", stream_class |-> FALSE,
   compression |-> "none", background |-> "none", tile_size |-> 1024, threshold |-> 4096,
   bag |-> [kind |-> "none", members |-> <<>>]]

Uris == {"none", "utf8", "not utf8"}

Ends ==
  {[Plain EXCEPT !.help = h, !.unknown_option = u, !.version = v, !.check_only = c,
                 !.source = s, !.destination = d] :
     h, u, v, c \in BOOLEAN, s, d \in Uris}

Numbers ==
  {[Plain EXCEPT !.tile_size = t, !.threshold = n, !.compression = c, !.background = b] :
     t, n \in {-1, 0, 1}, c \in {"none", "nonsense"}, b \in {"none", "nonsense"}}

Member(name, type, value) == [name |-> name, type |-> type, value |-> value]

MCMembers == {Member(Path, "String", 1), Member(Path, "String", 2), Member(Verify, "Boolean", 1),
            Member(Verify, "String", 1), Member("unheard of", "String", 1)}

Bags ==
  {[Plain EXCEPT !.stream_class = s, !.bag = b] :
     s \in BOOLEAN,
     b \in {[kind |-> "not an object", members |-> <<>>]}
           \cup {[kind |-> "object", members |-> m] :
                   m \in UNION {[1 .. n -> MCMembers] : n \in 0 .. 3}}}

Settings ==
  {[Plain EXCEPT !.compression = c, !.background = b] :
     c \in {"none", "uncompressed", "jpgxr", "zstd0", "zstd1"},
     b \in {"none", "black", "white", "auto"}}

MCLines == Ends \cup Numbers \cup Bags \cup Settings

-----------------------------------------------------------------------------
Block(pyramid, compression) == [pyramid |-> pyramid, compression |-> compression]

Channels == UNION {[1 .. n -> {"Transmitted", "Reflected", "Oblique", "Epifluorescence", "unknown"}] :
                     n \in 0 .. 2}

OneBlock == <<Block(FALSE, "Zstd1")>>

Document(blocks, display_setting, dimensions) ==
  [blocks |-> blocks, display_setting |-> display_setting, dimensions |-> dimensions]

Compressed ==
  {Document(b, {}, {}) :
     b \in UNION {[1 .. n -> [pyramid : BOOLEAN, compression : CompressionModes]] : n \in 0 .. 2}}

Lists == {{}} \cup {{c} : c \in Channels}

Described == {Document(OneBlock, s, d) : s, d \in Lists}

MCDocuments == Compressed \cup Described

\* A line that ends early, or one that varies another part, needs one source only.
MCInit ==
  /\ Init
  /\ line \in Settings \/ document = Document(OneBlock, {}, {})

MCSpec == MCInit /\ [][Next]_vars
=============================================================================
