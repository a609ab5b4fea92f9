------------------------------- MODULE MCLibMain -------------------------------
(***************************************************************************)
(* Small directories and command lines for LibMain.                        *)
(***************************************************************************)
EXTENDS LibMain

Rectangle(w, h) == [x |-> 0, y |-> 0, w |-> w, h |-> h]

Layers(n) == {[layer |-> l, count |-> 1] : l \in 0 .. n}

\* Without scenes.
Plain(w, h, layers, attachments) ==
  [statistics |-> [dimBounds |-> [d \in {"C"} |-> [start |-> 0, size |-> 1]],
                   sceneBoundingBoxes |-> [s \in {} |-> Rectangle(0, 0)],
                   boundingBoxLayer0Only |-> Rectangle(w, h)],
   pyramidStatistics |-> [r \in {IntMax} |-> Layers(layers)],
   metadata |-> attachments > 0, pyramid_info |-> [s \in {} |-> 0], attachments |-> attachments]

\* Scenes of the given widths and numbers of pyramid layers.  A scene of width -1
\* has pyramid layers only.
Scenes(widths, layers) ==
  [statistics |-> [dimBounds |-> [d \in {"C", "S"} |-> [start |-> 0, size |-> IF d = "S" THEN 2 ELSE 1]],
                   sceneBoundingBoxes |->
                     [s \in DOMAIN widths |-> IF widths[s] = -1 THEN Rectangle(-1, -1) ELSE Rectangle(widths[s], 1)],
                   boundingBoxLayer0Only |-> Rectangle(12, 1)],
   pyramidStatistics |->
     [s \in DOMAIN widths |->
        IF widths[s] = -1 THEN Layers(layers[s]) \ Layers(0) ELSE Layers(layers[s])],
   metadata |-> TRUE, pyramid_info |-> [s \in {0} |-> 7], attachments |-> 1]

Two(first, second) == [s \in {0, 1} |-> IF s = 0 THEN first ELSE second]

SmallScenes == Scenes(Two(2, 2), Two(0, 0))
HalfDone    == Scenes(Two(9, 3), Two(1, 0))
SceneGap    == Scenes([s \in {0} |-> 9], [s \in {0} |-> 0])

\* The scene without a layer 0 comes after one that lacks its pyramid, after one
\* that has it, and before one that lacks it.
Ghosts == {Scenes(Two(9, -1), Two(0, 1)), Scenes(Two(9, -1), Two(2, 1)), Scenes(Two(-1, 9), Two(1, 0))}

MCFiles ==
  [{"a"} -> {Plain(9, 2, 0, 2), Plain(9, 2, 1, 1), Plain(2, 2, 0, 0), SmallScenes, HalfDone, SceneGap}
            \cup Ghosts]

MCInitialFiles ==
  {[n \in {"a", "b"} |-> IF n = "a" THEN f["a"] ELSE b] :
     f \in MCFiles, b \in {NoFile, Incomplete, Plain(9, 2, 0, 0)}}

Request(arguments, command, mode, from, to, overwrite, threshold, tile_size) ==
  [arguments |-> arguments, command |-> command, mode |-> mode, source |-> from,
   destination |-> to, overwrite |-> overwrite, threshold |-> threshold, tile_size |-> tile_size]

MCRequests ==
  {Request("ok", "CheckOnly", "Always", "a", "b", FALSE, 4, 2),
   Request("ok", "CheckOnly", "Always", "b", "a", FALSE, 2, 4)}
  \cup {Request(a, "Pyramidize", "Always", "a", "b", FALSE, 4, 2) : a \in {"help", "invalid", "throwing"}}
  \cup {Request("ok", "Pyramidize", mode, from, to, overwrite, sizes[1], sizes[2]) :
          mode \in {"Always", "OnlyOperateIfPyramidIsNeeded"}, from \in {"a", "b"},
          to \in {"a", "b"}, overwrite \in BOOLEAN, sizes \in {<<4, 2>>, <<2, 2>>, <<1, 4>>}}
  \cup {Request("ok", "Pyramidize", "Always", "a", "b", TRUE, 4, 0)}
=============================================================================
