-------------------------- MODULE UpperPyramidLayers --------------------------
(***************************************************************************)
(* UpperPyramidLayersPyramidizer: how one tile of a pyramid layer is made  *)
(* from the tiles [rect, bitmap] of the layer below.  The layer is given   *)
(* by its minification factor, 1 << pyramid_layer.                         *)
(***************************************************************************)
EXTENDS Bitmaps

\* Mutant: only the tiles that lie in rect as a whole.
GetTilesInside(tiles, rect) ==
  {k \in DOMAIN tiles : Contains(rect, tiles[k].rect)}

\* GetTilesIntersecting: the indices of the tiles, in ascending order.
GetTilesIntersecting(tiles, rect) ==
  {k \in DOMAIN tiles : IsNonEmpty(Intersect(tiles[k].rect, rect))}

\* x >> (pyramid_layer - 1), an arithmetic shift.
ScaleByPyramidLayerMinusOne(x, minification_factor) ==
  x \div (minification_factor \div 2)

\* Mutant: the size of the tile counts, not that of its source.
TooSmallForSource(roi, minification_factor) ==
  roi.w \div minification_factor < 2 \/ roi.h \div minification_factor < 2

\* CreatePyramidTile returns a nullptr for such a roi.
TooSmallForTile(roi, minification_factor) ==
  \/ ScaleByPyramidLayerMinusOne(roi.w, minification_factor) < 2
  \/ ScaleByPyramidLayerMinusOne(roi.h, minification_factor) < 2

CreatePyramidTile(tiles, roi, minification_factor) ==
  LET Scale(v) == ScaleByPyramidLayerMinusOne(v, minification_factor)
      items == [k \in GetTilesIntersecting(tiles, roi) |->
                  [bitmap |-> tiles[k].bitmap,
                   x |-> Scale(tiles[k].rect.x - roi.x),
                   y |-> Scale(tiles[k].rect.y - roi.y)]]
  IN  Decimate(Compose(Scale(roi.w), Scale(roi.h), items))
=============================================================================
