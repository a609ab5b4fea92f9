------------------------------- MODULE Geometry -------------------------------
(***************************************************************************)
(* Integer rectangles, and the arithmetic the pyramid is laid out with:    *)
(* PyramidUtilities::EnlargeAndLatch, TilingEnumerator and TileHelper.     *)
(* The code mixes int and uint32_t; an unsigned operation is modelled      *)
(* modulo UintModulus and converted back as two's complement.              *)
(***************************************************************************)
EXTENDS Integers

CONSTANT UintModulus     \* number of values of an unsigned integer (2^32)

ASSUME UintAssumption == UintModulus \in Nat \ {0} /\ UintModulus % 2 = 0

\* 1 << n.
PowerOfTwo[n \in Nat] == IF n = 0 THEN 1 ELSE 2 * PowerOfTwo[n - 1]

ASSUME UintWidthAssumption == \E width \in 1 .. 32 : UintModulus = PowerOfTwo[width]

IntMin == -(UintModulus \div 2)
IntMax == (UintModulus \div 2) - 1

ToUint(n) == n % UintModulus
ToInt(u)  == IF u <= IntMax THEN u ELSE u - UintModulus

Lesser(a, b)  == IF a <= b THEN a ELSE b
Greater(a, b) == IF a >= b THEN a ELSE b

-----------------------------------------------------------------------------
(* libCZI::IntRect.                                                        *)

IntRect == [x : Int, y : Int, w : Int, h : Int]

\* The rectangles a libCZI::IntRect can hold.
IsStoredRect(r) ==
  /\ r \in IntRect
  /\ \A v \in {r.x, r.y, r.w, r.h, r.x + r.w, r.y + r.h} : IntMin <= v /\ v <= IntMax

EmptyRect == [x |-> 0, y |-> 0, w |-> 0, h |-> 0]

IsNonEmpty(r) == r.w > 0 /\ r.h > 0

Intersect(a, b) ==
  LET x1 == Greater(a.x, b.x)
      y1 == Greater(a.y, b.y)
      x2 == Lesser(a.x + a.w, b.x + b.w)
      y2 == Lesser(a.y + a.h, b.y + b.h)
  IN  IF x1 < x2 /\ y1 < y2
      THEN [x |-> x1, y |-> y1, w |-> x2 - x1, h |-> y2 - y1]
      ELSE EmptyRect

Contains(a, b) ==
  a.x <= b.x /\ b.x + b.w <= a.x + a.w /\ a.y <= b.y /\ b.y + b.h <= a.y + a.h

\* The pixels of a rectangle.
InRect(r, x, y) == r.x <= x /\ x < r.x + r.w /\ r.y <= y /\ y < r.y + r.h

-----------------------------------------------------------------------------
(* PyramidUtilities::EnlargeAndLatch: one bound at a time.                 *)

Latch(v, multiple_of) == ToInt((ToUint(v) \div multiple_of) * multiple_of)

EnlargeAndLatch(rect, multiple_of) ==
  LET x1_latched == Latch(rect.x, multiple_of)
      y1_latched == Latch(rect.y, multiple_of)
      x2_latched == Latch(rect.x + rect.w + multiple_of - 1, multiple_of)
      y2_latched == Latch(rect.y + rect.h + multiple_of - 1, multiple_of)
  IN  [x |-> x1_latched, y |-> y1_latched,
       w |-> x2_latched - x1_latched, h |-> y2_latched - y1_latched]

-----------------------------------------------------------------------------
(* TilingEnumerator over roi with cells of tile_width x tile_height.       *)

TilesPerRow(roi, tile_width) == ToUint(roi.w + tile_width - 1) \div tile_width

GetNumberOfTiles(roi, tile_width, tile_height) ==
  ToUint(TilesPerRow(roi, tile_width)
           * (ToUint(roi.h + tile_height - 1) \div tile_height))

GetRoi(roi, tile_width, tile_height, tile_no) ==
  LET row == tile_no \div TilesPerRow(roi, tile_width)
      col == tile_no % TilesPerRow(roi, tile_width)
      dx  == ToInt(ToUint(col * tile_width))
      dy  == ToInt(ToUint(row * tile_height))
  IN  [x |-> roi.x + dx,
       y |-> roi.y + dy,
       w |-> Lesser(ToInt(tile_width), roi.w - dx),
       h |-> Lesser(ToInt(tile_height), roi.h - dy)]

-----------------------------------------------------------------------------
(* TileHelper.                                                             *)

\* The smallest rectangle around non-empty rectangles; empty if there are none.
BoundingBox(rects) ==
  LET Low(S)  == CHOOSE v \in S : \A u \in S : v <= u
      High(S) == CHOOSE v \in S : \A u \in S : v >= u
      x1 == Low({r.x : r \in rects})
      y1 == Low({r.y : r \in rects})
      x2 == High({r.x + r.w : r \in rects})
      y2 == High({r.y + r.h : r \in rects})
  IN  IF rects = {} THEN EmptyRect
      ELSE [x |-> x1, y |-> y1, w |-> x2 - x1, h |-> y2 - y1]

\* The loop of GetMinimalRectForRoi unites the non-empty intersections of the
\* tiles with rect, one Union at a time.
GetMinimalRectForRoi(tiles, rect) ==
  BoundingBox({p \in {Intersect(t, rect) : t \in tiles} : IsNonEmpty(p)})
=============================================================================
