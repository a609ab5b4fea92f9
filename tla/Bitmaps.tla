-------------------------------- MODULE Bitmaps --------------------------------
(***************************************************************************)
(* Bitmaps, and what the pyramidizer does to them.  A pixel's value says   *)
(* where the pixel comes from: the index of a sub-block, or the background.*)
(* A bitmap is a record [w, h, pixel] with pixel[i][j] the pixel in column *)
(* i and row j.                                                            *)
(***************************************************************************)
EXTENDS Geometry

CONSTANT Background      \* the background color of the context

\* ComposeBitmaps::Compose: fill with the background, then CopyAt the bitmap
\* of each item [bitmap, x, y], in the order of their indices and clipped.
Compose(width, height, items) ==
  LET Covering(i, j) ==
        {k \in DOMAIN items :
           InRect([x |-> items[k].x, y |-> items[k].y,
                   w |-> items[k].bitmap.w, h |-> items[k].bitmap.h], i, j)}
      Topmost(i, j) == CHOOSE k \in Covering(i, j) : \A l \in Covering(i, j) : l <= k
  IN  [w |-> width, h |-> height,
       pixel |-> [i \in 0 .. width - 1 |-> [j \in 0 .. height - 1 |->
         IF Covering(i, j) = {} THEN Background
         ELSE LET top == items[Topmost(i, j)]
              IN  top.bitmap.pixel[i - top.x][j - top.y]]]]

\* DecimateOpenCV::Decimate halves the size.  Each pixel of cv::pyrDown is a
\* weighted mean centred on the even source pixel: the model keeps the centre.
Decimate(source) ==
  [w |-> source.w \div 2, h |-> source.h \div 2,
   pixel |-> [i \in 0 .. (source.w \div 2) - 1 |-> [j \in 0 .. (source.h \div 2) - 1 |->
     source.pixel[2 * i][2 * j]]]]
=============================================================================
