--------------------------- MODULE FormatProofs ---------------------------
(***************************************************************************)
(* The arithmetic of pictures and packets, for every value of the          *)
(* constants.                                                              *)
(*                                                                         *)
(* Captured buffers: no accepted buffer or cursor bitmap is read past its  *)
(* memory, and turned pictures, damage and cursor agree pixel by pixel.    *)
(*                                                                         *)
(* RTP packets: the clock is exact and refuses just what does not fit, and *)
(* the fragments of a unit carry each of its bytes.                        *)
(*                                                                         *)
(* Protected regions: an accepted edit was made by a tab that showed the   *)
(* set it changed, and the emphasis map protects the pixels that the       *)
(* scores and pins name and clears the excluded ones, by the scalar        *)
(* reference and by the kernels, in a picture of any size; the two agree   *)
(* where the reference reads inside its levels.  Reference and kernels     *)
(* count in tiles and macroblocks, the property in pixels: many lemmas are *)
(* about the division between them.  The inductive invariant SalInv says   *)
(* what the revision is good for: a snapshot of the present revision shows *)
(* the present set.                                                        *)
(***************************************************************************)
EXTENDS CaptureGeometry, Saliency, RtpPacketizer, FiniteSetTheorems, SequenceTheorems, TLAPS

-----------------------------------------------------------------------------
(* Division of a length into pieces, from which tiles and macroblocks are  *)
(* counted.                                                                *)
LEMMA Quotient ==
  ASSUME NEW a \in Nat, NEW b \in Nat \ {0}
  PROVE  a \div b \in Nat /\ (a \div b) * b <= a /\ a < (a \div b) * b + b
OBVIOUS

LEMMA TimesMonotonic ==
  ASSUME NEW a \in Nat, NEW b \in Nat, NEW c \in Nat, a <= b
  PROVE  a * c <= b * c /\ a * c \in Nat /\ b * c \in Nat
OBVIOUS

LEMMA TimesStrict ==
  ASSUME NEW a \in Nat, NEW b \in Nat, NEW c \in Nat, a * c < b * c
  PROVE  a < b
<1> SUFFICES ASSUME b <= a PROVE FALSE
  OBVIOUS
<1>1. b * c <= a * c /\ b * c \in Nat /\ a * c \in Nat
  BY TimesMonotonic
<1> QED  BY <1>1

(* A quotient is the only number between these bounds. *)
LEMMA QuotientUnique ==
  ASSUME NEW a \in Nat, NEW b \in Nat \ {0}, NEW k \in Nat, k * b <= a, a < k * b + b
  PROVE  a \div b = k
<1> DEFINE d == a \div b
<1>1. d \in Nat /\ d * b <= a /\ a < d * b + b
  BY Quotient
<1> HIDE DEF d
<1>2. (d + 1) * b = d * b + b /\ (k + 1) * b = k * b + b /\ d * b \in Nat /\ k * b \in Nat
  BY <1>1
<1>3. d * b < (k + 1) * b /\ k * b < (d + 1) * b
  BY <1>1, <1>2
<1>4. d < k + 1 /\ k < d + 1
  BY <1>1, <1>3, TimesStrict
<1>5. d = k
  BY <1>1, <1>4
<1> QED  BY <1>5 DEF d

LEMMA LeastOfTwo ==
  ASSUME NEW a \in Int, NEW b \in Int
  PROVE  Min({a, b}) = IF a <= b THEN a ELSE b
BY DEF Min

LEMMA GreatestOfTwo ==
  ASSUME NEW a \in Int, NEW b \in Int
  PROVE  Max({a, b}) = IF a >= b THEN a ELSE b
BY DEF Max

-----------------------------------------------------------------------------
(* Captured buffers. *)

(* A product that is checked by a division fits its word.                  *)
LEMMA FitsByProduct ==
  ASSUME NEW a \in Nat, NEW b \in Nat, NEW n \in Nat, n < CapWord, CapWord \in Nat, a * b <= n
  PROVE  FitsWord(a, b)
<1>1. CASE a = 0
  BY <1>1 DEF FitsWord
<1>2. CASE a # 0
  <2> DEFINE d == (CapWord - 1) \div a
  <2>1. d \in Nat /\ CapWord - 1 < d * a + a
    BY <1>2, Quotient
  <2> HIDE DEF d
  <2>2. b * a = a * b /\ b * a \in Nat /\ d * a \in Nat /\ (d + 1) * a = d * a + a
    BY <2>1
  <2>3. b * a < (d + 1) * a
    BY <2>1, <2>2
  <2>4. b < d + 1
    BY <2>1, <2>3, TimesStrict
  <2> QED  BY <2>1, <2>4 DEF FitsWord, d
<1> QED  BY <1>1, <1>2

LEMMA SizesAreWords ==
  /\ \A n \in CapSizes : n \in Nat /\ n < CapWord
  /\ CapSide \in Nat /\ \A n \in Side : n \in Nat
BY GeometryAssumption DEF Side

(* A row of a crop lies within the rows of its buffer.                     *)
LEMMA RowInBuffer ==
  ASSUME NEW y \in Nat, NEW x \in Nat, NEW h \in Nat, NEW w \in Nat, NEW pitch \in Nat,
         NEW size \in Nat, y < h, x < w, size >= (h - 1) * pitch + w
  PROVE  y * pitch + x \in Nat /\ y * pitch + x < size
<1>1. y * pitch <= (h - 1) * pitch /\ y * pitch \in Nat /\ (h - 1) * pitch \in Nat
  BY TimesMonotonic
<1> QED  BY <1>1

(* An accepted buffer is never read past the mapped memory.                *)
LEMMA BufferReads ==
  ASSUME NEW b \in BufferShots, NEW meta \in CropMetas,
         NEW crop \in CaptureCrop(meta, b.width, b.height), ValidBuffer(b, crop),
         NEW offset \in CapSizes, NEW mapped \in CapSizes, ChunkFits(offset, b.size, mapped),
         NEW row \in 0..(crop.height - 1)
  PROVE  {offset + k : k \in RowRead(b, crop, row)} \subseteq 0..(mapped - 1)
<1>1. /\ b.width \in Nat /\ b.height \in Nat /\ b.pitch \in Nat /\ b.size \in Nat
      /\ offset \in Nat /\ mapped \in Nat
  <2>1. b.width \in Side /\ b.height \in Side /\ b.pitch \in CapSizes /\ b.size \in CapSizes
    BY DEF BufferShots
  <2> QED  BY <2>1, SizesAreWords DEF Side
<1>2. crop.x \in Nat /\ crop.y \in Nat /\ crop.width \in Nat /\ crop.height \in Nat
  <2>1. CASE meta.kind = "absent"
    BY <1>1, <2>1 DEF CaptureCrop, Rect
  <2>2. CASE meta.kind = "short"
    BY <2>2 DEF CaptureCrop
  <2>3. CASE meta.kind = "region"
    <3>1. meta.x >= 0 /\ meta.y >= 0 /\ crop = Rect(meta.x, meta.y, meta.width, meta.height)
      BY <2>3 DEF CaptureCrop
    <3>2. meta.x \in Int /\ meta.y \in Int /\ meta.width \in Nat /\ meta.height \in Nat
      BY GeometryAssumption DEF CropMetas, Side
    <3> QED  BY <3>1, <3>2 DEF Rect
  <2> QED  BY <2>1, <2>2, <2>3 DEF CropMetas
<1>3. /\ crop.x + crop.width <= b.width /\ crop.y + crop.height <= b.height
      /\ b.size >= (b.height - 1) * b.pitch + b.width * PixelBytes
      /\ b.pitch \in Nat /\ offset + b.size <= mapped
  BY <1>1, <1>2 DEF ValidBuffer, CropInside, RowsFit, ChunkFits
<1> SUFFICES ASSUME NEW k \in RowRead(b, crop, row) PROVE offset + k \in 0..(mapped - 1)
  OBVIOUS
<1> DEFINE y == crop.y + row
           from == y * b.pitch + crop.x * PixelBytes
           x == k - y * b.pitch
<1>4. y \in Nat /\ y < b.height
  BY <1>1, <1>2, <1>3
<1>5. y * b.pitch \in Nat
  BY <1>1, <1>4
<1> HIDE DEF y
<1>6. k \in Int /\ from <= k /\ k <= from + crop.width * PixelBytes - 1
  BY <1>1, <1>2, <1>5 DEF RowRead, y, PixelBytes
<1>7. x \in Nat /\ x < b.width * PixelBytes /\ k = y * b.pitch + x /\ b.width * PixelBytes \in Nat
  BY <1>1, <1>2, <1>3, <1>5, <1>6 DEF PixelBytes
<1> HIDE DEF x
<1>8. k \in Nat /\ k < b.size
  BY <1>1, <1>3, <1>4, <1>7, RowInBuffer
<1> QED  BY <1>1, <1>3, <1>8

(* An accepted cursor bitmap is read only within its metadata, and its     *)
(* packed copy is one the pool accepts.                                    *)
LEMMA CursorInBounds ==
  ASSUME NEW c \in CursorShots, CursorAccepted(c)
  PROVE  LET row == c.width * PixelBytes
         IN  /\ CursorReads(c) \subseteq (CursorHead + BitmapHead)..(c.size - 1)
             /\ ValidCursor(c.width, c.height, row, c.height * row)
<1> DEFINE row == c.width * PixelBytes
           at == c.at + c.offset
<1>1. /\ c.size \in Nat /\ c.size < CapWord /\ c.at \in Nat /\ c.offset \in Nat /\ c.stride \in Nat
      /\ c.width \in Nat /\ c.height \in Nat /\ CursorHead \in Nat /\ BitmapHead \in Nat
      /\ CapWord \in Nat
  <2>1. /\ c.size \in CapSizes /\ c.at \in Side /\ c.offset \in Side /\ c.stride \in CapSizes
        /\ c.width \in Side /\ c.height \in Side
    BY DEF CursorShots
  <2> QED  BY <2>1, SizesAreWords, GeometryAssumption DEF Side
<1>2. /\ at >= CursorHead + BitmapHead /\ at <= c.size
      /\ c.stride > 0 /\ c.width > 0 /\ c.height > 0 /\ c.stride >= row
      /\ (c.height - 1) * c.stride + row <= c.size - at
  BY <1>1 DEF CursorAccepted
<1>3. row \in Nat /\ row = c.width * 4 /\ (c.height - 1) \in Nat /\ at \in Nat
  BY <1>1, <1>2 DEF PixelBytes
<1>4. ASSUME NEW x \in 0..(c.width - 1), NEW y \in 0..(c.height - 1), NEW k \in Int,
             at + y * c.stride + x * PixelBytes <= k,
             k <= at + y * c.stride + x * PixelBytes + (PixelBytes - 1)
      PROVE  k \in (CursorHead + BitmapHead)..(c.size - 1)
  <2> DEFINE s == k - at - y * c.stride
  <2>1. y * c.stride \in Nat /\ x * PixelBytes = x * 4 /\ PixelBytes = 4
    BY <1>1 DEF PixelBytes
  <2>2. s \in Nat /\ s < row /\ k = at + (y * c.stride + s)
    BY <1>1, <1>3, <1>4, <2>1
  <2> HIDE DEF s
  <2>3. c.size - at \in Nat /\ c.size - at >= (c.height - 1) * c.stride + row /\ y \in Nat /\ y < c.height
    BY <1>1, <1>2, <1>3
  <2>4. y * c.stride + s \in Nat /\ y * c.stride + s < c.size - at
    <3> HIDE DEF row, at
    <3> QED  BY <1>1, <1>3, <2>2, <2>3, RowInBuffer
  <2> QED  BY <1>1, <1>2, <1>3, <2>2, <2>4
<1>5. CursorReads(c) \subseteq (CursorHead + BitmapHead)..(c.size - 1)
  <2> SUFFICES ASSUME NEW k \in CursorReads(c) PROVE k \in (CursorHead + BitmapHead)..(c.size - 1)
    OBVIOUS
  <2>1. PICK x \in 0..(c.width - 1), y \in 0..(c.height - 1) :
          k \in (c.at + c.offset + y * c.stride + x * PixelBytes)
                  ..(c.at + c.offset + y * c.stride + x * PixelBytes + (PixelBytes - 1))
    <3> DEFINE F(p, q) == c.at + c.offset + q * c.stride + p * PixelBytes
    <3>1. CursorReads(c) = UNION {F(p, q)..(F(p, q) + PixelBytes - 1) :
                                    p \in 0..(c.width - 1), q \in 0..(c.height - 1)}
      BY DEF CursorReads
    <3>2. PICK p \in 0..(c.width - 1), q \in 0..(c.height - 1) : k \in F(p, q)..(F(p, q) + PixelBytes - 1)
      <4> DEFINE W == {F(p, q)..(F(p, q) + PixelBytes - 1) :
                          p \in 0..(c.width - 1), q \in 0..(c.height - 1)}
      <4>1. k \in UNION W
        BY <3>1
      <4>2. PICK S \in W : k \in S
        <5> HIDE DEF W
        <5> QED  BY <4>1
      <4>3. PICK p \in 0..(c.width - 1), q \in 0..(c.height - 1) : S = F(p, q)..(F(p, q) + PixelBytes - 1)
        <5> HIDE DEF F
        <5> QED  OBVIOUS
      <4> HIDE DEF F, W
      <4> QED  BY <4>2, <4>3
    <3>3. F(p, q) \in Int /\ PixelBytes \in Int
      <4>1. q * c.stride \in Nat /\ p * PixelBytes \in Nat /\ PixelBytes \in Nat
        BY <1>1 DEF PixelBytes
      <4> QED  BY <1>1, <4>1
    <3>4. F(p, q) + PixelBytes - 1 = F(p, q) + (PixelBytes - 1)
      <4> HIDE DEF F
      <4> QED  BY <3>3
    <3> QED  BY <3>2, <3>4
  <2>2. y * c.stride \in Nat /\ x * PixelBytes \in Nat /\ PixelBytes = 4
    BY <1>1 DEF PixelBytes
  <2> QED  BY <1>1, <1>4, <2>1, <2>2
<1>6. ValidCursor(c.width, c.height, row, c.height * row)
  <2>1. c.width * PixelBytes <= c.size /\ FitsWord(c.width, PixelBytes)
    <3>1. (c.height - 1) * c.stride \in Nat
      BY <1>1, <1>3
    <3>2. c.width * PixelBytes <= c.size /\ PixelBytes \in Nat
      BY <1>1, <1>2, <1>3, <3>1 DEF PixelBytes
    <3> QED  BY <1>1, <3>2, FitsByProduct
  <2>2. (c.height - 1) * row <= (c.height - 1) * c.stride /\ (c.height - 1) * row \in Nat
        /\ (c.height - 1) * c.stride \in Nat
    <3> HIDE DEF row
    <3>1. row * (c.height - 1) <= c.stride * (c.height - 1)
      BY <1>1, <1>2, <1>3, TimesMonotonic
    <3> QED  BY <1>1, <1>3, <3>1
  <2>3. (c.height - 1) * row + row <= c.size
    BY <1>1, <1>2, <1>3, <2>2
  <2>4. FitsWord(c.height - 1, row)
    <3> HIDE DEF row
    <3>1. (c.height - 1) * row <= c.size
      BY <1>1, <1>3, <2>2, <2>3
    <3> QED  BY <1>1, <1>3, <3>1, FitsByProduct
  <2>5. c.height * row = (c.height - 1) * row + row
    BY <1>1, <1>3
  <2>6. RowsFit(c.height, row, row, c.height * row)
    <3> HIDE DEF row
    <3> QED  BY <1>1, <1>3, <2>2, <2>3, <2>4, <2>5 DEF RowsFit
  <2> QED  BY <1>1, <1>2, <1>3, <2>1, <2>6 DEF ValidCursor
<1> QED  BY <1>5, <1>6

(* ReadsInBounds, for all sizes. *)
THEOREM AcceptedReadsInBounds == ShotInit => ReadsInBounds
<1> SUFFICES ASSUME ShotInit PROVE ReadsInBounds
  OBVIOUS
<1>1. shot.kind = "buffer" => shot \in BufferShots
  BY DEF ShotInit, TurnShots, BufferShots, CursorShots
<1>2. shot.kind = "cursor" => shot \in CursorShots
  BY DEF ShotInit, TurnShots, BufferShots, CursorShots
<1> QED  BY <1>1, <1>2, BufferReads, CursorInBounds DEF ReadsInBounds

-----------------------------------------------------------------------------
(* Turned pictures. *)

Frame(crop, o) ==
  LET g == MakeGeometry(crop, o) IN (0..(g.width - 1)) \X (0..(g.height - 1))

Source(crop) == (0..(crop.width - 1)) \X (0..(crop.height - 1))

Shown(p, crop, o) == SourceCoordinate(p[1], p[2], crop.width, crop.height, o)

(* A crop, and a region of integer position with positive sides.           *)
CropOk(crop) ==
  crop.x \in Nat /\ crop.y \in Nat /\ crop.width \in Nat \ {0} /\ crop.height \in Nat \ {0}

RegionOk(d) == d.x \in Int /\ d.y \in Int /\ d.width \in Nat \ {0} /\ d.height \in Nat \ {0}

(* The sides of the frame are the crop's, exchanged or not.                *)
LEMMA FrameSides ==
  ASSUME NEW crop, NEW o
  PROVE  Frame(crop, o) = IF SwapsDimensions(o)
                          THEN (0..(crop.height - 1)) \X (0..(crop.width - 1))
                          ELSE (0..(crop.width - 1)) \X (0..(crop.height - 1))
<1>1. CASE SwapsDimensions(o)
  BY <1>1 DEF Frame, MakeGeometry
<1>2. CASE ~SwapsDimensions(o)
  BY <1>2 DEF Frame, MakeGeometry
<1> QED  BY <1>1, <1>2

(* A pixel of the frame shows a pixel of the crop, and is the one that the *)
(* cursor is reported at when it points there.                             *)
LEMMA ShownInSource ==
  ASSUME NEW crop, CropOk(crop), NEW o \in Orientations, NEW x \in Int, NEW y \in Int,
         <<x, y>> \in Frame(crop, o)
  PROVE  LET s == SourceCoordinate(x, y, crop.width, crop.height, o)
         IN  /\ s = <<s[1], s[2]>> /\ s[1] \in 0..(crop.width - 1) /\ s[2] \in 0..(crop.height - 1)
             /\ TransformCursorPosition(s[1] + crop.x, s[2] + crop.y, crop, o) = <<x, y>>
<1>1. CASE o = "upright"
  BY <1>1, FrameSides DEF CropOk, SwapsDimensions, SourceCoordinate, TransformCursorPosition
<1>2. CASE o = "rotate90"
  BY <1>2, FrameSides DEF CropOk, SwapsDimensions, SourceCoordinate, TransformCursorPosition
<1>3. CASE o = "rotate180"
  BY <1>3, FrameSides DEF CropOk, SwapsDimensions, SourceCoordinate, TransformCursorPosition
<1>4. CASE o = "rotate270"
  BY <1>4, FrameSides DEF CropOk, SwapsDimensions, SourceCoordinate, TransformCursorPosition
<1>5. CASE o = "flipped"
  BY <1>5, FrameSides DEF CropOk, SwapsDimensions, SourceCoordinate, TransformCursorPosition
<1>6. CASE o = "flipped90"
  BY <1>6, FrameSides DEF CropOk, SwapsDimensions, SourceCoordinate, TransformCursorPosition
<1>7. CASE o = "flipped180"
  BY <1>7, FrameSides DEF CropOk, SwapsDimensions, SourceCoordinate, TransformCursorPosition
<1>8. CASE o = "flipped270"
  BY <1>8, FrameSides DEF CropOk, SwapsDimensions, SourceCoordinate, TransformCursorPosition
<1> QED  BY <1>1, <1>2, <1>3, <1>4, <1>5, <1>6, <1>7, <1>8 DEF Orientations

(* Every pixel of the crop is shown, at the place of a cursor over it.     *)
LEMMA SourceIsShown ==
  ASSUME NEW crop, CropOk(crop), NEW o \in Orientations,
         NEW a \in 0..(crop.width - 1), NEW b \in 0..(crop.height - 1)
  PROVE  LET p == TransformCursorPosition(a + crop.x, b + crop.y, crop, o)
         IN  p \in Frame(crop, o) /\ Shown(p, crop, o) = <<a, b>>
<1>1. CASE o = "upright"
  BY <1>1, FrameSides DEF CropOk, SwapsDimensions, SourceCoordinate, TransformCursorPosition, Shown
<1>2. CASE o = "rotate90"
  BY <1>2, FrameSides DEF CropOk, SwapsDimensions, SourceCoordinate, TransformCursorPosition, Shown
<1>3. CASE o = "rotate180"
  BY <1>3, FrameSides DEF CropOk, SwapsDimensions, SourceCoordinate, TransformCursorPosition, Shown
<1>4. CASE o = "rotate270"
  BY <1>4, FrameSides DEF CropOk, SwapsDimensions, SourceCoordinate, TransformCursorPosition, Shown
<1>5. CASE o = "flipped"
  BY <1>5, FrameSides DEF CropOk, SwapsDimensions, SourceCoordinate, TransformCursorPosition, Shown
<1>6. CASE o = "flipped90"
  BY <1>6, FrameSides DEF CropOk, SwapsDimensions, SourceCoordinate, TransformCursorPosition, Shown
<1>7. CASE o = "flipped180"
  BY <1>7, FrameSides DEF CropOk, SwapsDimensions, SourceCoordinate, TransformCursorPosition, Shown
<1>8. CASE o = "flipped270"
  BY <1>8, FrameSides DEF CropOk, SwapsDimensions, SourceCoordinate, TransformCursorPosition, Shown
<1> QED  BY <1>1, <1>2, <1>3, <1>4, <1>5, <1>6, <1>7, <1>8 DEF Orientations

(* The turn of a region within the crop holds the pixels that show it.     *)
LEMMA TurnedRegion ==
  ASSUME NEW crop, CropOk(crop), NEW o \in Orientations, NEW d, RegionOk(d),
         d.x >= 0, d.y >= 0, d.x + d.width <= crop.width, d.y + d.height <= crop.height,
         NEW x \in Int, NEW y \in Int
  PROVE  LET t == TransformDamage(d, crop.width, crop.height, o)
             s == SourceCoordinate(x, y, crop.width, crop.height, o)
         IN  /\ RegionOk(t)
             /\ t.x <= x /\ x < t.x + t.width /\ t.y <= y /\ y < t.y + t.height
                <=> /\ <<x, y>> \in Frame(crop, o)
                    /\ d.x <= s[1] /\ s[1] < d.x + d.width /\ d.y <= s[2] /\ s[2] < d.y + d.height
<1>1. CASE o = "upright"
  BY <1>1, FrameSides DEF CropOk, RegionOk, SwapsDimensions, SourceCoordinate, TransformDamage
<1>2. CASE o = "rotate90"
  BY <1>2, FrameSides DEF CropOk, RegionOk, SwapsDimensions, SourceCoordinate, TransformDamage, Rect
<1>3. CASE o = "rotate180"
  BY <1>3, FrameSides DEF CropOk, RegionOk, SwapsDimensions, SourceCoordinate, TransformDamage, Rect
<1>4. CASE o = "rotate270"
  BY <1>4, FrameSides DEF CropOk, RegionOk, SwapsDimensions, SourceCoordinate, TransformDamage, Rect
<1>5. CASE o = "flipped"
  BY <1>5, FrameSides DEF CropOk, RegionOk, SwapsDimensions, SourceCoordinate, TransformDamage, Rect
<1>6. CASE o = "flipped90"
  BY <1>6, FrameSides DEF CropOk, RegionOk, SwapsDimensions, SourceCoordinate, TransformDamage, Rect
<1>7. CASE o = "flipped180"
  BY <1>7, FrameSides DEF CropOk, RegionOk, SwapsDimensions, SourceCoordinate, TransformDamage, Rect
<1>8. CASE o = "flipped270"
  BY <1>8, FrameSides DEF CropOk, RegionOk, SwapsDimensions, SourceCoordinate, TransformDamage, Rect
<1> QED  BY <1>1, <1>2, <1>3, <1>4, <1>5, <1>6, <1>7, <1>8 DEF Orientations

LEMMA PixelsMember ==
  ASSUME NEW r, RegionOk(r), NEW a \in Int, NEW b \in Int
  PROVE  <<a, b>> \in Pixels(r) <=> /\ r.x <= a /\ a < r.x + r.width
                                    /\ r.y <= b /\ b < r.y + r.height
BY DEF Pixels, RegionOk

(* A damaged region, clipped: nothing, or what of it lies in the crop.     *)
LEMMA ClippedRegion ==
  ASSUME NEW crop, CropOk(crop), NEW r, RegionOk(r)
  PROVE  \A d \in ClippedDamage(r, crop) :
           /\ RegionOk(d) /\ d.x >= 0 /\ d.y >= 0 /\ r.x >= 0 /\ r.y >= 0
           /\ d.x + d.width <= crop.width /\ d.y + d.height <= crop.height
           /\ \A a \in 0..(crop.width - 1), b \in 0..(crop.height - 1) :
                (d.x <= a /\ a < d.x + d.width /\ d.y <= b /\ b < d.y + d.height)
                <=> <<a + crop.x, b + crop.y>> \in Pixels(r)
<1> DEFINE left   == Max({r.x, crop.x})
           top    == Max({r.y, crop.y})
           right  == Min({r.x + r.width, crop.x + crop.width})
           bottom == Min({r.y + r.height, crop.y + crop.height})
<1> SUFFICES ASSUME NEW d \in ClippedDamage(r, crop)
             PROVE  /\ RegionOk(d) /\ d.x >= 0 /\ d.y >= 0 /\ r.x >= 0 /\ r.y >= 0
                    /\ d.x + d.width <= crop.width /\ d.y + d.height <= crop.height
                    /\ \A a \in 0..(crop.width - 1), b \in 0..(crop.height - 1) :
                         (d.x <= a /\ a < d.x + d.width /\ d.y <= b /\ b < d.y + d.height)
                         <=> <<a + crop.x, b + crop.y>> \in Pixels(r)
  OBVIOUS
<1>1. /\ r.x >= 0 /\ r.y >= 0 /\ left < right /\ top < bottom
      /\ d = Rect(left - crop.x, top - crop.y, right - left, bottom - top)
  BY DEF ClippedDamage
<1>2. /\ left = (IF r.x >= crop.x THEN r.x ELSE crop.x)
      /\ top = (IF r.y >= crop.y THEN r.y ELSE crop.y)
      /\ right = (IF r.x + r.width <= crop.x + crop.width THEN r.x + r.width ELSE crop.x + crop.width)
      /\ bottom = (IF r.y + r.height <= crop.y + crop.height THEN r.y + r.height
                   ELSE crop.y + crop.height)
  BY LeastOfTwo, GreatestOfTwo DEF RegionOk, CropOk
<1> HIDE DEF left, top, right, bottom
<1>3. /\ d.x = left - crop.x /\ d.y = top - crop.y /\ d.width = right - left
      /\ d.height = bottom - top
  BY <1>1 DEF Rect
<1>4. /\ RegionOk(d) /\ d.x >= 0 /\ d.y >= 0
      /\ d.x + d.width <= crop.width /\ d.y + d.height <= crop.height
  BY <1>1, <1>2, <1>3 DEF RegionOk, CropOk
<1>5. ASSUME NEW a \in 0..(crop.width - 1), NEW b \in 0..(crop.height - 1)
      PROVE  (d.x <= a /\ a < d.x + d.width /\ d.y <= b /\ b < d.y + d.height)
             <=> <<a + crop.x, b + crop.y>> \in Pixels(r)
  <2>1. a + crop.x \in Int /\ b + crop.y \in Int
    BY DEF CropOk
  <2>2. <<a + crop.x, b + crop.y>> \in Pixels(r)
        <=> /\ r.x <= a + crop.x /\ a + crop.x < r.x + r.width
            /\ r.y <= b + crop.y /\ b + crop.y < r.y + r.height
    BY <2>1, PixelsMember
  <2> QED  BY <1>1, <1>2, <1>3, <2>2 DEF RegionOk, CropOk
<1> QED  BY <1>1, <1>4, <1>5

(* Where clipping leaves nothing, no pixel of the crop was damaged.        *)
LEMMA ClippedAway ==
  ASSUME NEW crop, CropOk(crop), NEW r, RegionOk(r), ClippedDamage(r, crop) = {},
         r.x >= 0, r.y >= 0,
         NEW a \in 0..(crop.width - 1), NEW b \in 0..(crop.height - 1)
  PROVE  <<a + crop.x, b + crop.y>> \notin Pixels(r)
<1> DEFINE left   == Max({r.x, crop.x})
           top    == Max({r.y, crop.y})
           right  == Min({r.x + r.width, crop.x + crop.width})
           bottom == Min({r.y + r.height, crop.y + crop.height})
<1>1. ~(left < right /\ top < bottom)
  BY DEF ClippedDamage
<1>2. /\ left = (IF r.x >= crop.x THEN r.x ELSE crop.x)
      /\ top = (IF r.y >= crop.y THEN r.y ELSE crop.y)
      /\ right = (IF r.x + r.width <= crop.x + crop.width THEN r.x + r.width ELSE crop.x + crop.width)
      /\ bottom = (IF r.y + r.height <= crop.y + crop.height THEN r.y + r.height
                   ELSE crop.y + crop.height)
  BY LeastOfTwo, GreatestOfTwo DEF RegionOk, CropOk
<1> HIDE DEF left, top, right, bottom
<1>3. a + crop.x \in Int /\ b + crop.y \in Int
  BY DEF CropOk
<1>4. <<a + crop.x, b + crop.y>> \in Pixels(r)
      <=> /\ r.x <= a + crop.x /\ a + crop.x < r.x + r.width
          /\ r.y <= b + crop.y /\ b + crop.y < r.y + r.height
  BY <1>3, PixelsMember
<1> QED  BY <1>1, <1>2, <1>4 DEF RegionOk, CropOk

(* The frame has as many pixels as the crop.                               *)
LEMMA SourcePixels ==
  ASSUME NEW crop, CropOk(crop), NEW o
  PROVE  Cardinality(Source(crop)) = MakeGeometry(crop, o).width * MakeGeometry(crop, o).height
<1>1. crop.width \in Nat /\ crop.height \in Nat /\ crop.width > 0 /\ crop.height > 0
  BY DEF CropOk
<1>2. /\ IsFiniteSet(0..(crop.width - 1)) /\ Cardinality(0..(crop.width - 1)) = crop.width
      /\ IsFiniteSet(0..(crop.height - 1)) /\ Cardinality(0..(crop.height - 1)) = crop.height
  <2>1. 0 \in Int /\ crop.width - 1 \in Int /\ crop.height - 1 \in Int
    BY <1>1
  <2>2. Cardinality(0..(crop.width - 1)) = IF 0 > crop.width - 1 THEN 0 ELSE crop.width - 1 - 0 + 1
    BY <2>1, FS_Interval
  <2>3. Cardinality(0..(crop.height - 1)) = IF 0 > crop.height - 1 THEN 0 ELSE crop.height - 1 - 0 + 1
    BY <2>1, FS_Interval
  <2>4. IsFiniteSet(0..(crop.width - 1)) /\ IsFiniteSet(0..(crop.height - 1))
    BY <2>1, FS_Interval
  <2> QED  BY <1>1, <2>2, <2>3, <2>4
<1>3. Cardinality(Source(crop)) = crop.width * crop.height
  <2>1. Cardinality((0..(crop.width - 1)) \X (0..(crop.height - 1)))
          = Cardinality(0..(crop.width - 1)) * Cardinality(0..(crop.height - 1))
    BY <1>2, FS_Product
  <2> QED  BY <1>2, <2>1 DEF Source
<1>4. crop.width * crop.height = crop.height * crop.width
  BY <1>1
<1> QED  BY <1>3, <1>4 DEF MakeGeometry

(* The damage reported for a region of the window.                         *)
Damaged(r, crop, o) ==
  UNION {Pixels(TransformDamage(d, crop.width, crop.height, o)) : d \in ClippedDamage(r, crop)}

(* A pixel is reported damaged exactly when what it shows was.             *)
LEMMA DamageIsShown ==
  ASSUME NEW crop, CropOk(crop), NEW o \in Orientations, NEW r, RegionOk(r), r.y >= 0
  PROVE  Damaged(r, crop, o)
           = {p \in Frame(crop, o) : r.x >= 0 /\ <<Shown(p, crop, o)[1] + crop.x, Shown(p, crop, o)[2] + crop.y>>
                                                   \in Pixels(r)}
<1> DEFINE Hit(p) == r.x >= 0 /\ <<Shown(p, crop, o)[1] + crop.x, Shown(p, crop, o)[2] + crop.y>>
                                   \in Pixels(r)
<1>1. \A p \in Frame(crop, o) :
        /\ p[1] \in Int /\ p[2] \in Int /\ p = <<p[1], p[2]>>
        /\ Shown(p, crop, o)[1] \in 0..(crop.width - 1) /\ Shown(p, crop, o)[2] \in 0..(crop.height - 1)
  <2> SUFFICES ASSUME NEW p \in Frame(crop, o)
               PROVE  /\ p[1] \in Int /\ p[2] \in Int /\ p = <<p[1], p[2]>>
                      /\ Shown(p, crop, o)[1] \in 0..(crop.width - 1)
                      /\ Shown(p, crop, o)[2] \in 0..(crop.height - 1)
    OBVIOUS
  <2>1. p[1] \in Int /\ p[2] \in Int /\ p = <<p[1], p[2]>>
    BY FrameSides DEF CropOk
  <2>2. <<p[1], p[2]>> \in Frame(crop, o)
    BY <2>1
  <2> QED  BY <2>1, <2>2, ShownInSource DEF Shown
<1>2. CASE ClippedDamage(r, crop) = {}
  <2>1. Damaged(r, crop, o) = {}
    BY <1>2 DEF Damaged
  <2>2. ASSUME NEW p \in Frame(crop, o), Hit(p) PROVE FALSE
    <3> DEFINE a == Shown(p, crop, o)[1]
               b == Shown(p, crop, o)[2]
    <3>1. a \in 0..(crop.width - 1) /\ b \in 0..(crop.height - 1)
      BY <1>1
    <3>2. r.x >= 0 /\ <<a + crop.x, b + crop.y>> \in Pixels(r)
      BY <2>2
    <3> HIDE DEF a, b
    <3> QED  BY <1>2, <3>1, <3>2, ClippedAway
  <2> QED  BY <2>1, <2>2
<1>3. CASE ClippedDamage(r, crop) # {}
  <2>1. PICK d : ClippedDamage(r, crop) = {d}
    BY <1>3 DEF ClippedDamage
  <2> DEFINE t == TransformDamage(d, crop.width, crop.height, o)
  <2>2. Damaged(r, crop, o) = Pixels(t)
    BY <2>1 DEF Damaged
  <2>3. /\ RegionOk(d) /\ d.x >= 0 /\ d.y >= 0 /\ r.x >= 0
        /\ d.x + d.width <= crop.width /\ d.y + d.height <= crop.height
        /\ \A a \in 0..(crop.width - 1), b \in 0..(crop.height - 1) :
             (d.x <= a /\ a < d.x + d.width /\ d.y <= b /\ b < d.y + d.height)
             <=> <<a + crop.x, b + crop.y>> \in Pixels(r)
    BY <2>1, ClippedRegion
  <2>4. ASSUME NEW x \in Int, NEW y \in Int
        PROVE  /\ RegionOk(t)
               /\ <<x, y>> \in Pixels(t) <=> <<x, y>> \in Frame(crop, o) /\ Hit(<<x, y>>)
    <3> DEFINE s == SourceCoordinate(x, y, crop.width, crop.height, o)
    <3>1. /\ RegionOk(t)
          /\ t.x <= x /\ x < t.x + t.width /\ t.y <= y /\ y < t.y + t.height
             <=> /\ <<x, y>> \in Frame(crop, o)
                 /\ d.x <= s[1] /\ s[1] < d.x + d.width /\ d.y <= s[2] /\ s[2] < d.y + d.height
      BY <2>3, TurnedRegion
    <3>2. Shown(<<x, y>>, crop, o) = s
      BY DEF Shown
    <3> HIDE DEF t, s
    <3>3. <<x, y>> \in Pixels(t) <=> t.x <= x /\ x < t.x + t.width /\ t.y <= y /\ y < t.y + t.height
      BY <3>1, PixelsMember
    <3>4. ASSUME <<x, y>> \in Frame(crop, o)
          PROVE  Hit(<<x, y>>)
                 <=> d.x <= s[1] /\ s[1] < d.x + d.width /\ d.y <= s[2] /\ s[2] < d.y + d.height
      <4>1. s[1] \in 0..(crop.width - 1) /\ s[2] \in 0..(crop.height - 1)
        BY <1>1, <3>2, <3>4
      <4> QED  BY <2>3, <3>2, <4>1
    <3> HIDE DEF Hit
    <3> QED  BY <3>1, <3>3, <3>4
  <2>5. ASSUME NEW p \in Pixels(t) PROVE p \in Frame(crop, o) /\ Hit(p)
    <3>1. RegionOk(t)
      <4>1. 0 \in Int
        OBVIOUS
      <4> HIDE DEF t, Hit
      <4> QED  BY <2>4, <4>1
    <3> HIDE DEF t, Hit
    <3>2. p[1] \in Int /\ p[2] \in Int /\ p = <<p[1], p[2]>>
      BY <2>5, <3>1 DEF Pixels, RegionOk
    <3>3. <<p[1], p[2]>> \in Pixels(t)
      BY <3>2
    <3>4. <<p[1], p[2]>> \in Frame(crop, o) /\ Hit(<<p[1], p[2]>>)
      BY <2>4, <3>2, <3>3
    <3> QED  BY <3>2, <3>4
  <2>6. ASSUME NEW p \in Frame(crop, o), Hit(p) PROVE p \in Pixels(t)
    <3>1. p[1] \in Int /\ p[2] \in Int /\ p = <<p[1], p[2]>>
      BY <1>1
    <3> HIDE DEF t, Hit
    <3>2. <<p[1], p[2]>> \in Frame(crop, o) /\ Hit(<<p[1], p[2]>>)
      BY <2>6, <3>1
    <3>3. <<p[1], p[2]>> \in Pixels(t)
      BY <2>4, <3>1, <3>2
    <3> QED  BY <3>1, <3>3
  <2> HIDE DEF t, Hit
  <2>7. Pixels(t) = {p \in Frame(crop, o) : Hit(p)}
    BY <2>5, <2>6
  <2> QED  BY <2>2, <2>7 DEF Hit
<1> QED  BY <1>2, <1>3

(* Every pixel of the crop is shown once.                                  *)
LEMMA AllIsShown ==
  ASSUME NEW crop, CropOk(crop), NEW o \in Orientations
  PROVE  {Shown(p, crop, o) : p \in Frame(crop, o)} = Source(crop)
<1>1. ASSUME NEW p \in Frame(crop, o) PROVE Shown(p, crop, o) \in Source(crop)
  <2>1. p[1] \in Int /\ p[2] \in Int /\ p = <<p[1], p[2]>>
    BY FrameSides DEF CropOk
  <2>2. <<p[1], p[2]>> \in Frame(crop, o)
    BY <2>1
  <2> QED  BY <2>1, <2>2, ShownInSource DEF Shown, Source
<1>2. ASSUME NEW q \in Source(crop) PROVE \E p \in Frame(crop, o) : Shown(p, crop, o) = q
  <2>1. q[1] \in 0..(crop.width - 1) /\ q[2] \in 0..(crop.height - 1) /\ q = <<q[1], q[2]>>
    BY DEF Source
  <2> QED  BY <2>1, SourceIsShown
<1> QED  BY <1>1, <1>2

(* The crops of a window have positive sides.                              *)
LEMMA CropsOk ==
  ASSUME NEW w \in Nat, NEW h \in Nat, NEW crop \in Crops(w, h)
  PROVE  CropOk(crop)
BY DEF Crops, CropOk

(* Each conjunct of TurnsAgree, of one crop and one orientation.           *)
LEMMA TurnOfCrop ==
  ASSUME NEW crop, CropOk(crop), NEW o \in Orientations
  PROVE  LET frame == Frame(crop, o)
             At(p) == Shown(p, crop, o)
         IN  /\ \A x \in Int, y \in Nat, w \in 1..2, h \in 1..2 :
                  LET r == Rect(x, y, w, h)
                  IN  /\ Damaged(r, crop, o)
                           = {p \in frame : x >= 0 /\ <<At(p)[1] + crop.x, At(p)[2] + crop.y>>
                                                       \in Pixels(r)}
                      /\ \A d \in ClippedDamage(r, crop) : ValidDamage(d, crop)
             /\ \A p \in frame :
                  TransformCursorPosition(At(p)[1] + crop.x, At(p)[2] + crop.y, crop, o) = p
             /\ \A p \in frame, hot \in {0, 1} :
                  LET c == [x |-> At(p)[1] + crop.x, y |-> At(p)[2] + crop.y,
                            hotX |-> hot, hotY |-> hot, width |-> 2, height |-> 2]
                  IN  At(p) \in CursorPixels(c, crop)
<1>1. ASSUME NEW x \in Int, NEW y \in Nat, NEW w \in 1..2, NEW h \in 1..2
      PROVE  LET r == Rect(x, y, w, h)
             IN  /\ Damaged(r, crop, o)
                      = {p \in Frame(crop, o) :
                           x >= 0 /\ <<Shown(p, crop, o)[1] + crop.x, Shown(p, crop, o)[2] + crop.y>>
                                       \in Pixels(r)}
                 /\ \A d \in ClippedDamage(r, crop) : ValidDamage(d, crop)
  <2> DEFINE r == Rect(x, y, w, h)
  <2>1. RegionOk(r) /\ r.x = x /\ r.y >= 0
    BY DEF RegionOk, Rect
  <2> HIDE DEF r
  <2>2. \A d \in ClippedDamage(r, crop) : ValidDamage(d, crop)
    <3> SUFFICES ASSUME NEW d \in ClippedDamage(r, crop) PROVE ValidDamage(d, crop)
      OBVIOUS
    <3>1. /\ RegionOk(d) /\ d.x >= 0 /\ d.y >= 0
          /\ d.x + d.width <= crop.width /\ d.y + d.height <= crop.height
      BY <2>1, ClippedRegion
    <3> QED  BY <3>1 DEF ValidDamage, CropInside, RegionOk, CropOk
  <2>3. Damaged(r, crop, o)
          = {p \in Frame(crop, o) :
               r.x >= 0 /\ <<Shown(p, crop, o)[1] + crop.x, Shown(p, crop, o)[2] + crop.y>>
                             \in Pixels(r)}
    BY <2>1, DamageIsShown
  <2> QED  BY <2>1, <2>2, <2>3 DEF r
<1>2. ASSUME NEW p \in Frame(crop, o)
      PROVE  /\ Shown(p, crop, o)[1] \in 0..(crop.width - 1) /\ Shown(p, crop, o)[2] \in 0..(crop.height - 1)
             /\ Shown(p, crop, o) = <<Shown(p, crop, o)[1], Shown(p, crop, o)[2]>>
             /\ TransformCursorPosition(Shown(p, crop, o)[1] + crop.x, Shown(p, crop, o)[2] + crop.y,
                                        crop, o) = p
  <2>1. p[1] \in Int /\ p[2] \in Int /\ p = <<p[1], p[2]>>
    BY FrameSides DEF CropOk
  <2>2. <<p[1], p[2]>> \in Frame(crop, o)
    BY <2>1
  <2> QED  BY <2>1, <2>2, ShownInSource DEF Shown
<1>3. ASSUME NEW p \in Frame(crop, o), NEW hot \in {0, 1}
      PROVE  LET c == [x |-> Shown(p, crop, o)[1] + crop.x, y |-> Shown(p, crop, o)[2] + crop.y,
                       hotX |-> hot, hotY |-> hot, width |-> 2, height |-> 2]
             IN  Shown(p, crop, o) \in CursorPixels(c, crop)
  <2> DEFINE s == Shown(p, crop, o)
             a == s[1]
             b == s[2]
             c == [x |-> a + crop.x, y |-> b + crop.y, hotX |-> hot, hotY |-> hot,
                   width |-> 2, height |-> 2]
  <2>1. a \in 0..(crop.width - 1) /\ b \in 0..(crop.height - 1) /\ s = <<a, b>>
    BY <1>2
  <2> HIDE DEF s, a, b
  <2>2. <<a, b>> \in CursorPixels(c, crop)
    <3>1. /\ a - (a + crop.x - hot - crop.x) \in 0..1
          /\ b - (b + crop.y - hot - crop.y) \in 0..1
      BY <2>1 DEF CropOk
    <3>2. /\ c.x = a + crop.x /\ c.y = b + crop.y /\ c.hotX = hot /\ c.hotY = hot
          /\ c.width = 2 /\ c.height = 2
      <4> DEFINE i == a + crop.x
                 j == b + crop.y
      <4> HIDE DEF i, j
      <4>1. c = [x |-> i, y |-> j, hotX |-> hot, hotY |-> hot, width |-> 2, height |-> 2]
        BY DEF i, j
      <4>2. c.x = i /\ c.y = j /\ c.hotX = hot /\ c.hotY = hot /\ c.width = 2 /\ c.height = 2
        BY <4>1
      <4> QED  BY <4>2 DEF i, j
    <3> HIDE DEF c
    <3>3. /\ a - (c.x - c.hotX - crop.x) \in 0..(c.width - 1)
          /\ b - (c.y - c.hotY - crop.y) \in 0..(c.height - 1)
      <4>1. a \in Int /\ b \in Int /\ crop.x \in Int /\ crop.y \in Int /\ hot \in Int
        BY <2>1 DEF CropOk
      <4>2. c.width - 1 = 1 /\ c.height - 1 = 1
        BY <3>2
      <4> QED  BY <3>2, <4>1, <4>2
    <3> QED  BY <2>1, <3>3 DEF CursorPixels
  <2> QED  BY <2>1, <2>2 DEF s, a, b
<1> QED  BY <1>1, <1>2, <1>3

(* TurnsAgree, for windows of every size.                                  *)
THEOREM TurnedPicturesAgree == ShotInit => TurnsAgree
<1> SUFFICES ASSUME ShotInit, shot.kind = "turn",
                    NEW crop \in Crops(shot.width, shot.height)
             PROVE  LET o     == shot.orientation
                        g     == MakeGeometry(crop, o)
                        frame == (0..(g.width - 1)) \X (0..(g.height - 1))
                        At(p) == SourceCoordinate(p[1], p[2], crop.width, crop.height, o)
                    IN  /\ {At(p) : p \in frame} = (0..(crop.width - 1)) \X (0..(crop.height - 1))
                        /\ Cardinality({At(p) : p \in frame}) = g.width * g.height
                        /\ \A x \in -1..(shot.width - 1), y \in 0..(shot.height - 1), w \in 1..2, h \in 1..2 :
                             LET r == Rect(x, y, w, h)
                                 damaged == UNION {Pixels(TransformDamage(d, crop.width, crop.height, o)) :
                                                     d \in ClippedDamage(r, crop)}
                             IN  damaged = {p \in frame : x >= 0 /\ <<At(p)[1] + crop.x, At(p)[2] + crop.y>>
                                                                      \in Pixels(r)}
                                 /\ \A d \in ClippedDamage(r, crop) : ValidDamage(d, crop)
                        /\ \A p \in frame :
                             TransformCursorPosition(At(p)[1] + crop.x, At(p)[2] + crop.y, crop, o) = p
                        /\ \A p \in frame, hot \in {0, 1} :
                             LET c == [x |-> At(p)[1] + crop.x, y |-> At(p)[2] + crop.y,
                                       hotX |-> hot, hotY |-> hot, width |-> 2, height |-> 2]
                             IN  At(p) \in CursorPixels(c, crop)
  BY Zenon DEF TurnsAgree
<1> DEFINE o == shot.orientation
           frame == Frame(crop, o)
           At(p) == Shown(p, crop, o)
<1>1. shot.width \in Nat /\ shot.height \in Nat /\ o \in Orientations
  <2>1. shot \in TurnShots
    BY DEF ShotInit, TurnShots, BufferShots, CursorShots
  <2>2. shot.width \in Side /\ shot.height \in Side /\ o \in Orientations
    BY <2>1 DEF TurnShots
  <2> QED  BY <2>2, GeometryAssumption DEF Side
<1>2. CropOk(crop)
  BY <1>1, CropsOk
<1> HIDE DEF o
<1>3. {At(p) : p \in frame} = Source(crop)
  BY <1>1, <1>2, AllIsShown
<1>4. Cardinality({At(p) : p \in frame}) = MakeGeometry(crop, o).width * MakeGeometry(crop, o).height
  BY <1>2, <1>3, SourcePixels
<1>5. /\ \A x \in Int, y \in Nat, w \in 1..2, h \in 1..2 :
           LET r == Rect(x, y, w, h)
           IN  /\ Damaged(r, crop, o)
                    = {p \in frame : x >= 0 /\ <<At(p)[1] + crop.x, At(p)[2] + crop.y>>
                                                \in Pixels(r)}
               /\ \A d \in ClippedDamage(r, crop) : ValidDamage(d, crop)
      /\ \A p \in frame :
           TransformCursorPosition(At(p)[1] + crop.x, At(p)[2] + crop.y, crop, o) = p
      /\ \A p \in frame, hot \in {0, 1} :
           LET c == [x |-> At(p)[1] + crop.x, y |-> At(p)[2] + crop.y,
                     hotX |-> hot, hotY |-> hot, width |-> 2, height |-> 2]
           IN  At(p) \in CursorPixels(c, crop)
  BY <1>1, <1>2, TurnOfCrop
<1>6. \A x \in -1..(shot.width - 1), y \in 0..(shot.height - 1) : x \in Int /\ y \in Nat
  BY <1>1
<1> QED  BY <1>3, <1>4, <1>5, <1>6, Zenon DEF o, Frame, Source, Shown, Damaged

-----------------------------------------------------------------------------
(* RTP packets. *)

(* Whole seconds and the rest, converted apart, are the exact ticks.       *)
LEMMA SecondsApart ==
  ASSUME NEW delta \in Nat, NEW second \in Nat \ {0}, NEW rate \in Nat
  PROVE  /\ (delta \div second) * rate + ((delta % second) * rate) \div second
              = (delta * rate) \div second
         /\ (delta \div second) * rate \in Nat
         /\ ((delta % second) * rate) \div second \in Nat
<1> DEFINE whole == delta \div second
           rest  == delta % second
           part  == (rest * rate) \div second
<1>1. whole \in Nat /\ rest \in Nat /\ delta = whole * second + rest
  OBVIOUS
<1> HIDE DEF whole, rest
<1>2. rest * rate \in Nat /\ whole * rate \in Nat
  BY <1>1
<1>3. part \in Nat /\ part * second <= rest * rate /\ rest * rate < part * second + second
  BY <1>2, Quotient
<1> HIDE DEF part
<1>4. delta * rate = (whole * rate) * second + rest * rate
  BY <1>1
<1>5. (whole * rate + part) * second = (whole * rate) * second + part * second
      /\ (whole * rate) * second \in Nat /\ part * second \in Nat
  <2> DEFINE n == whole * rate
  <2>1. n \in Nat
    BY <1>2
  <2> HIDE DEF n
  <2>2. (n + part) * second = n * second + part * second /\ n * second \in Nat /\ part * second \in Nat
    BY <1>3, <2>1
  <2> QED  BY <2>2 DEF n
<1>6. whole * rate + part \in Nat /\ delta * rate \in Nat
  BY <1>2, <1>3
<1>7. /\ (whole * rate + part) * second <= delta * rate
      /\ delta * rate < (whole * rate + part) * second + second
  BY <1>2, <1>3, <1>4, <1>5
<1>8. (delta * rate) \div second = whole * rate + part
  BY <1>6, <1>7, QuotientUnique
<1> QED  BY <1>2, <1>3, <1>8 DEF whole, rest, part

(* The check of a product by a division refuses exactly what does not fit. *)
LEMMA ProductFits ==
  ASSUME NEW a \in Nat, NEW n \in Nat, NEW b \in Nat \ {0}
  PROVE  a <= n \div b <=> a * b <= n
<1> DEFINE d == n \div b
<1>1. d \in Nat /\ d * b <= n /\ n < d * b + b
  BY Quotient
<1> HIDE DEF d
<1>2. a * b \in Nat /\ d * b \in Nat /\ (d + 1) * b = d * b + b /\ (d + 1) * b \in Nat
  BY <1>1
<1>3. a <= d => a * b <= d * b
  BY <1>1, TimesMonotonic
<1>4. d + 1 <= a => (d + 1) * b <= a * b
  <2>1. d + 1 \in Nat
    BY <1>1
  <2> QED  BY <1>1, <2>1, TimesMonotonic
<1>5. a <= d <=> a * b <= n
  BY <1>1, <1>2, <1>3, <1>4
<1> QED  BY <1>5 DEF d

(* The clock's stamp is exact to the tick, and it refuses a time just when *)
(* it is before the base, its stamp does not fit the word, or the stamp is *)
(* not later than the last: no check of a partial sum is too strict or too *)
(* lax.                                                                    *)
THEOREM ClockIsExact ==
  ASSUME NEW p, p.base \in Nat, p.baseStamp \in Nat, p.baseStamp <= RtpWord,
         p.last \in Nat \cup {NoStamp}, NEW now \in Nat
  PROVE  LET exact == p.baseStamp + ((now - p.base) * RtpRate) \div RtpSecond
         IN  ClockMap(p, now) = IF \/ now < p.base
                                   \/ exact > RtpWord
                                   \/ p.last # NoStamp /\ exact <= p.last
                                  THEN NoStamp ELSE exact
<1> DEFINE delta == now - p.base
           whole == delta \div RtpSecond
           ticks == whole * RtpRate
           part  == ((delta % RtpSecond) * RtpRate) \div RtpSecond
           exact == p.baseStamp + (delta * RtpRate) \div RtpSecond
<1>1. RtpRate \in Nat \ {0} /\ RtpSecond \in Nat \ {0} /\ RtpWord \in Nat
  BY RtpAssumption
<1>2. ClockMap(p, now) = IF \/ now < p.base
                            \/ whole > RtpWord \div RtpRate
                            \/ part > RtpWord - ticks
                            \/ ticks + part > RtpWord - p.baseStamp
                            \/ p.last # NoStamp /\ p.baseStamp + ticks + part <= p.last
                           THEN NoStamp ELSE p.baseStamp + ticks + part
  BY DEF ClockMap
<1>3. CASE now < p.base
  BY <1>2, <1>3
<1>4. CASE ~(now < p.base)
  <2>1. delta \in Nat
    BY <1>4
  <2> HIDE DEF delta
  <2>2. ticks + part = (delta * RtpRate) \div RtpSecond /\ ticks \in Nat /\ part \in Nat
    BY <1>1, <2>1, SecondsApart
  <2>3. whole \in Nat
    BY <1>1, <2>1, Quotient
  <2> HIDE DEF whole
  <2>4. whole <= RtpWord \div RtpRate <=> ticks <= RtpWord
    BY <1>1, <2>3, ProductFits
  <2>5. RtpWord \div RtpRate \in Nat
    BY <1>1, Quotient
  <2> DEFINE limit == RtpWord \div RtpRate
             sum   == (delta * RtpRate) \div RtpSecond
  <2>6. exact = p.baseStamp + sum
    OBVIOUS
  <2>7. /\ ticks + part = sum /\ ticks \in Nat /\ part \in Nat /\ limit \in Nat
        /\ (whole <= limit <=> ticks <= RtpWord)
    BY <2>2, <2>4, <2>5
  <2>8. ClockMap(p, now) = IF \/ whole > limit
                              \/ part > RtpWord - ticks
                              \/ ticks + part > RtpWord - p.baseStamp
                              \/ p.last # NoStamp /\ p.baseStamp + ticks + part <= p.last
                             THEN NoStamp ELSE p.baseStamp + ticks + part
    BY <1>2, <1>4
  <2> HIDE DEF ticks, part, limit, sum, exact
  <2>9. p.baseStamp + ticks + part = exact
    BY <2>6, <2>7
  <2>10. (\/ whole > limit \/ part > RtpWord - ticks \/ ticks + part > RtpWord - p.baseStamp)
         <=> exact > RtpWord
    BY <1>1, <2>3, <2>6, <2>7
  <2>11. ClockMap(p, now) = IF exact > RtpWord \/ (p.last # NoStamp /\ exact <= p.last)
                            THEN NoStamp ELSE exact
    BY <2>8, <2>9, <2>10
  <2>12. ClockMap(p, now) = IF now < p.base \/ exact > RtpWord \/ (p.last # NoStamp /\ exact <= p.last)
                            THEN NoStamp ELSE exact
    BY <1>4, <2>11
  <2> QED  BY <2>12 DEF exact, delta
<1> QED  BY <1>3, <1>4

(* The fragments of a unit that is too long for one packet: each fits the  *)
(* limit and carries data, only the first is marked as the start and only  *)
(* the last as the end, and every byte of the unit behind its header is in *)
(* one fragment, at the place a receiver looks for it.                     *)
THEOREM FragmentsCarryUnit ==
  ASSUME NEW S, NEW nal \in Seq(S), Len(nal) > RtpPayloadMax
  PROVE  LET fragments == FragmentUnit(nal)
             data  == RtpPayloadMax - 2
             count == (Len(nal) - 1 + data - 1) \div data
         IN  /\ DOMAIN fragments = 1..count /\ count \in Nat /\ count > 1
             /\ \A k \in 1..count :
                  /\ Len(fragments[k]) > 2 /\ Len(fragments[k]) <= RtpPayloadMax
                  /\ fragments[k][1] = [nri |-> Header(nal).nri, type |-> FuA]
                  /\ fragments[k][2] = [start |-> k = 1, end |-> k = count, type |-> Header(nal).type]
             /\ \A i \in 2..Len(nal) :
                  LET k == ((i - 2) \div data) + 1
                      j == ((i - 2) % data) + 3
                  IN  k \in 1..count /\ j \in 3..Len(fragments[k]) /\ fragments[k][j] = nal[i]
<1> DEFINE data  == RtpPayloadMax - 2
           n     == Len(nal)
           count == (n - 1 + data - 1) \div data
<1>1. data \in Nat \ {0} /\ n \in Nat /\ n > data + 2 /\ RtpPayloadMax = data + 2
      /\ RtpPayloadMax \in Nat /\ DOMAIN nal = 1..n /\ (\A i \in 1..n : nal[i] \in S)
  BY RtpAssumption
<1>2. FragmentUnit(nal) = [k \in 1..count |-> Fragment(nal, 1 + (k - 1) * data)]
  BY <1>1 DEF FragmentUnit
<1> HIDE DEF data, n
<1>3. /\ count \in Nat /\ count * data <= n - 1 + data - 1 /\ n - 1 + data - 1 < count * data + data
      /\ count * data \in Nat
  BY <1>1, Quotient
<1> HIDE DEF count
<1>4. count > 1
  <2>1. 1 * data < count * data
    BY <1>1, <1>3
  <2> QED  BY <1>1, <1>3, <2>1, TimesStrict
<1>5. ASSUME NEW k \in 1..count
      PROVE  LET from == 1 + (k - 1) * data
                 left == n - from
             IN  /\ from \in Nat /\ left \in Nat /\ left > 0
                 /\ from = 1 <=> k = 1
                 /\ left <= data <=> k = count
                 /\ k < count => left > data
  <2> DEFINE m == (k - 1) * data
  <2>1. k - 1 \in Nat /\ m \in Nat /\ (count - 1) * data = count * data - data /\ (count - 1) \in Nat
    BY <1>1, <1>3
  <2>2. m <= (count - 1) * data /\ (count - 1) * data \in Nat
    <3>1. k - 1 <= count - 1
      BY <1>3
    <3> QED  BY <1>1, <2>1, <3>1, TimesMonotonic
  <2>3. m = 0 <=> k = 1
    <3>1. k # 1 => 1 * data <= m
      <4>1. k # 1 => 1 <= k - 1
        OBVIOUS
      <4> QED  BY <1>1, <2>1, <4>1, TimesMonotonic
    <3> QED  BY <1>1, <2>1, <3>1
  <2>4. k < count => m + data <= (count - 1) * data
    <3> SUFFICES ASSUME k < count PROVE m + data <= (count - 1) * data
      OBVIOUS
    <3>1. k \in Nat /\ k <= count - 1
      BY <1>3
    <3>2. k * data <= (count - 1) * data
      BY <1>1, <2>1, <3>1, TimesMonotonic
    <3>3. k * data = m + data
      BY <1>1, <3>1
    <3> QED  BY <3>2, <3>3
  <2>5. k = count => m = (count - 1) * data
    OBVIOUS
  <2> HIDE DEF m
  <2>6. /\ 1 + m \in Nat /\ n - (1 + m) \in Nat /\ n - (1 + m) > 0
        /\ 1 + m = 1 <=> k = 1
        /\ k < count => n - (1 + m) > data
        /\ k = count => n - (1 + m) <= data
    BY <1>1, <1>3, <2>1, <2>2, <2>3, <2>4, <2>5
  <2>7. n - (1 + m) <= data <=> k = count
    BY <1>1, <1>3, <2>1, <2>6
  <2> QED  BY <2>6, <2>7 DEF m
<1>6. ASSUME NEW k \in 1..count
      PROVE  LET from == 1 + (k - 1) * data
                 chunk == IF n - from <= data THEN n - from ELSE data
                 f == Fragment(nal, from)
             IN  /\ Len(f) = 2 + chunk /\ chunk \in Nat /\ chunk > 0 /\ chunk <= data
                 /\ f[1] = [nri |-> Header(nal).nri, type |-> FuA]
                 /\ f[2] = [start |-> k = 1, end |-> k = count, type |-> Header(nal).type]
                 /\ \A j \in 3..(2 + chunk) : f[j] = nal[from + j - 2]
  <2> DEFINE from == 1 + (k - 1) * data
             chunk == IF n - from <= data THEN n - from ELSE data
             f == Fragment(nal, from)
             head == <<[nri |-> Header(nal).nri, type |-> FuA],
                       [start |-> k = 1, end |-> k = count, type |-> Header(nal).type]>>
             body == SubSeq(nal, from + 1, from + chunk)
  <2>1. /\ from \in Nat /\ n - from \in Nat /\ n - from > 0 /\ (from = 1 <=> k = 1)
        /\ (n - from <= data <=> k = count)
    BY <1>5
  <2> HIDE DEF from
  <2>2. Min({n - from, data}) = chunk
    BY <1>1, <2>1, LeastOfTwo
  <2>3. chunk \in Nat /\ chunk > 0 /\ chunk <= data /\ from + chunk <= n
        /\ (chunk = n - from <=> k = count)
    BY <1>1, <2>1
  <2> HIDE DEF chunk
  <2>4. f = head \o body
    <3>1. f = <<[nri |-> Header(nal).nri, type |-> FuA],
                [start |-> from = 1, end |-> chunk = n - from, type |-> Header(nal).type]>> \o body
      BY <2>2 DEF Fragment, n, data
    <3>2. (from = 1) = (k = 1) /\ (chunk = n - from) = (k = count)
      BY <2>1, <2>3
    <3> QED  BY <3>1, <3>2
  <2>5. \A i \in (from + 1)..(from + chunk) : nal[i] \in S
    BY <1>1, <2>1, <2>3
  <2>6. /\ body \in Seq(S) /\ Len(body) = chunk
        /\ \A i \in 1..chunk : body[i] = nal[from + i]
    <3>1. from + 1 \in Int /\ from + chunk \in Int /\ from + 1 <= from + chunk
          /\ (from + chunk) - (from + 1) + 1 = chunk
      BY <2>1, <2>3
    <3>2. /\ body \in Seq(S) /\ Len(body) = chunk
          /\ \A i \in 1..chunk : body[i] = nal[(from + 1) + i - 1]
      BY <2>5, <3>1, SubSeqProperties
    <3>3. \A i \in 1..chunk : (from + 1) + i - 1 = from + i
      BY <2>1, <2>3
    <3> QED  BY <3>2, <3>3
  <2> DEFINE T == S \cup {head[1], head[2]}
  <2>7. head \in Seq(T) /\ Len(head) = 2 /\ body \in Seq(T)
    <3>1. S \subseteq T
      OBVIOUS
    <3>2. body \in Seq(T)
      <4> HIDE DEF body, T
      <4> QED  BY <2>6, <3>1, SeqMonotonic
    <3>3. Len(head) = 2 /\ head = <<head[1], head[2]>>
      OBVIOUS
    <3>4. head[1] \in T /\ head[2] \in T
      OBVIOUS
    <3>5. head \in Seq(T)
      <4> DEFINE a == head[1]
                 b == head[2]
      <4>1. a \in T /\ b \in T /\ head = <<a, b>>
        BY <3>3, <3>4
      <4> HIDE DEF T, head, a, b
      <4>2. <<a, b>> \in Seq(T)
        BY <4>1
      <4> QED  BY <4>1, <4>2
    <3> QED  BY <3>2, <3>3, <3>5
  <2>8. head[1] = [nri |-> Header(nal).nri, type |-> FuA]
        /\ head[2] = [start |-> k = 1, end |-> k = count, type |-> Header(nal).type]
    OBVIOUS
  <2> HIDE DEF head, body, T, f
  <2>9. /\ Len(f) = 2 + chunk
        /\ \A j \in 1..(2 + chunk) : f[j] = IF j <= 2 THEN head[j] ELSE body[j - 2]
    <3>1. /\ Len(head \o body) = Len(head) + Len(body)
          /\ \A j \in 1..Len(head) + Len(body) :
               (head \o body)[j] = IF j <= Len(head) THEN head[j] ELSE body[j - Len(head)]
      BY <2>7, ConcatProperties
    <3> QED  BY <2>4, <2>6, <2>7, <3>1
  <2>10. f[1] = head[1] /\ f[2] = head[2]
    BY <2>3, <2>9
  <2>11. \A j \in 3..(2 + chunk) : f[j] = nal[from + j - 2]
    <3> SUFFICES ASSUME NEW j \in 3..(2 + chunk) PROVE f[j] = nal[from + j - 2]
      OBVIOUS
    <3>1. f[j] = body[j - 2] /\ j - 2 \in 1..chunk /\ from + (j - 2) = from + j - 2
      BY <2>1, <2>3, <2>9
    <3> QED  BY <2>6, <3>1
  <2> QED  BY <2>3, <2>8, <2>9, <2>10, <2>11 DEF f, chunk, from
<1>7. ASSUME NEW i \in 2..n
      PROVE  LET k == ((i - 2) \div data) + 1
                 j == ((i - 2) % data) + 3
                 f == Fragment(nal, 1 + (k - 1) * data)
             IN  k \in 1..count /\ j \in 3..Len(f) /\ f[j] = nal[i]
  <2> DEFINE d == (i - 2) \div data
             e == (i - 2) % data
             k == d + 1
             j == e + 3
             from == 1 + (k - 1) * data
  <2>1. d \in Nat /\ e \in Nat /\ e < data /\ i - 2 = d * data + e /\ d * data \in Nat
    BY <1>1
  <2> HIDE DEF d, e
  <2>2. from = 1 + d * data /\ k \in Nat /\ k >= 1
    BY <2>1
  <2>3. d < count
    <3>1. d * data < count * data
      BY <1>1, <1>3, <2>1
    <3> QED  BY <1>1, <1>3, <2>1, <3>1, TimesStrict
  <2>4. k \in 1..count
    BY <1>3, <2>1, <2>3
  <2> DEFINE chunk == IF n - from <= data THEN n - from ELSE data
             f == Fragment(nal, from)
  <2>5. Len(f) = 2 + chunk /\ \A q \in 3..(2 + chunk) : f[q] = nal[from + q - 2]
    BY <1>6, <2>4
  <2> HIDE DEF k, from, f
  <2>6. j \in 3..(2 + chunk) /\ from + j - 2 = i
    BY <1>1, <2>1, <2>2
  <2> HIDE DEF j, chunk
  <2>7. k \in 1..count /\ j \in 3..Len(f) /\ f[j] = nal[i]
    BY <2>4, <2>5, <2>6
  <2> QED  BY <2>7 DEF k, j, from, f, d, e
<1>8. \A k \in 1..count : FragmentUnit(nal)[k] = Fragment(nal, 1 + (k - 1) * data)
  BY <1>2
<1>9. DOMAIN FragmentUnit(nal) = 1..count
  BY <1>2
<1>10. ASSUME NEW k \in 1..count
       PROVE  LET f == FragmentUnit(nal)[k]
              IN  /\ Len(f) > 2 /\ Len(f) <= RtpPayloadMax
                  /\ f[1] = [nri |-> Header(nal).nri, type |-> FuA]
                  /\ f[2] = [start |-> k = 1, end |-> k = count, type |-> Header(nal).type]
  <2> DEFINE from == 1 + (k - 1) * data
             chunk == IF n - from <= data THEN n - from ELSE data
             f == Fragment(nal, from)
  <2>1. /\ Len(f) = 2 + chunk /\ chunk \in Nat /\ chunk > 0 /\ chunk <= data
        /\ f[1] = [nri |-> Header(nal).nri, type |-> FuA]
        /\ f[2] = [start |-> k = 1, end |-> k = count, type |-> Header(nal).type]
    BY <1>6
  <2>2. FragmentUnit(nal)[k] = f
    BY <1>8
  <2> HIDE DEF f, chunk
  <2>3. Len(f) > 2 /\ Len(f) <= RtpPayloadMax
    BY <1>1, <2>1
  <2> QED  BY <2>1, <2>2, <2>3
<1>11. ASSUME NEW i \in 2..n
       PROVE  LET k == ((i - 2) \div data) + 1
                  j == ((i - 2) % data) + 3
              IN  k \in 1..count /\ j \in 3..Len(FragmentUnit(nal)[k]) /\ FragmentUnit(nal)[k][j] = nal[i]
  BY <1>7, <1>8
<1> QED  BY <1>3, <1>4, <1>9, <1>10, <1>11 DEF data, n, count

-----------------------------------------------------------------------------
(* Protected regions. *)

(* The greatest of some levels, of which there are five. *)
LEMMA GreatestLevel ==
  ASSUME NEW S \in SUBSET (0 .. 4), S # {}
  PROVE  Max(S) \in S /\ \A x \in S : x <= Max(S)
<1>1. \E x \in S : \A y \in S : x >= y
  <2>1. CASE 4 \in S
    BY <2>1
  <2>2. CASE 4 \notin S /\ 3 \in S
    BY <2>2
  <2>3. CASE 4 \notin S /\ 3 \notin S /\ 2 \in S
    BY <2>3
  <2>4. CASE 4 \notin S /\ 3 \notin S /\ 2 \notin S /\ 1 \in S
    BY <2>4
  <2>5. CASE 4 \notin S /\ 3 \notin S /\ 2 \notin S /\ 1 \notin S
    <3>1. \A x \in S : x = 0
      BY <2>5
    <3>2. PICK x \in S : TRUE
      OBVIOUS
    <3>3. \A y \in S : x >= y
      BY <3>1
    <3> QED  BY <3>3
  <2> QED  BY <2>1, <2>2, <2>3, <2>4, <2>5
<1>2. Max(S) \in S /\ \A y \in S : Max(S) >= y
  BY <1>1 DEF Max
<1> QED  BY <1>2

-----------------------------------------------------------------------------
(* The side of a picture: its length, its tiles and its macroblocks. *)
SideOk(length) == length \in Nat /\ length > 0 /\ length < SalWord

LEMMA SidesOfSizes ==
  ASSUME NEW size \in SalSizes
  PROVE  SideOk(size[1]) /\ SideOk(size[2]) /\ size = <<size[1], size[2]>>
BY SalAssumption DEF SideOk

(* The tiles of a side cover it, and the last one begins before its end. *)
LEMMA TilesOfSide ==
  ASSUME NEW length, SideOk(length)
  PROVE  /\ SalTile \in Nat \ {0} /\ SalRadius \in Nat /\ length \in Nat /\ length > 0
         /\ TileCount(length) \in Nat /\ TileCount(length) > 0
         /\ length <= TileCount(length) * SalTile
         /\ (TileCount(length) - 1) * SalTile < length
<1> DEFINE n == TileCount(length)
<1>1. SalTile \in Nat \ {0} /\ SalRadius \in Nat /\ length \in Nat
  BY SalAssumption DEF SideOk
<1>2. length > 0
  BY <1>1 DEF SideOk
<1>3. n \in Nat /\ n * SalTile <= length + SalTile - 1 /\ length + SalTile - 1 < n * SalTile + SalTile
  BY <1>1, <1>2, Quotient DEF TileCount
<1> HIDE DEF n
<1>4. length <= n * SalTile /\ (n - 1) * SalTile < length
  <2>1. n * SalTile \in Nat /\ (n - 1) * SalTile = n * SalTile - SalTile
    BY <1>1, <1>3
  <2> QED  BY <1>1, <1>3, <2>1
<1>5. n # 0
  <2> SUFFICES ASSUME n = 0 PROVE FALSE
    OBVIOUS
  <2>1. n * SalTile = 0
    BY <1>1
  <2> QED  BY <1>1, <1>2, <1>4, <2>1
<1> QED  BY <1>1, <1>2, <1>3, <1>4, <1>5 DEF n

(* A tile's pixels are the ones its span holds. *)
LEMMA SpanOfTile ==
  ASSUME NEW length, SideOk(length), NEW t \in 0 .. (TileCount(length) - 1)
  PROVE  /\ TileSpan(t, length)[1] = t * SalTile
         /\ TileSpan(t, length)[1] \in Nat /\ TileSpan(t, length)[2] \in Nat
         /\ TileSpan(t, length)[1] < TileSpan(t, length)[2] /\ TileSpan(t, length)[2] <= length
         /\ \A x \in Nat : x < length /\ x \div SalTile = t
                             <=> TileSpan(t, length)[1] <= x /\ x < TileSpan(t, length)[2]
<1> DEFINE a == t * SalTile
           b == (t + 1) * SalTile
           n == TileCount(length)
<1>1. SalTile \in Nat \ {0} /\ length \in Nat /\ n \in Nat /\ (n - 1) * SalTile < length /\ t \in Nat
      /\ n \in Nat \ {0}
  BY TilesOfSide
<1>2. a \in Nat /\ b \in Nat /\ b = a + SalTile
  BY <1>1
<1>3. a < length
  <2>1. a <= (n - 1) * SalTile
    BY <1>1, TimesMonotonic
  <2>2. (n - 1) * SalTile \in Nat
    BY <1>1
  <2> QED  BY <1>1, <1>2, <2>1, <2>2
<1>4. TileSpan(t, length) = <<a, Min({b, length})>>
  BY DEF TileSpan
<1>5. ASSUME NEW x \in Nat PROVE x \div SalTile = t <=> a <= x /\ x < b
  <2>1. ASSUME x \div SalTile = t PROVE a <= x /\ x < b
    <3>1. (x \div SalTile) * SalTile <= x /\ x < (x \div SalTile) * SalTile + SalTile
      BY <1>1, Quotient
    <3> QED  BY <1>2, <2>1, <3>1
  <2>2. ASSUME a <= x, x < b PROVE x \div SalTile = t
    <3>1. t * SalTile <= x /\ x < t * SalTile + SalTile
      BY <1>2, <2>2
    <3> QED  BY <1>1, <3>1, QuotientUnique
  <2> QED  BY <2>1, <2>2
<1> HIDE DEF n, b
<1>6. Min({b, length}) = IF b <= length THEN b ELSE length
  BY <1>1, <1>2, LeastOfTwo
<1>7. a = t * SalTile
  OBVIOUS
<1>8. TileSpan(t, length)[1] = a /\ TileSpan(t, length)[2] = IF b <= length THEN b ELSE length
  BY <1>4, <1>6
<1> HIDE DEF a
<1>9. ASSUME NEW x \in Nat
      PROVE  x < length /\ x \div SalTile = t
               <=> TileSpan(t, length)[1] <= x /\ x < TileSpan(t, length)[2]
  <2>1. x \div SalTile = t <=> a <= x /\ x < b
    BY <1>5
  <2>2. x < length /\ x < b <=> x < (IF b <= length THEN b ELSE length)
    BY <1>1, <1>2
  <2> QED  BY <1>8, <2>1, <2>2
<1>10. TileSpan(t, length)[2] \in Nat /\ a < TileSpan(t, length)[2] /\ TileSpan(t, length)[2] <= length
  BY <1>1, <1>2, <1>3, <1>8
<1> QED  BY <1>2, <1>7, <1>8, <1>9, <1>10

(* A pixel of the side lies in one of its tiles. *)
LEMMA TileOfPixel ==
  ASSUME NEW length, SideOk(length), NEW x \in 0 .. (length - 1)
  PROVE  x \div SalTile \in 0 .. (TileCount(length) - 1)
<1> DEFINE n == TileCount(length)
           k == x \div SalTile
<1>1. SalTile \in Nat \ {0} /\ length \in Nat /\ n \in Nat /\ length <= n * SalTile /\ x \in Nat
  BY TilesOfSide
<1>2. k \in Nat /\ k * SalTile <= x
  BY <1>1, Quotient
<1> HIDE DEF n, k
<1>3. k * SalTile < n * SalTile
  BY <1>1, <1>2
<1>4. k < n
  BY <1>1, <1>2, <1>3, TimesStrict
<1>5. k \in 0 .. (n - 1)
  BY <1>1, <1>2, <1>4
<1> QED  BY <1>5 DEF n, k

(* The reference counts pairs of tiles, the kernel pieces of the even      *)
(* side: they come to the same macroblocks.                                *)
LEMMA MacroblocksOfSide ==
  ASSUME NEW length, SideOk(length)
  PROVE  /\ Macroblocks(length) \in Nat /\ Macroblocks(length) = (TileCount(length) + 1) \div 2
         /\ TileCount(length) <= 2 * Macroblocks(length)
         /\ 2 * Macroblocks(length) <= TileCount(length) + 1
<1> DEFINE n == TileCount(length)
           m == (n + 1) \div 2
           coded == length + (length % 2)
           w == 2 * SalTile
<1>1. SalTile \in Nat \ {0} /\ length \in Nat /\ n \in Nat /\ n >= 1 /\ length <= n * SalTile
      /\ (n - 1) * SalTile < length /\ w \in Nat \ {0}
  BY TilesOfSide
<1>2. m \in Nat /\ m * 2 <= n + 1 /\ n + 1 < m * 2 + 2
  BY <1>1, Quotient
<1> HIDE DEF n, m
<1>3. coded \in Nat /\ length <= coded /\ coded <= length + 1 /\ coded % 2 = 0
  BY <1>1
<1>4. coded <= m * w
  <2>1. n * SalTile <= (2 * m) * SalTile
    <3>1. n <= 2 * m /\ 2 * m \in Nat
      BY <1>1, <1>2
    <3> QED  BY <1>1, <3>1, TimesMonotonic
  <2>2. (2 * m) * SalTile = m * w /\ m * w = 2 * (m * SalTile) /\ m * SalTile \in Nat
    BY <1>1, <1>2
  <2>3. length <= 2 * (m * SalTile)
    BY <1>1, <2>1, <2>2
  <2>4. PICK z \in Nat : z = m * SalTile
    BY <2>2
  <2>5. length + (length % 2) <= 2 * z
    BY <1>1, <2>3, <2>4
  <2> QED  BY <2>2, <2>4, <2>5
<1>5. m * w < coded + w
  <2>1. (2 * m) * SalTile <= (n + 1) * SalTile
    <3>1. 2 * m <= n + 1 /\ 2 * m \in Nat
      BY <1>1, <1>2
    <3> QED  BY <1>1, <3>1, TimesMonotonic
  <2>2. (2 * m) * SalTile = m * w /\ (n + 1) * SalTile = (n - 1) * SalTile + w
        /\ (n - 1) * SalTile \in Nat /\ m * w \in Nat
    BY <1>1, <1>2
  <2> QED  BY <1>1, <1>3, <2>1, <2>2
<1>6. Macroblocks(length) = (coded + w - 1) \div w
  BY DEF Macroblocks
<1> HIDE DEF coded, w
<1>7. (coded + w - 1) \div w = m
  <2>1. coded + w - 1 \in Nat /\ m * w \in Nat
    BY <1>1, <1>2, <1>3
  <2>2. m * w <= coded + w - 1 /\ coded + w - 1 < m * w + w
    BY <1>1, <1>3, <1>4, <1>5, <2>1
  <2> QED  BY <1>1, <1>2, <2>1, <2>2, QuotientUnique
<1>8. n <= 2 * m /\ 2 * m <= n + 1
  BY <1>1, <1>2
<1>9. Macroblocks(length) = m
  BY <1>6, <1>7
<1> QED  BY <1>2, <1>8, <1>9 DEF n, m

(* A macroblock is two tiles wide. *)
LEMMA MacroblockOfTile ==
  ASSUME NEW x \in Nat
  PROVE  /\ x \div (2 * SalTile) \in Nat
         /\ x \div SalTile \in (2 * (x \div (2 * SalTile))) .. (2 * (x \div (2 * SalTile)) + 1)
<1> DEFINE k == x \div SalTile
           m == x \div (2 * SalTile)
<1>1. SalTile \in Nat \ {0} /\ 2 * SalTile \in Nat \ {0}
  BY SalAssumption
<1>2. k \in Nat /\ k * SalTile <= x /\ x < k * SalTile + SalTile
  BY <1>1, Quotient
<1>3. m \in Nat /\ m * (2 * SalTile) <= x /\ x < m * (2 * SalTile) + 2 * SalTile
  BY <1>1, Quotient
<1> HIDE DEF k, m
<1>4. /\ m * (2 * SalTile) = (2 * m) * SalTile /\ (2 * m) * SalTile \in Nat
      /\ (2 * m + 2) * SalTile = (2 * m) * SalTile + 2 * SalTile
      /\ (k + 1) * SalTile = k * SalTile + SalTile /\ k * SalTile \in Nat
  BY <1>1, <1>2, <1>3
<1>5. (2 * m) * SalTile < (k + 1) * SalTile /\ k * SalTile < (2 * m + 2) * SalTile
  BY <1>1, <1>2, <1>3, <1>4
<1>6. 2 * m < k + 1 /\ k < 2 * m + 2
  <2>1. 2 * m \in Nat /\ k + 1 \in Nat /\ 2 * m + 2 \in Nat /\ SalTile \in Nat
    BY <1>1, <1>2, <1>3
  <2> QED  BY <1>2, <1>5, <2>1, TimesStrict
<1>7. k \in (2 * m) .. (2 * m + 1)
  BY <1>2, <1>3, <1>6
<1> QED  BY <1>3, <1>7 DEF k, m

-----------------------------------------------------------------------------
(* The spans that dilation reads: the kernel's stop at the edge, and the   *)
(* reference's hold them, and are the same where there are enough tiles.   *)
KernelSpan(t, n) ==
  (IF t > SalRadius THEN t - SalRadius ELSE 0) .. (IF t + SalRadius < n THEN t + SalRadius ELSE n - 1)

LEMMA SpanToRead ==
  ASSUME NEW length, SideOk(length), NEW t \in 0 .. (TileCount(length) - 1)
  PROVE  LET n == TileCount(length)
         IN  /\ KernelSpan(t, n) \subseteq 0 .. (n - 1) /\ t \in KernelSpan(t, n)
             /\ \A s \in 0 .. (n - 1) : t - s \in (-SalRadius) .. SalRadius => s \in KernelSpan(t, n)
             /\ KernelSpan(t, n) \subseteq DilateSpan(t, n)
             /\ n > SalRadius => DilateSpan(t, n) = KernelSpan(t, n)
<1> DEFINE n == TileCount(length)
<1>1. SalRadius \in Nat /\ n \in Nat /\ n > 0 /\ t \in Nat /\ t <= n - 1
  BY TilesOfSide
<1> HIDE DEF n
<1> DEFINE least == Min({SalRadius, n - 1})
           low == IF t > SalRadius THEN t - SalRadius ELSE 0
           high == IF t + SalRadius < n THEN t + SalRadius ELSE n - 1
           last == IF t > n - 1 - least THEN n - 1 ELSE t + SalRadius
<1>2. least = IF SalRadius <= n - 1 THEN SalRadius ELSE n - 1
  <2>1. SalRadius \in Int /\ n - 1 \in Int
    BY <1>1
  <2> QED  BY <2>1, LeastOfTwo
<1>3. DilateSpan(t, n) = low .. last /\ KernelSpan(t, n) = low .. high
  BY DEF DilateSpan, KernelSpan
<1> HIDE DEF least
<1>4. low \in Nat /\ high \in Nat /\ high <= n - 1 /\ low <= t /\ t <= high
  BY <1>1
<1>5. last \in Nat /\ high <= last /\ (n > SalRadius => last = high)
  BY <1>1, <1>2
<1>6. \A s \in 0 .. (n - 1) : t - s \in (-SalRadius) .. SalRadius => low <= s /\ s <= high
  BY <1>1
<1> HIDE DEF low, high, last
<1>7. /\ low .. high \subseteq 0 .. (n - 1) /\ t \in low .. high /\ low .. high \subseteq low .. last
      /\ \A s \in 0 .. (n - 1) : t - s \in (-SalRadius) .. SalRadius => s \in low .. high
  BY <1>1, <1>4, <1>5, <1>6
<1> QED  BY <1>3, <1>5, <1>7 DEF n

(* The tiles of a macroblock, in the reference and in the kernel. *)
PairOf(m, n) == (2 * m) .. (Min({2 * m + 2, n}) - 1)

LEMMA TilesOfMacroblock ==
  ASSUME NEW length, SideOk(length), NEW m \in 0 .. (Macroblocks(length) - 1)
  PROVE  LET n == TileCount(length)
         IN  /\ PairOf(m, n) = {t \in 0 .. (n - 1) : t \in (2 * m) .. (2 * m + 1)}
             /\ 2 * m \in PairOf(m, n)
<1> DEFINE n == TileCount(length)
<1>1. n \in Nat
  BY TilesOfSide
<1>2. m \in Nat /\ 2 * m < n
  <2>1. Macroblocks(length) \in Nat /\ 2 * Macroblocks(length) <= n + 1
    BY MacroblocksOfSide
  <2> QED  BY <1>1, <2>1
<1> HIDE DEF n
<1>3. Min({2 * m + 2, n}) = IF 2 * m + 2 <= n THEN 2 * m + 2 ELSE n
  <2>1. 2 * m + 2 \in Int /\ n \in Int
    BY <1>1, <1>2
  <2> QED  BY <2>1, LeastOfTwo
<1>4. \A t \in Int : t \in PairOf(m, n) <=> t \in 0 .. (n - 1) /\ t \in (2 * m) .. (2 * m + 1)
  BY <1>1, <1>2, <1>3 DEF PairOf
<1>5. PairOf(m, n) \subseteq Int
  BY DEF PairOf
<1>6. 2 * m \in PairOf(m, n)
  BY <1>1, <1>2, <1>4
<1>7. PairOf(m, n) = {t \in 0 .. (n - 1) : t \in (2 * m) .. (2 * m + 1)}
  BY <1>4, <1>5
<1> QED  BY <1>6, <1>7 DEF n

(* Along one side a rectangle meets a tile where they share a pixel. *)
SideMeets(from, count, span) ==
  count > 0 /\ from < span[2] /\ SaturatingAdd(from, count) > span[1]

LEMMA MeetsOnPixel ==
  ASSUME NEW length, SideOk(length), NEW t \in 0 .. (TileCount(length) - 1),
         NEW from \in Nat, NEW count \in Nat
  PROVE  count > 0 =>
           (SideMeets(from, count, TileSpan(t, length))
              <=> \E x \in from .. (from + count - 1) :
                     x \in 0 .. (length - 1) /\ x \div SalTile = t)
<1> DEFINE a == TileSpan(t, length)[1]
           b == TileSpan(t, length)[2]
<1>1. /\ a \in Nat /\ b \in Nat /\ a < b /\ b <= length
      /\ \A x \in Nat : x < length /\ x \div SalTile = t <=> a <= x /\ x < b
  BY SpanOfTile
<1>2. length \in Nat /\ SalWord \in Nat /\ length < SalWord
  BY SalAssumption DEF SideOk
<1> HIDE DEF a, b
<1>3. SaturatingAdd(from, count) = IF from + count <= SalWord - 1 THEN from + count ELSE SalWord - 1
  <2>1. from + count \in Int /\ SalWord - 1 \in Int
    BY <1>2
  <2> QED  BY <2>1, LeastOfTwo DEF SaturatingAdd
<1>4. SaturatingAdd(from, count) > a <=> from + count > a
  BY <1>1, <1>2, <1>3
<1>5. ASSUME count > 0
      PROVE (from < b /\ from + count > a) <=> \E x \in from .. (from + count - 1) : a <= x /\ x < b
  <2>1. ASSUME from < b, from + count > a
        PROVE  \E x \in from .. (from + count - 1) : a <= x /\ x < b
    <3>1. CASE from <= a
      <4>1. a \in from .. (from + count - 1) /\ a <= a /\ a < b
        BY <1>1, <2>1, <3>1
      <4> QED  BY <4>1
    <3>2. CASE ~(from <= a)
      <4>1. from \in from .. (from + count - 1) /\ a <= from /\ from < b
        BY <1>1, <1>5, <2>1, <3>2
      <4> QED  BY <4>1
    <3> QED  BY <3>1, <3>2
  <2>2. ASSUME NEW x \in from .. (from + count - 1), a <= x, x < b
        PROVE  from < b /\ from + count > a
    BY <1>1, <2>2
  <2> QED  BY <2>1, <2>2
<1>6. \A x \in from .. (from + count - 1) :
        x \in 0 .. (length - 1) /\ x \div SalTile = t <=> a <= x /\ x < b
  <2> SUFFICES ASSUME NEW x \in from .. (from + count - 1)
               PROVE  x \in 0 .. (length - 1) /\ x \div SalTile = t <=> a <= x /\ x < b
    OBVIOUS
  <2>1. x \in Nat /\ (x \in 0 .. (length - 1) <=> x < length)
    BY <1>2
  <2> QED  BY <1>1, <2>1
<1>7. count > 0 => (SideMeets(from, count, TileSpan(t, length)) <=> from < b /\ from + count > a)
  BY <1>4 DEF SideMeets, a, b
<1> QED  BY <1>5, <1>6, <1>7

-----------------------------------------------------------------------------
(* Pictures: the same in both directions. *)
LEMMA TileFields ==
  ASSUME NEW size \in SalSizes, NEW t \in Tiles(size)
  PROVE  /\ t = <<t[1], t[2]>>
         /\ t[1] \in 0 .. (TileCount(size[1]) - 1) /\ t[2] \in 0 .. (TileCount(size[2]) - 1)
BY DEF Tiles

LEMMA RectangleFields ==
  ASSUME NEW r \in Quadruples
  PROVE  r[1] \in Nat /\ r[2] \in Nat /\ r[3] \in Nat /\ r[4] \in Nat
BY DEF Quadruples

LEMMA CoveredFields ==
  ASSUME NEW r \in Quadruples, NEW p
  PROVE  p \in CoveredPixels(r) <=>
           \E x \in r[1] .. (r[1] + r[3] - 1), y \in r[2] .. (r[2] + r[4] - 1) : p = <<x, y>>
BY DEF CoveredPixels

LEMMA IntersectsOnPixel ==
  ASSUME NEW size \in SalSizes, NEW t \in Tiles(size), NEW r \in Quadruples
  PROVE  RectangleIntersects(r, t, size)
           <=> \E p \in CoveredPixels(r) \cap Picture(size) : TileOf(p) = t
<1> DEFINE h == TileSpan(t[1], size[1])
           v == TileSpan(t[2], size[2])
           inX(x) == x \in 0 .. (size[1] - 1) /\ x \div SalTile = t[1]
           inY(y) == y \in 0 .. (size[2] - 1) /\ y \div SalTile = t[2]
<1>1. /\ r[1] \in Nat /\ r[2] \in Nat /\ r[3] \in Nat /\ r[4] \in Nat
      /\ t = <<t[1], t[2]>>
      /\ t[1] \in 0 .. (TileCount(size[1]) - 1) /\ t[2] \in 0 .. (TileCount(size[2]) - 1)
      /\ SideOk(size[1]) /\ SideOk(size[2])
  BY TileFields, RectangleFields, SidesOfSizes
<1>2. RectangleIntersects(r, t, size) <=> SideMeets(r[1], r[3], h) /\ SideMeets(r[2], r[4], v)
  BY DEF RectangleIntersects, SideMeets
<1>3. r[3] > 0 => (SideMeets(r[1], r[3], h) <=> \E x \in r[1] .. (r[1] + r[3] - 1) : inX(x))
  BY <1>1, MeetsOnPixel
<1>4. r[4] > 0 => (SideMeets(r[2], r[4], v) <=> \E y \in r[2] .. (r[2] + r[4] - 1) : inY(y))
  BY <1>1, MeetsOnPixel
<1>5. (~(r[3] > 0) => ~SideMeets(r[1], r[3], h)) /\ (~(r[4] > 0) => ~SideMeets(r[2], r[4], v))
  BY DEF SideMeets
<1> HIDE DEF h, v
<1>6. ASSUME NEW x, NEW y
      PROVE  inX(x) /\ inY(y) <=> <<x, y>> \in Picture(size) /\ TileOf(<<x, y>>) = t
  BY <1>1 DEF Picture, TileOf
<1> HIDE DEF inX, inY
<1>7. (\E p \in CoveredPixels(r) \cap Picture(size) : TileOf(p) = t)
        <=> \E x \in r[1] .. (r[1] + r[3] - 1), y \in r[2] .. (r[2] + r[4] - 1) : inX(x) /\ inY(y)
  <2>1. ASSUME NEW p \in CoveredPixels(r) \cap Picture(size), TileOf(p) = t
        PROVE  \E x \in r[1] .. (r[1] + r[3] - 1), y \in r[2] .. (r[2] + r[4] - 1) : inX(x) /\ inY(y)
    <3>1. PICK x \in r[1] .. (r[1] + r[3] - 1), y \in r[2] .. (r[2] + r[4] - 1) : p = <<x, y>>
      BY CoveredFields
    <3>2. inX(x) /\ inY(y)
      BY <1>6, <2>1, <3>1
    <3> QED  BY <3>1, <3>2
  <2>2. ASSUME NEW x \in r[1] .. (r[1] + r[3] - 1), NEW y \in r[2] .. (r[2] + r[4] - 1),
               inX(x), inY(y)
        PROVE  \E p \in CoveredPixels(r) \cap Picture(size) : TileOf(p) = t
    <3>1. <<x, y>> \in CoveredPixels(r)
      BY CoveredFields
    <3>2. <<x, y>> \in Picture(size) /\ TileOf(<<x, y>>) = t
      BY <1>6, <2>2
    <3> QED  BY <3>1, <3>2
  <2> QED  BY <2>1, <2>2
<1>8. ASSUME NEW x \in r[1] .. (r[1] + r[3] - 1), NEW y \in r[2] .. (r[2] + r[4] - 1)
      PROVE  r[3] > 0 /\ r[4] > 0
  BY <1>1
<1> QED  BY <1>2, <1>3, <1>4, <1>5, <1>7, <1>8

(* The pixels of some rectangles, and the tiles they lie in. *)
CoveredBy(rects, size) == (UNION {CoveredPixels(r) : r \in rects}) \cap Picture(size)

LEMMA CoveredMember ==
  ASSUME NEW rects, NEW size, NEW p
  PROVE  p \in CoveredBy(rects, size)
           <=> p \in Picture(size) /\ \E r \in rects : p \in CoveredPixels(r)
<1>1. p \in UNION {CoveredPixels(r) : r \in rects} <=> \E r \in rects : p \in CoveredPixels(r)
  BY Zenon
<1> QED  BY <1>1 DEF CoveredBy

LEMMA PixelTile ==
  ASSUME NEW size \in SalSizes, NEW p \in Picture(size)
  PROVE  TileOf(p) \in Tiles(size)
<1>1. /\ p = <<p[1], p[2]>> /\ p[1] \in 0 .. (size[1] - 1) /\ p[2] \in 0 .. (size[2] - 1)
  BY DEF Picture
<1>2. /\ p[1] \div SalTile \in 0 .. (TileCount(size[1]) - 1)
      /\ p[2] \div SalTile \in 0 .. (TileCount(size[2]) - 1)
  BY <1>1, SidesOfSizes, TileOfPixel
<1> QED  BY <1>2 DEF TileOf, Tiles

LEMMA MarkedTiles ==
  ASSUME NEW size \in SalSizes, NEW rects \in SUBSET Quadruples
  PROVE  /\ CoveredTiles(rects, size) \subseteq Tiles(size)
         /\ \A t \in Tiles(size) : t \in CoveredTiles(rects, size) <=> AnyIntersection(rects, t, size)
<1>1. CoveredTiles(rects, size) \subseteq Tiles(size)
  <2>1. \A p \in CoveredBy(rects, size) : TileOf(p) \in Tiles(size)
    BY PixelTile, CoveredMember
  <2> QED  BY <2>1 DEF CoveredTiles, CoveredBy
<1>2. ASSUME NEW t \in Tiles(size)
      PROVE  t \in CoveredTiles(rects, size) <=> AnyIntersection(rects, t, size)
  <2>1. ASSUME t \in CoveredTiles(rects, size) PROVE AnyIntersection(rects, t, size)
    <3>1. PICK p \in CoveredBy(rects, size) : t = TileOf(p)
      BY <2>1 DEF CoveredTiles, CoveredBy
    <3>2. PICK r \in rects : p \in CoveredPixels(r) \cap Picture(size)
      BY <3>1, CoveredMember
    <3>3. RectangleIntersects(r, t, size)
      BY <3>1, <3>2, IntersectsOnPixel
    <3> QED  BY <3>3 DEF AnyIntersection
  <2>2. ASSUME AnyIntersection(rects, t, size) PROVE t \in CoveredTiles(rects, size)
    <3>1. PICK r \in rects : RectangleIntersects(r, t, size)
      BY <2>2 DEF AnyIntersection
    <3>2. PICK p \in CoveredPixels(r) \cap Picture(size) : TileOf(p) = t
      BY <3>1, IntersectsOnPixel
    <3>3. p \in CoveredBy(rects, size)
      BY <3>2, CoveredMember
    <3> QED  BY <3>2, <3>3 DEF CoveredTiles, CoveredBy
  <2> QED  BY <2>1, <2>2
<1> QED  BY <1>1, <1>2

-----------------------------------------------------------------------------
(* Levels: from the automatic ones to the map. *)
Levels(size) == [Tiles(size) -> 0 .. 4]

KernelSpans(t, size) ==
  KernelSpan(t[1], TileCount(size[1])) \X KernelSpan(t[2], TileCount(size[2]))

LEMMA SpansOfTile ==
  ASSUME NEW size \in SalSizes, NEW t \in Tiles(size)
  PROVE  /\ KernelSpans(t, size) \subseteq Tiles(size) /\ t \in KernelSpans(t, size)
         /\ \A s \in Tiles(size) : Near(t, s) => s \in KernelSpans(t, size)
         /\ KernelSpans(t, size) \subseteq SpansRead(t, size)
         /\ ReadsInside(size) => SpansRead(t, size) = KernelSpans(t, size)
<1> DEFINE w == TileCount(size[1])
           h == TileCount(size[2])
           across == KernelSpan(t[1], w)
           down == KernelSpan(t[2], h)
<1>1. t = <<t[1], t[2]>> /\ t[1] \in 0 .. (w - 1) /\ t[2] \in 0 .. (h - 1)
  BY TileFields
<1>2. /\ across \subseteq 0 .. (w - 1) /\ t[1] \in across
      /\ \A s \in 0 .. (w - 1) : t[1] - s \in (-SalRadius) .. SalRadius => s \in across
      /\ across \subseteq DilateSpan(t[1], w)
      /\ w > SalRadius => DilateSpan(t[1], w) = across
  BY <1>1, SidesOfSizes, SpanToRead
<1>3. /\ down \subseteq 0 .. (h - 1) /\ t[2] \in down
      /\ \A s \in 0 .. (h - 1) : t[2] - s \in (-SalRadius) .. SalRadius => s \in down
      /\ down \subseteq DilateSpan(t[2], h)
      /\ h > SalRadius => DilateSpan(t[2], h) = down
  BY <1>1, SidesOfSizes, SpanToRead
<1>4. /\ Tiles(size) = (0 .. (w - 1)) \X (0 .. (h - 1))
      /\ KernelSpans(t, size) = across \X down
      /\ SpansRead(t, size) = DilateSpan(t[1], w) \X DilateSpan(t[2], h)
  BY DEF Tiles, KernelSpans, SpansRead
<1>5. ReadsInside(size) => w > SalRadius /\ h > SalRadius
  BY DEF ReadsInside
<1> HIDE DEF w, h, across, down
<1>6. ASSUME NEW s \in Tiles(size), Near(t, s) PROVE s \in KernelSpans(t, size)
  <2>1. s = <<s[1], s[2]>> /\ s[1] \in 0 .. (w - 1) /\ s[2] \in 0 .. (h - 1)
    BY <1>4
  <2>2. t[1] - s[1] \in (-SalRadius) .. SalRadius /\ t[2] - s[2] \in (-SalRadius) .. SalRadius
    BY <1>6 DEF Near
  <2>3. s[1] \in across /\ s[2] \in down
    BY <1>2, <1>3, <2>1, <2>2
  <2> QED  BY <1>4, <2>1, <2>3
<1>7. KernelSpans(t, size) \subseteq Tiles(size) /\ KernelSpans(t, size) \subseteq SpansRead(t, size)
  BY <1>2, <1>3, <1>4
<1>8. t \in KernelSpans(t, size)
  BY <1>1, <1>2, <1>3, <1>4
<1>9. ReadsInside(size) => SpansRead(t, size) = KernelSpans(t, size)
  BY <1>2, <1>3, <1>4, <1>5
<1> QED  BY <1>6, <1>7, <1>8, <1>9

(* A tile of the picture is found where it is. *)
LEMMA AddressOfTile ==
  ASSUME NEW size \in SalSizes, NEW s \in Tiles(size)
  PROVE  Addressed(s, size) = s
<1>1. s = <<s[1], s[2]>> /\ s[1] \in 0 .. (TileCount(size[1]) - 1) /\ s[2] \in Nat
  <2>1. s = <<s[1], s[2]>> /\ s[1] \in 0 .. (TileCount(size[1]) - 1)
        /\ s[2] \in 0 .. (TileCount(size[2]) - 1)
    BY TileFields
  <2> QED  BY <2>1
<1>2. TileCount(size[1]) \in Nat \ {0}
  BY SidesOfSizes, TilesOfSide
<1>3. PICK w, x : w = TileCount(size[1]) /\ x = s[1]
  OBVIOUS
<1>4. w \in Nat \ {0} /\ x \in Nat /\ x < w
  BY <1>1, <1>2, <1>3
<1>5. x \div w = 0 /\ x % w = x
  BY <1>4
<1> QED  BY <1>1, <1>3, <1>5 DEF Addressed

(* What the reference dilates to is levels and keeps every neighbour's,    *)
(* whatever lies past the array.                                           *)
LEMMA DilatedLevels ==
  ASSUME NEW size \in SalSizes, NEW a \in Levels(size), NEW stray \in StrayLevels(size)
  PROVE  /\ Dilated(a, stray, size) \in Levels(size)
         /\ \A t, s \in Tiles(size) : Near(t, s) => Dilated(a, stray, size)[t] >= a[s]
         /\ ReadsInside(size) =>
              \A t \in Tiles(size) : Dilated(a, stray, size)[t] = Max({a[s] : s \in KernelSpans(t, size)})
<1> DEFINE d == Dilated(a, stray, size)
           R(t, s) == IF Addressed(s, size) \in Tiles(size) THEN a[Addressed(s, size)] ELSE stray[t]
           S(t) == {R(t, s) : s \in SpansRead(t, size)}
<1>1. d = [t \in Tiles(size) |-> Max(S(t))]
  BY DEF Dilated
<1>2. ASSUME NEW s \in Tiles(size), NEW t PROVE R(t, s) = a[s]
  BY AddressOfTile
<1>3. ASSUME NEW t \in Tiles(size), NEW s \in SpansRead(t, size) PROVE R(t, s) \in 0 .. 4
  <2>1. CASE Addressed(s, size) \in Tiles(size)
    BY <2>1 DEF Levels
  <2>2. CASE Addressed(s, size) \notin Tiles(size)
    <3>1. ReadsPastArray(t, size)
      BY <2>2 DEF ReadsPastArray
    <3>2. stray[t] \in SalStray
      BY <3>1 DEF StrayLevels
    <3> QED  BY <2>2, <3>2, SalAssumption
  <2> QED  BY <2>1, <2>2
<1> HIDE DEF R
<1>4. ASSUME NEW t \in Tiles(size)
      PROVE  /\ Max(S(t)) \in 0 .. 4 /\ \A x \in S(t) : x <= Max(S(t))
             /\ \A s \in Tiles(size) : Near(t, s) => a[s] \in S(t)
             /\ ReadsInside(size) => S(t) = {a[s] : s \in KernelSpans(t, size)}
  <2>1. S(t) \in SUBSET (0 .. 4)
    BY <1>3
  <2>2. /\ \A s \in KernelSpans(t, size) : s \in Tiles(size) /\ s \in SpansRead(t, size) /\ R(t, s) = a[s]
        /\ t \in KernelSpans(t, size)
    BY <1>2, SpansOfTile
  <2>3. a[t] \in S(t)
    BY <2>2
  <2>4. \A s \in Tiles(size) : Near(t, s) => a[s] \in S(t)
    BY <2>2, SpansOfTile
  <2>5. ReadsInside(size) => S(t) = {a[s] : s \in KernelSpans(t, size)}
    BY <2>2, SpansOfTile
  <2> HIDE DEF S
  <2>6. Max(S(t)) \in S(t) /\ \A x \in S(t) : x <= Max(S(t))
    BY <2>1, <2>3, GreatestLevel
  <2>7. Max(S(t)) \in 0 .. 4
    BY <2>1, <2>6
  <2> QED  BY <2>4, <2>5, <2>6, <2>7
<1>5. \A t \in Tiles(size) : d[t] = Max(S(t))
  BY <1>1
<1> HIDE DEF d, S
<1>6. d \in Levels(size)
  BY <1>1, <1>4 DEF Levels
<1>7. \A t, s \in Tiles(size) : Near(t, s) => d[t] >= a[s]
  <2> SUFFICES ASSUME NEW t \in Tiles(size), NEW s \in Tiles(size), Near(t, s) PROVE d[t] >= a[s]
    OBVIOUS
  <2>1. a[s] \in 0 .. 4
    BY DEF Levels
  <2>2. a[s] <= Max(S(t)) /\ Max(S(t)) \in 0 .. 4
    BY <1>4
  <2> QED  BY <1>5, <2>1, <2>2
<1>8. ReadsInside(size) => \A t \in Tiles(size) : d[t] = Max({a[s] : s \in KernelSpans(t, size)})
  BY <1>4, <1>5
<1> QED  BY <1>6, <1>7, <1>8 DEF d

(* And what the kernel dilates to. *)
KernelLevels(a, size) == [t \in Tiles(size) |-> Max({a[s] : s \in KernelSpans(t, size)})]

LEMMA KernelDilates ==
  ASSUME NEW size \in SalSizes, NEW a \in Levels(size)
  PROVE  /\ KernelLevels(a, size) \in Levels(size)
         /\ \A t, s \in Tiles(size) : Near(t, s) => KernelLevels(a, size)[t] >= a[s]
<1> DEFINE d == KernelLevels(a, size)
           S(t) == {a[s] : s \in KernelSpans(t, size)}
<1>1. d = [t \in Tiles(size) |-> Max(S(t))]
  BY DEF KernelLevels
<1>2. ASSUME NEW t \in Tiles(size)
      PROVE  /\ Max(S(t)) \in 0 .. 4 /\ \A x \in S(t) : x <= Max(S(t))
             /\ \A s \in Tiles(size) : Near(t, s) => a[s] \in S(t)
  <2>1. S(t) \in SUBSET (0 .. 4) /\ a[t] \in S(t)
    BY SpansOfTile DEF Levels
  <2> HIDE DEF S
  <2>2. Max(S(t)) \in S(t) /\ \A x \in S(t) : x <= Max(S(t))
    BY <2>1, GreatestLevel
  <2>3. \A s \in Tiles(size) : Near(t, s) => a[s] \in S(t)
    BY SpansOfTile DEF S
  <2> QED  BY <2>1, <2>2, <2>3
<1>3. \A t \in Tiles(size) : d[t] = Max(S(t))
  BY <1>1
<1> HIDE DEF d, S
<1>4. d \in Levels(size)
  BY <1>1, <1>2 DEF Levels
<1>5. \A t, s \in Tiles(size) : Near(t, s) => d[t] >= a[s]
  <2> SUFFICES ASSUME NEW t \in Tiles(size), NEW s \in Tiles(size), Near(t, s) PROVE d[t] >= a[s]
    OBVIOUS
  <2>1. a[s] \in 0 .. 4
    BY DEF Levels
  <2>2. a[s] <= Max(S(t)) /\ Max(S(t)) \in 0 .. 4
    BY <1>2
  <2> QED  BY <1>3, <2>1, <2>2
<1> QED  BY <1>4, <1>5 DEF d

LEMMA OverriddenLevels ==
  ASSUME NEW size \in SalSizes, NEW a \in Levels(size), NEW o
  PROVE  /\ Overridden(a, o, size) \in Levels(size)
         /\ \A t \in Tiles(size) :
              LET level == Overridden(a, o, size)[t]
              IN  /\ AnyIntersection(o.exclusions, t, size) => level = 0
                  /\ ~AnyIntersection(o.exclusions, t, size) =>
                       /\ level >= a[t]
                       /\ AnyIntersection(o.pins, t, size) => level >= 4
<1> DEFINE v == Overridden(a, o, size)
           S(t) == {a[t], IF AnyIntersection(o.halos, t, size) THEN 3 ELSE 0,
                    IF AnyIntersection(o.pins, t, size) THEN 4 ELSE 0}
           out(t) == AnyIntersection(o.exclusions, t, size)
<1>1. v = [t \in Tiles(size) |-> IF out(t) THEN 0 ELSE Max(S(t))]
  BY DEF Overridden
<1>2. ASSUME NEW t \in Tiles(size)
      PROVE  /\ Max(S(t)) \in 0 .. 4 /\ Max(S(t)) >= a[t]
             /\ AnyIntersection(o.pins, t, size) => Max(S(t)) >= 4
  <2>1. a[t] \in 0 .. 4
    BY DEF Levels
  <2>2. S(t) \in SUBSET (0 .. 4) /\ a[t] \in S(t)
        /\ (AnyIntersection(o.pins, t, size) => 4 \in S(t))
    BY <2>1
  <2> HIDE DEF S
  <2>3. Max(S(t)) \in S(t) /\ \A x \in S(t) : x <= Max(S(t))
    BY <2>2, GreatestLevel
  <2>4. Max(S(t)) \in 0 .. 4
    BY <2>2, <2>3
  <2> QED  BY <2>1, <2>2, <2>3, <2>4
<1> HIDE DEF S
<1>3. \A t \in Tiles(size) : v[t] = IF out(t) THEN 0 ELSE Max(S(t))
  BY <1>1
<1>4. v \in Levels(size)
  BY <1>1, <1>2 DEF Levels
<1> HIDE DEF v
<1> QED  BY <1>2, <1>3, <1>4 DEF v

-----------------------------------------------------------------------------
(* Macroblocks, each of up to two tiles by two. *)
Blocks(size) == (0 .. (Macroblocks(size[1]) - 1)) \X (0 .. (Macroblocks(size[2]) - 1))

TilesOf(m, size) ==
  PairOf(m[1], TileCount(size[1])) \X PairOf(m[2], TileCount(size[2]))

LEMMA BlockTiles ==
  ASSUME NEW size \in SalSizes, NEW m \in Blocks(size)
  PROVE  /\ TilesOf(m, size) \subseteq Tiles(size) /\ <<2 * m[1], 2 * m[2]>> \in TilesOf(m, size)
         /\ TilesOf(m, size) =
              {t \in Tiles(size) : \A side \in 1 .. 2 : t[side] \in (2 * m[side]) .. (2 * m[side] + 1)}
<1> DEFINE w == TileCount(size[1])
           h == TileCount(size[2])
           P == PairOf(m[1], w)
           Q == PairOf(m[2], h)
<1>1. m = <<m[1], m[2]>> /\ m[1] \in 0 .. (Macroblocks(size[1]) - 1)
      /\ m[2] \in 0 .. (Macroblocks(size[2]) - 1)
  BY DEF Blocks
<1>2. P = {t \in 0 .. (w - 1) : t \in (2 * m[1]) .. (2 * m[1] + 1)} /\ 2 * m[1] \in P
  BY <1>1, SidesOfSizes, TilesOfMacroblock
<1>3. Q = {t \in 0 .. (h - 1) : t \in (2 * m[2]) .. (2 * m[2] + 1)} /\ 2 * m[2] \in Q
  BY <1>1, SidesOfSizes, TilesOfMacroblock
<1>4. TilesOf(m, size) = P \X Q /\ Tiles(size) = (0 .. (w - 1)) \X (0 .. (h - 1))
  BY DEF TilesOf, Tiles
<1> HIDE DEF w, h, P, Q
<1>5. \A t \in Tiles(size) :
        (\A side \in 1 .. 2 : t[side] \in (2 * m[side]) .. (2 * m[side] + 1)) <=> t[1] \in P /\ t[2] \in Q
  BY <1>2, <1>3, <1>4
<1>6. TilesOf(m, size) \subseteq Tiles(size) /\ <<2 * m[1], 2 * m[2]>> \in TilesOf(m, size)
  BY <1>2, <1>3, <1>4
<1>7. \A t \in Tiles(size) : t \in TilesOf(m, size) <=> t[1] \in P /\ t[2] \in Q
  BY <1>4
<1> QED  BY <1>5, <1>6, <1>7

LEMMA ReducedLevels ==
  ASSUME NEW size \in SalSizes, NEW a \in Levels(size)
  PROVE  /\ ReducedToMacroblocks(a, size)
              = [m \in Blocks(size) |-> Max({a[t] : t \in TilesOf(m, size)})]
         /\ \A m \in Blocks(size) : \A t \in TilesOf(m, size) :
              ReducedToMacroblocks(a, size)[m] >= a[t]
         /\ \A m \in Blocks(size) :
              /\ ReducedToMacroblocks(a, size)[m] \in 0 .. 4
              /\ (\A t \in TilesOf(m, size) : a[t] = 0) => ReducedToMacroblocks(a, size)[m] = 0
<1> DEFINE b == ReducedToMacroblocks(a, size)
           S(m) == {a[t] : t \in TilesOf(m, size)}
<1>1. /\ Macroblocks(size[1]) = (TileCount(size[1]) + 1) \div 2
      /\ Macroblocks(size[2]) = (TileCount(size[2]) + 1) \div 2
  BY SidesOfSizes, MacroblocksOfSide
<1>2. b = [m \in Blocks(size) |-> Max(S(m))]
  BY <1>1 DEF ReducedToMacroblocks, Blocks, TilesOf, PairOf
<1>3. ASSUME NEW m \in Blocks(size)
      PROVE  /\ Max(S(m)) \in 0 .. 4 /\ Max(S(m)) \in S(m)
             /\ \A t \in TilesOf(m, size) : Max(S(m)) >= a[t]
  <2>1. S(m) \in SUBSET (0 .. 4) /\ a[<<2 * m[1], 2 * m[2]>>] \in S(m)
    BY BlockTiles DEF Levels
  <2> HIDE DEF S
  <2>2. Max(S(m)) \in S(m) /\ \A x \in S(m) : x <= Max(S(m))
    BY <2>1, GreatestLevel
  <2>3. Max(S(m)) \in 0 .. 4
    BY <2>1, <2>2
  <2>4. ASSUME NEW t \in TilesOf(m, size) PROVE Max(S(m)) >= a[t]
    <3>1. a[t] \in S(m)
      BY DEF S
    <3>2. a[t] \in 0 .. 4 /\ a[t] <= Max(S(m))
      BY <2>1, <2>2, <3>1
    <3> QED  BY <2>3, <3>2
  <2> QED  BY <2>2, <2>3, <2>4
<1>4. \A m \in Blocks(size) : b[m] = Max(S(m))
  BY <1>2
<1> HIDE DEF b
<1>5. ASSUME NEW m \in Blocks(size), \A t \in TilesOf(m, size) : a[t] = 0 PROVE b[m] = 0
  <2>1. \A x \in S(m) : x = 0
    BY <1>5
  <2> HIDE DEF S
  <2> QED  BY <1>3, <1>4, <2>1
<1>6. b = [m \in Blocks(size) |-> Max({a[t] : t \in TilesOf(m, size)})]
  BY <1>2
<1> HIDE DEF S
<1> QED  BY <1>3, <1>4, <1>5, <1>6 DEF b

(* The kernels go from dilated levels to the map as the reference does. *)
LEMMA MorphologyAgrees ==
  ASSUME NEW size \in SalSizes, NEW a \in Levels(size), NEW o
  PROVE  MorphologyKernel(a, o, size) = Overridden(KernelLevels(a, size), o, size)
<1> DEFINE w == TileCount(size[1])
           h == TileCount(size[2])
           low(t) == IF t > SalRadius THEN t - SalRadius ELSE 0
           high(t, n) == IF t + SalRadius < n THEN t + SalRadius ELSE n - 1
           level(t) == Max({a[s] : s \in (low(t[1]) .. high(t[1], w)) \X (low(t[2]) .. high(t[2], h))})
           d == KernelLevels(a, size)
           value(t, z) == IF AnyIntersection(o.exclusions, t, size) THEN 0
                          ELSE Max({z, IF AnyIntersection(o.halos, t, size) THEN 3 ELSE 0,
                                    IF AnyIntersection(o.pins, t, size) THEN 4 ELSE 0})
<1>1. MorphologyKernel(a, o, size) = [t \in Tiles(size) |-> value(t, level(t))]
  BY DEF MorphologyKernel
<1>2. Overridden(d, o, size) = [t \in Tiles(size) |-> value(t, d[t])]
  BY DEF Overridden
<1>3. ASSUME NEW t \in Tiles(size) PROVE level(t) = d[t]
  BY DEF KernelLevels, KernelSpans, KernelSpan
<1> HIDE DEF level, d, value
<1> QED  BY <1>1, <1>2, <1>3 DEF d

LEMMA ReductionAgrees ==
  ASSUME NEW size \in SalSizes, NEW a \in Levels(size)
  PROVE  ReductionKernel(a, size) = ReducedToMacroblocks(a, size)
<1> DEFINE T(m) == {s \in Tiles(size) :
                      \A side \in 1 .. 2 : s[side] \in (2 * m[side]) .. (2 * m[side] + 1)}
<1>1. ReductionKernel(a, size) = [m \in Blocks(size) |-> Max({a[t] : t \in T(m)})]
  BY DEF ReductionKernel, Blocks
<1>2. \A m \in Blocks(size) : T(m) = TilesOf(m, size)
  BY BlockTiles
<1> HIDE DEF T
<1>3. ReducedToMacroblocks(a, size) = [m \in Blocks(size) |-> Max({a[t] : t \in TilesOf(m, size)})]
  BY ReducedLevels
<1> QED  BY <1>1, <1>2, <1>3

(* The macroblock of a pixel, and a pixel of a macroblock's tile. *)
LEMMA PixelBlock ==
  ASSUME NEW size \in SalSizes, NEW p \in Picture(size)
  PROVE  MacroblockOf(p) \in Blocks(size) /\ TileOf(p) \in TilesOf(MacroblockOf(p), size)
<1> DEFINE m == MacroblockOf(p)
           t == TileOf(p)
<1>1. p = <<p[1], p[2]>> /\ p[1] \in Nat /\ p[2] \in Nat
  <2>1. p[1] \in 0 .. (size[1] - 1) /\ p[2] \in 0 .. (size[2] - 1) /\ p = <<p[1], p[2]>>
    BY DEF Picture
  <2> QED  BY <2>1
<1>2. m[1] \in Nat /\ t[1] \in (2 * m[1]) .. (2 * m[1] + 1)
  BY <1>1, MacroblockOfTile DEF MacroblockOf, TileOf
<1>3. m[2] \in Nat /\ t[2] \in (2 * m[2]) .. (2 * m[2] + 1)
  BY <1>1, MacroblockOfTile DEF MacroblockOf, TileOf
<1>4. t \in Tiles(size)
  BY PixelTile
<1>5. m = <<m[1], m[2]>>
  BY DEF MacroblockOf
<1> HIDE DEF m, t
<1>6. m \in Blocks(size)
  <2>1. t[1] \in 0 .. (TileCount(size[1]) - 1) /\ t[2] \in 0 .. (TileCount(size[2]) - 1)
    BY <1>4, TileFields
  <2>2. /\ Macroblocks(size[1]) \in Nat /\ TileCount(size[1]) <= 2 * Macroblocks(size[1])
        /\ Macroblocks(size[2]) \in Nat /\ TileCount(size[2]) <= 2 * Macroblocks(size[2])
        /\ TileCount(size[1]) \in Nat /\ TileCount(size[2]) \in Nat
    BY SidesOfSizes, MacroblocksOfSide, TilesOfSide
  <2>3. m[1] \in 0 .. (Macroblocks(size[1]) - 1)
    BY <1>2, <2>1, <2>2
  <2>4. m[2] \in 0 .. (Macroblocks(size[2]) - 1)
    BY <1>3, <2>1, <2>2
  <2> QED  BY <1>5, <2>3, <2>4 DEF Blocks
<1>7. \A side \in 1 .. 2 : t[side] \in (2 * m[side]) .. (2 * m[side] + 1)
  <2> TAKE side \in 1 .. 2
  <2>1. side = 1 \/ side = 2
    OBVIOUS
  <2> QED  BY <1>2, <1>3, <2>1
<1>8. t \in TilesOf(m, size)
  BY <1>4, <1>6, <1>7, BlockTiles
<1> QED  BY <1>6, <1>8 DEF m, t

LEMMA TileHasPixel ==
  ASSUME NEW size \in SalSizes, NEW m \in Blocks(size), NEW t \in TilesOf(m, size)
  PROVE  \E p \in Picture(size) : TileOf(p) = t /\ MacroblockOf(p) = m
<1> DEFINE x == t[1] * SalTile
           y == t[2] * SalTile
<1>1. t \in Tiles(size) /\ \A side \in 1 .. 2 : t[side] \in (2 * m[side]) .. (2 * m[side] + 1)
  BY BlockTiles
<1>2. t = <<t[1], t[2]>> /\ t[1] \in 0 .. (TileCount(size[1]) - 1)
      /\ t[2] \in 0 .. (TileCount(size[2]) - 1)
  BY <1>1, TileFields
<1>3. x \in Nat /\ x < size[1] /\ x \div SalTile = t[1]
  <2>1. /\ TileSpan(t[1], size[1])[1] = x /\ x \in Nat /\ x < TileSpan(t[1], size[1])[2]
        /\ TileSpan(t[1], size[1])[1] <= x
        /\ (x < size[1] /\ x \div SalTile = t[1]
              <=> TileSpan(t[1], size[1])[1] <= x /\ x < TileSpan(t[1], size[1])[2])
    BY <1>2, SidesOfSizes, SpanOfTile
  <2> QED  BY <2>1
<1>4. y \in Nat /\ y < size[2] /\ y \div SalTile = t[2]
  <2>1. /\ TileSpan(t[2], size[2])[1] = y /\ y \in Nat /\ y < TileSpan(t[2], size[2])[2]
        /\ TileSpan(t[2], size[2])[1] <= y
        /\ (y < size[2] /\ y \div SalTile = t[2]
              <=> TileSpan(t[2], size[2])[1] <= y /\ y < TileSpan(t[2], size[2])[2])
    BY <1>2, SidesOfSizes, SpanOfTile
  <2> QED  BY <2>1
<1> HIDE DEF x, y
<1>5. m = <<m[1], m[2]>> /\ m[1] \in Nat /\ m[2] \in Nat
  <2>1. m = <<m[1], m[2]>> /\ m[1] \in 0 .. (Macroblocks(size[1]) - 1)
        /\ m[2] \in 0 .. (Macroblocks(size[2]) - 1)
    BY DEF Blocks
  <2> QED  BY <2>1
<1>6. x \div (2 * SalTile) = m[1]
  <2>1. x \div (2 * SalTile) \in Nat
        /\ t[1] \in (2 * (x \div (2 * SalTile))) .. (2 * (x \div (2 * SalTile)) + 1)
    BY <1>3, MacroblockOfTile
  <2>2. t[1] \in (2 * m[1]) .. (2 * m[1] + 1)
    BY <1>1
  <2> QED  BY <1>5, <2>1, <2>2
<1>7. y \div (2 * SalTile) = m[2]
  <2>1. y \div (2 * SalTile) \in Nat
        /\ t[2] \in (2 * (y \div (2 * SalTile))) .. (2 * (y \div (2 * SalTile)) + 1)
    BY <1>4, MacroblockOfTile
  <2>2. t[2] \in (2 * m[2]) .. (2 * m[2] + 1)
    BY <1>1
  <2> QED  BY <1>5, <2>1, <2>2
<1>8. <<x, y>> \in Picture(size)
  <2>1. size[1] \in Nat /\ size[2] \in Nat
    BY SidesOfSizes DEF SideOk
  <2> QED  BY <1>3, <1>4, <2>1 DEF Picture
<1>9. TileOf(<<x, y>>) = t /\ MacroblockOf(<<x, y>>) = m
  BY <1>2, <1>3, <1>4, <1>5, <1>6, <1>7 DEF TileOf, MacroblockOf
<1> QED  BY <1>8, <1>9

-----------------------------------------------------------------------------
(* The map of a frame over its pixels: what MapFollowsPixels says of the   *)
(* output and of the scores that are kept for the next frame.              *)
MapRight(out, size) ==
  /\ Protects(out.map, out, size) /\ Protects(out.device, out, size)
  /\ ReadsInside(size) => out.map = out.device
  /\ ConflictTiles(size, out.overrides)
       = CoveredTiles(out.overrides.pins, size) \cap CoveredTiles(out.overrides.exclusions, size)

FreshRight(out, prior) ==
  out.fresh => \A t \in prior.active : prior.score[t] >= EntryThreshold

LEMMA RightIsFaithful ==
  ASSUME sal.out.frame > 0 => MapRight(sal.out, sal.prior.size) /\ FreshRight(sal.out, sal.prior)
  PROVE  MapFollowsPixels
BY DEF MapRight, FreshRight, MapFollowsPixels

LEMMA MapOfLevels ==
  ASSUME NEW size \in SalSizes, NEW out, out.automatic \in Levels(size),
         out.overrides.pins \in SUBSET Quadruples, out.overrides.exclusions \in SUBSET Quadruples,
         NEW d \in Levels(size),
         \A t, s \in Tiles(size) : Near(t, s) => d[t] >= out.automatic[s]
  PROVE  Protects(ReducedToMacroblocks(Overridden(d, out.overrides, size), size), out, size)
<1> DEFINE o == out.overrides
           a == out.automatic
           v == Overridden(d, o, size)
           b == ReducedToMacroblocks(v, size)
           excluded == CoveredTiles(o.exclusions, size)
           pinned == CoveredTiles(o.pins, size)
<1>1. /\ v \in Levels(size)
      /\ \A t \in Tiles(size) :
           /\ AnyIntersection(o.exclusions, t, size) => v[t] = 0
           /\ ~AnyIntersection(o.exclusions, t, size) =>
                v[t] >= d[t] /\ (AnyIntersection(o.pins, t, size) => v[t] >= 4)
  BY OverriddenLevels
<1>2. /\ b = [m \in Blocks(size) |-> Max({v[t] : t \in TilesOf(m, size)})]
      /\ \A m \in Blocks(size) : \A t \in TilesOf(m, size) : b[m] >= v[t]
      /\ \A m \in Blocks(size) :
           b[m] \in 0 .. 4 /\ ((\A t \in TilesOf(m, size) : v[t] = 0) => b[m] = 0)
  <2> HIDE DEF v
  <2> QED  BY <1>1, ReducedLevels
<1>3. /\ excluded \subseteq Tiles(size)
      /\ \A t \in Tiles(size) : t \in excluded <=> AnyIntersection(o.exclusions, t, size)
  BY MarkedTiles
<1>4. /\ pinned \subseteq Tiles(size)
      /\ \A t \in Tiles(size) : t \in pinned <=> AnyIntersection(o.pins, t, size)
  BY MarkedTiles
<1>5. DOMAIN b = Blocks(size)
  BY <1>2
<1> HIDE DEF a, v, b, excluded, pinned
<1>6. Blocks(size) = {MacroblockOf(p) : p \in Picture(size)}
  <2>1. \A p \in Picture(size) : MacroblockOf(p) \in Blocks(size)
    BY PixelBlock
  <2>2. ASSUME NEW m \in Blocks(size) PROVE \E p \in Picture(size) : MacroblockOf(p) = m
    <3>1. <<2 * m[1], 2 * m[2]>> \in TilesOf(m, size)
      BY BlockTiles
    <3> QED  BY <3>1, TileHasPixel
  <2> QED  BY <2>1, <2>2
<1>7. ASSUME NEW m \in Blocks(size),
              {TileOf(p) : p \in {k \in Picture(size) : MacroblockOf(k) = m}} \subseteq excluded
       PROVE  b[m] = 0
  <2>1. ASSUME NEW t \in TilesOf(m, size) PROVE v[t] = 0
    <3>1. PICK p \in Picture(size) : TileOf(p) = t /\ MacroblockOf(p) = m
      BY TileHasPixel
    <3>2. t \in excluded /\ t \in Tiles(size)
      BY <1>3, <1>7, <3>1
    <3> QED  BY <1>1, <1>3, <3>2
  <2> QED  BY <1>2, <2>1
<1>8. ASSUME NEW p \in Picture(size), TileOf(p) \notin excluded
       PROVE  /\ TileOf(p) \in pinned => b[MacroblockOf(p)] >= 4
              /\ \A s \in Tiles(size) : Near(TileOf(p), s) => b[MacroblockOf(p)] >= a[s]
  <2> DEFINE t == TileOf(p)
             m == MacroblockOf(p)
  <2>1. m \in Blocks(size) /\ t \in TilesOf(m, size) /\ t \in Tiles(size)
    BY PixelBlock, PixelTile
  <2> HIDE DEF t, m
  <2>2. b[m] >= v[t] /\ v[t] \in 0 .. 4 /\ d[t] \in 0 .. 4 /\ b[m] \in 0 .. 4
    <3>1. v[t] \in 0 .. 4 /\ d[t] \in 0 .. 4
      BY <1>1, <2>1 DEF Levels
    <3> QED  BY <1>2, <2>1, <3>1
  <2>3. v[t] >= d[t] /\ (t \in pinned => v[t] >= 4)
    BY <1>1, <1>3, <1>4, <1>8, <2>1 DEF t
  <2>4. ASSUME NEW s \in Tiles(size), Near(t, s) PROVE b[m] >= a[s]
    <3>1. d[t] >= a[s]
      BY <2>1, <2>4 DEF a
    <3>2. a[s] \in 0 .. 4
      BY DEF Levels, a
    <3> QED  BY <2>2, <2>3, <3>1, <3>2
  <2>5. t \in pinned => b[m] >= 4
    BY <2>2, <2>3
  <2> QED  BY <2>4, <2>5 DEF t, m
<1> QED  BY <1>5, <1>6, <1>7, <1>8 DEF Protects, a, b, v, excluded, pinned

LEMMA MapOfFrame ==
  ASSUME NEW size \in SalSizes, NEW out, out.automatic \in Levels(size),
         out.overrides.pins \in SUBSET Quadruples, out.overrides.exclusions \in SUBSET Quadruples,
         NEW stray \in StrayLevels(size),
         out.map = ReducedToMacroblocks(
                     Overridden(Dilated(out.automatic, stray, size), out.overrides, size), size),
         out.device = ReductionKernel(MorphologyKernel(out.automatic, out.overrides, size), size)
  PROVE  MapRight(out, size)
<1> DEFINE o == out.overrides
           d == Dilated(out.automatic, stray, size)
           k == KernelLevels(out.automatic, size)
<1>1. /\ d \in Levels(size)
      /\ \A t, s \in Tiles(size) : Near(t, s) => d[t] >= out.automatic[s]
      /\ ReadsInside(size) =>
           \A t \in Tiles(size) : d[t] = Max({out.automatic[s] : s \in KernelSpans(t, size)})
  BY DilatedLevels
<1>2. /\ k \in Levels(size)
      /\ \A t, s \in Tiles(size) : Near(t, s) => k[t] >= out.automatic[s]
  BY KernelDilates
<1>3. ReadsInside(size) => d = k
  <2> SUFFICES ASSUME ReadsInside(size) PROVE d = k
    OBVIOUS
  <2>1. \A t \in Tiles(size) : k[t] = Max({out.automatic[s] : s \in KernelSpans(t, size)})
    BY DEF KernelLevels
  <2> HIDE DEF d, k
  <2>2. \A t \in Tiles(size) : d[t] = k[t]
    BY <1>1, <2>1
  <2> QED  BY <1>1, <1>2, <2>2 DEF Levels
<1>4. out.map = ReducedToMacroblocks(Overridden(d, o, size), size)
  OBVIOUS
<1>5. MorphologyKernel(out.automatic, o, size) = Overridden(k, o, size)
  BY MorphologyAgrees
<1> HIDE DEF d, k
<1>6. out.device = ReducedToMacroblocks(Overridden(k, o, size), size)
  <2>1. Overridden(k, o, size) \in Levels(size)
    BY <1>2, OverriddenLevels
  <2>2. out.device = ReductionKernel(Overridden(k, o, size), size)
    BY <1>5
  <2> QED  BY <2>1, <2>2, ReductionAgrees
<1>7. Protects(out.map, out, size)
  BY <1>1, <1>4, MapOfLevels
<1>8. Protects(out.device, out, size)
  BY <1>2, <1>6, MapOfLevels
<1>9. ReadsInside(size) => out.map = out.device
  BY <1>3, <1>4, <1>6
<1>10. ConflictTiles(size, o) = CoveredTiles(o.pins, size) \cap CoveredTiles(o.exclusions, size)
  <2>1. /\ CoveredTiles(o.exclusions, size) \subseteq Tiles(size)
        /\ \A t \in Tiles(size) :
             t \in CoveredTiles(o.exclusions, size) <=> AnyIntersection(o.exclusions, t, size)
    BY MarkedTiles
  <2>2. /\ CoveredTiles(o.pins, size) \subseteq Tiles(size)
        /\ \A t \in Tiles(size) :
             t \in CoveredTiles(o.pins, size) <=> AnyIntersection(o.pins, t, size)
    BY MarkedTiles
  <2> QED  BY <2>1, <2>2 DEF ConflictTiles
<1> QED  BY <1>7, <1>8, <1>9, <1>10 DEF MapRight

-----------------------------------------------------------------------------
(* The corrections and the two tabs. *)
SalFields == {"cor", "prior", "out", "work", "tabs", "edit"}

Region == [id : Nat, kind : {"pin", "exclusion"}, rectangle : Quadruples]

SnapshotSet == [revision : Nat, regions : SUBSET Region]

TabSet == [shown : SnapshotSet, answers : SUBSET SnapshotSet]

(* The set of corrections is what the code takes it for: ids are unique    *)
(* and below the next one, and every rectangle lies in the picture.        *)
SetHolds(c) ==
  /\ c \in [size : SalSizes, epoch : Int, revision : Nat, nextId : Nat, regions : SUBSET Region]
  /\ IsFiniteSet(c.regions) /\ Cardinality(c.regions) <= SalCapacity
  /\ \A g \in c.regions : g.id < c.nextId /\ RectangleInside(g.rectangle, c.size)
  /\ \A g, k \in c.regions : g.id = k.id => g = k

(* A snapshot of the present revision shows the present set. *)
Knows(c, s) ==
  /\ s \in SnapshotSet /\ s.revision <= c.revision
  /\ s.revision = c.revision => s.regions = c.regions

TabKnows(c, tab) ==
  tab \in TabSet /\ Knows(c, tab.shown) /\ \A s \in tab.answers : Knows(c, s)

SalInv ==
  /\ DOMAIN sal = SalFields /\ DOMAIN sal.tabs = Tabs
  /\ SetHolds(sal.cor)
  /\ \A t \in Tabs : TabKnows(sal.cor, sal.tabs[t])
  /\ sal.edit.saw = sal.edit.met
  /\ sal.out.frame > 0 => MapRight(sal.out, sal.prior.size) /\ FreshRight(sal.out, sal.prior)

(* The snapshot of a set shows it. *)
LEMMA SnapshotKnows ==
  ASSUME NEW c, SetHolds(c)
  PROVE  Knows(c, Snapshot(c)) /\ TabKnows(c, NewTab(c)) /\ NewTab(c) \in TabSet
<1>1. Snapshot(c) \in SnapshotSet /\ c.revision \in Nat
  BY DEF SetHolds, Snapshot, SnapshotSet
<1>2. Knows(c, Snapshot(c))
  BY <1>1 DEF Knows, Snapshot
<1>3. NewTab(c) \in TabSet /\ NewTab(c).shown = Snapshot(c) /\ NewTab(c).answers = {}
  BY <1>1 DEF NewTab, TabSet
<1> QED  BY <1>2, <1>3 DEF TabKnows

(* A later revision leaves old snapshots old. *)
LEMMA LaterRevision ==
  ASSUME NEW c, NEW n, c.revision \in Nat, n.revision = c.revision + 1,
         NEW tab, TabKnows(c, tab)
  PROVE  TabKnows(n, tab)
<1>1. ASSUME NEW s, Knows(c, s) PROVE Knows(n, s)
  <2>1. s \in SnapshotSet /\ s.revision \in Nat /\ s.revision <= c.revision
    BY <1>1 DEF Knows, SnapshotSet
  <2>2. s.revision <= n.revision /\ s.revision # n.revision
    BY <2>1
  <2> QED  BY <2>1, <2>2 DEF Knows
<1> QED  BY <1>1 DEF TabKnows

(* An accepted command leaves a sound set of the next revision. *)
LEMMA AcceptedCommand ==
  ASSUME NEW c, SetHolds(c), NEW shown \in SnapshotSet, NEW command \in Commands(shown),
         CommandAccepted(c, command)
  PROVE  /\ SetHolds(CommandApplied(c, command))
         /\ CommandApplied(c, command).revision = c.revision + 1
<1>1. /\ c \in [size : SalSizes, epoch : Int, revision : Nat, nextId : Nat, regions : SUBSET Region]
      /\ IsFiniteSet(c.regions) /\ Cardinality(c.regions) <= SalCapacity
      /\ \A g \in c.regions : g.id < c.nextId /\ RectangleInside(g.rectangle, c.size)
      /\ \A g, k \in c.regions : g.id = k.id => g = k
  BY DEF SetHolds
<1>2. SalCapacity \in Nat
  BY SalAssumption
<1>3. CASE command.action = "remove"
  <2> DEFINE n == Removed(c, command.id)
             S == {g \in c.regions : g.id # command.id}
  <2>1. n = CommandApplied(c, command)
    BY <1>3 DEF CommandApplied
  <2>2. /\ n.regions = S /\ n.revision = c.revision + 1 /\ n.size = c.size /\ n.nextId = c.nextId
        /\ n \in [size : SalSizes, epoch : Int, revision : Nat, nextId : Nat, regions : SUBSET Region]
    <3>1. n = [c EXCEPT !.regions = S, !.revision = c.revision + 1]
      BY DEF Removed
    <3>2. S \in SUBSET Region /\ c.revision + 1 \in Nat
      BY <1>1
    <3> HIDE DEF n, S
    <3> QED  BY <1>1, <3>1, <3>2
  <2>3. IsFiniteSet(S) /\ Cardinality(S) <= Cardinality(c.regions)
    <3>1. S \subseteq c.regions
      OBVIOUS
    <3> HIDE DEF S
    <3> QED  BY <1>1, <3>1, FS_Subset
  <2>4. Cardinality(S) <= SalCapacity
    <3>1. Cardinality(S) \in Nat /\ Cardinality(c.regions) \in Nat
      BY <1>1, <2>3, FS_CardinalityType
    <3> QED  BY <1>1, <1>2, <2>3, <3>1
  <2> HIDE DEF n
  <2>5. SetHolds(n)
    BY <1>1, <2>2, <2>3, <2>4 DEF SetHolds
  <2> QED  BY <2>1, <2>2, <2>5
<1>4. CASE command.action # "remove"
  <2> DEFINE r == command.rectangle
             e == [id |-> c.nextId, kind |-> command.action, rectangle |-> r]
             n == Added(c, command.action, r)
             S == c.regions \cup {e}
  <2>1. n = CommandApplied(c, command)
    BY <1>4 DEF CommandApplied
  <2>2. r \in Quadruples /\ command.action \in {"pin", "exclusion"}
    BY <1>4, SalAssumption DEF Commands
  <2>3. RectangleInside(r, c.size) /\ Cardinality(c.regions) # SalCapacity
    BY <1>4 DEF CommandAccepted, CanAdd
  <2>4. e \in Region
    BY <1>1, <2>2 DEF Region
  <2>5. /\ n.regions = S /\ n.revision = c.revision + 1 /\ n.size = c.size
        /\ n.nextId = c.nextId + 1
        /\ n \in [size : SalSizes, epoch : Int, revision : Nat, nextId : Nat, regions : SUBSET Region]
    <3>1. n = [c EXCEPT !.regions = S, !.nextId = c.nextId + 1, !.revision = c.revision + 1]
      BY DEF Added
    <3>2. S \in SUBSET Region /\ c.revision + 1 \in Nat /\ c.nextId + 1 \in Nat
      BY <1>1, <2>4
    <3> HIDE DEF n, S
    <3> QED  BY <1>1, <3>1, <3>2
  <2>6. e.id = c.nextId /\ e.rectangle = r
    OBVIOUS
  <2> HIDE DEF e, n
  <2>7. \A g \in c.regions : g.id \in Nat /\ g.id # c.nextId /\ c.nextId \in Nat
    BY <1>1 DEF Region
  <2>8. e \notin c.regions
    BY <2>6, <2>7
  <2>9. IsFiniteSet(S) /\ Cardinality(S) = Cardinality(c.regions) + 1
    BY <1>1, <2>8, FS_AddElement
  <2>10. Cardinality(S) <= SalCapacity
    <3>1. Cardinality(c.regions) \in Nat
      BY <1>1, FS_CardinalityType
    <3> QED  BY <1>1, <1>2, <2>3, <2>9, <3>1
  <2>11. \A g \in S : g.id < n.nextId /\ RectangleInside(g.rectangle, n.size)
    <3> SUFFICES ASSUME NEW g \in S PROVE g.id < n.nextId /\ RectangleInside(g.rectangle, n.size)
      OBVIOUS
    <3>1. CASE g = e
      BY <1>1, <2>3, <2>5, <2>6, <3>1
    <3>2. CASE g \in c.regions
      <4>1. g.id < c.nextId /\ g.id \in Nat /\ c.nextId \in Nat
        BY <1>1, <2>7, <3>2
      <4> QED  BY <1>1, <2>5, <3>2, <4>1
    <3> QED  BY <3>1, <3>2
  <2>12. \A g, k \in S : g.id = k.id => g = k
    BY <1>1, <2>6, <2>7
  <2>13. SetHolds(n)
    BY <2>5, <2>9, <2>10, <2>11, <2>12 DEF SetHolds
  <2> QED  BY <2>1, <2>5, <2>13
<1> QED  BY <1>3, <1>4

-----------------------------------------------------------------------------
(* A step that shows no map keeps the invariant with its parts. *)
LEMMA QuietStep ==
  ASSUME DOMAIN sal' = SalFields, DOMAIN sal'.tabs = Tabs, SetHolds(sal'.cor),
         \A t \in Tabs : TabKnows(sal'.cor, sal'.tabs[t]),
         sal'.edit.saw = sal'.edit.met, sal'.out = NoOutput
  PROVE  SalInv'
<1>1. ~(sal'.out.frame > 0)
  BY DEF NoOutput
<1> QED  BY <1>1 DEF SalInv

LEMMA LoadStateKeeps ==
  ASSUME SalInv, NEW t \in Tabs, LoadState(t)
  PROVE  SalInv'
<1>1. /\ DOMAIN sal = SalFields /\ DOMAIN sal.tabs = Tabs /\ SetHolds(sal.cor)
      /\ (\A u \in Tabs : TabKnows(sal.cor, sal.tabs[u])) /\ sal.edit.saw = sal.edit.met
  BY DEF SalInv
<1> DEFINE new == NewTab(sal.cor)
<1>2. sal' = [sal EXCEPT !.tabs[t] = new, !.out = NoOutput]
  BY DEF LoadState
<1>3. TabKnows(sal.cor, new)
  BY <1>1, SnapshotKnows
<1> HIDE DEF new
<1>4. /\ DOMAIN sal' = SalFields /\ sal'.tabs = [sal.tabs EXCEPT ![t] = new] /\ sal'.out = NoOutput
      /\ sal'.cor = sal.cor /\ sal'.edit = sal.edit
  BY <1>1, <1>2 DEF SalFields
<1>5. DOMAIN sal'.tabs = Tabs /\ \A u \in Tabs : sal'.tabs[u] = IF u = t THEN new ELSE sal.tabs[u]
  BY <1>1, <1>4
<1>6. \A u \in Tabs : TabKnows(sal'.cor, sal'.tabs[u])
  BY <1>1, <1>3, <1>4, <1>5
<1> QED  BY <1>1, <1>4, <1>5, <1>6, QuietStep

LEMMA AnswerKeeps ==
  ASSUME SalInv, NEW t \in Tabs, AnswerArrives(t)
  PROVE  SalInv'
<1>1. /\ DOMAIN sal = SalFields /\ DOMAIN sal.tabs = Tabs /\ SetHolds(sal.cor)
      /\ (\A u \in Tabs : TabKnows(sal.cor, sal.tabs[u])) /\ sal.edit.saw = sal.edit.met
  BY DEF SalInv
<1>2. PICK answer \in sal.tabs[t].answers \cup {sal.tabs[t].shown} :
        sal' = [sal EXCEPT !.tabs[t].shown = answer, !.tabs[t].answers = {}, !.out = NoOutput]
  BY DEF AnswerArrives
<1> DEFINE new == [sal.tabs[t] EXCEPT !.shown = answer, !.answers = {}]
<1>3. TabKnows(sal.cor, sal.tabs[t])
  BY <1>1
<1>4. Knows(sal.cor, answer) /\ sal.tabs[t] \in TabSet
  BY <1>2, <1>3 DEF TabKnows
<1>5. new \in TabSet /\ new.shown = answer /\ new.answers = {}
  BY <1>4 DEF TabSet, Knows
<1> HIDE DEF new
<1>6. TabKnows(sal.cor, new)
  BY <1>4, <1>5 DEF TabKnows
<1>7. /\ DOMAIN sal' = SalFields /\ sal'.tabs = [sal.tabs EXCEPT ![t] = new] /\ sal'.out = NoOutput
      /\ sal'.cor = sal.cor /\ sal'.edit = sal.edit
  BY <1>1, <1>2 DEF SalFields, new
<1>8. DOMAIN sal'.tabs = Tabs /\ \A u \in Tabs : sal'.tabs[u] = IF u = t THEN new ELSE sal.tabs[u]
  BY <1>1, <1>7
<1>9. \A u \in Tabs : TabKnows(sal'.cor, sal'.tabs[u])
  BY <1>1, <1>6, <1>7, <1>8
<1> QED  BY <1>1, <1>7, <1>8, <1>9, QuietStep

LEMMA CommandKeeps ==
  ASSUME SalInv, NEW t \in Tabs, NEW command \in Commands(sal.tabs[t].shown),
         PerformCommand(t, command)
  PROVE  SalInv'
<1> DEFINE accepted == CommandAccepted(sal.cor, command)
           c == IF accepted THEN CommandApplied(sal.cor, command) ELSE sal.cor
           new == [sal.tabs[t] EXCEPT !.answers = {Snapshot(c)}]
           edit == IF accepted THEN [saw |-> sal.tabs[t].shown.regions, met |-> sal.cor.regions]
                   ELSE sal.edit
           work == IF accepted THEN sal.work + 1 ELSE sal.work
<1>1. /\ DOMAIN sal = SalFields /\ DOMAIN sal.tabs = Tabs /\ SetHolds(sal.cor)
      /\ (\A u \in Tabs : TabKnows(sal.cor, sal.tabs[u])) /\ sal.edit.saw = sal.edit.met
      /\ sal.cor.revision \in Nat
  BY DEF SalInv, SetHolds
<1>2. TabKnows(sal.cor, sal.tabs[t]) /\ sal.tabs[t].shown \in SnapshotSet /\ sal.tabs[t] \in TabSet
      /\ Knows(sal.cor, sal.tabs[t].shown)
  BY <1>1 DEF TabKnows, TabSet
<1>3. accepted => SetHolds(c) /\ c.revision = sal.cor.revision + 1
  BY <1>1, <1>2, AcceptedCommand
<1>4. SetHolds(c) /\ \A u \in Tabs : TabKnows(c, sal.tabs[u])
  <2>1. CASE accepted
    <3> HIDE DEF c
    <3> QED  BY <1>1, <1>3, <2>1, LaterRevision
  <2>2. CASE ~accepted
    BY <1>1, <2>2
  <2> QED  BY <2>1, <2>2
<1>5. edit.saw = edit.met
  <2>1. CASE accepted
    <3>1. command.expected = sal.tabs[t].shown.revision /\ command.expected = sal.cor.revision
      BY <2>1 DEF Commands, CommandAccepted, Current
    <3>2. sal.tabs[t].shown.regions = sal.cor.regions
      BY <1>2, <3>1 DEF Knows
    <3> QED  BY <2>1, <3>2
  <2>2. CASE ~accepted
    BY <1>1, <2>2
  <2> QED  BY <2>1, <2>2
<1>6. sal' = [sal EXCEPT !.cor = c, !.out = NoOutput, !.tabs[t].answers = {Snapshot(c)},
                         !.work = work, !.edit = edit]
  BY DEF PerformCommand
<1> HIDE DEF accepted, c, edit, work
<1>7. Knows(c, Snapshot(c)) /\ Snapshot(c) \in SnapshotSet
  BY <1>4, SnapshotKnows DEF Knows
<1>8. new \in TabSet /\ new.shown = sal.tabs[t].shown /\ new.answers = {Snapshot(c)}
  BY <1>2, <1>7 DEF TabSet
<1>9. sal'.tabs = [sal.tabs EXCEPT ![t] = new]
  BY <1>1, <1>6 DEF SalFields
<1> HIDE DEF new
<1>10. TabKnows(c, new)
  <2>1. Knows(c, sal.tabs[t].shown)
    BY <1>4 DEF TabKnows
  <2> QED  BY <1>7, <1>8, <2>1 DEF TabKnows
<1>11. DOMAIN sal' = SalFields /\ sal'.out = NoOutput /\ sal'.cor = c /\ sal'.edit = edit
  BY <1>1, <1>6 DEF SalFields
<1>12. DOMAIN sal'.tabs = Tabs /\ \A u \in Tabs : sal'.tabs[u] = IF u = t THEN new ELSE sal.tabs[u]
  BY <1>1, <1>9
<1>13. \A u \in Tabs : TabKnows(sal'.cor, sal'.tabs[u])
  BY <1>4, <1>10, <1>11, <1>12
<1> QED  BY <1>4, <1>5, <1>11, <1>12, <1>13, QuietStep

LEMMA GeometryKeeps ==
  ASSUME SalInv, NEW size \in SalSizes, NEW epoch \in 1 .. SalMaxEpoch, GeometryChanges(size, epoch)
  PROVE  SalInv'
<1> DEFINE c == ResetGeometry(sal.cor, size, epoch)
<1>1. /\ DOMAIN sal = SalFields /\ DOMAIN sal.tabs = Tabs /\ SetHolds(sal.cor)
      /\ (\A u \in Tabs : TabKnows(sal.cor, sal.tabs[u])) /\ sal.edit.saw = sal.edit.met
      /\ sal.cor.revision \in Nat /\ epoch \in Int /\ SalCapacity \in Nat
      /\ sal.cor \in [size : SalSizes, epoch : Int, revision : Nat, nextId : Nat, regions : SUBSET Region]
  BY SalAssumption DEF SalInv, SetHolds
<1>2. /\ c \in [size : SalSizes, epoch : Int, revision : Nat, nextId : Nat, regions : SUBSET Region]
      /\ c.revision = sal.cor.revision + 1 /\ c.regions = {}
  <2>1. c = [sal.cor EXCEPT !.size = size, !.epoch = epoch, !.regions = {},
                            !.revision = sal.cor.revision + 1]
    BY DEF ResetGeometry
  <2>2. sal.cor.revision + 1 \in Nat
    BY <1>1
  <2> HIDE DEF c
  <2> QED  BY <1>1, <2>1, <2>2
<1> HIDE DEF c
<1>3. SetHolds(c)
  <2>1. IsFiniteSet(c.regions) /\ Cardinality(c.regions) = 0
    BY <1>2, FS_EmptySet
  <2> QED  BY <1>1, <1>2, <2>1 DEF SetHolds
<1>4. /\ DOMAIN sal' = SalFields /\ sal'.tabs = sal.tabs /\ sal'.out = NoOutput
      /\ sal'.cor = c /\ sal'.edit = sal.edit
  BY <1>1 DEF GeometryChanges, SalFields, c
<1>5. \A u \in Tabs : TabKnows(sal'.cor, sal'.tabs[u])
  BY <1>1, <1>2, <1>4, LaterRevision
<1> QED  BY <1>1, <1>3, <1>4, <1>5, QuietStep

LEMMA ResetKeeps ==
  ASSUME SalInv, ResetReference
  PROVE  SalInv'
<1>1. /\ DOMAIN sal = SalFields /\ DOMAIN sal.tabs = Tabs /\ SetHolds(sal.cor)
      /\ (\A u \in Tabs : TabKnows(sal.cor, sal.tabs[u])) /\ sal.edit.saw = sal.edit.met
  BY DEF SalInv
<1>2. /\ DOMAIN sal' = SalFields /\ sal'.tabs = sal.tabs /\ sal'.out = NoOutput
      /\ sal'.cor = sal.cor /\ sal'.edit = sal.edit
  BY <1>1 DEF ResetReference, SalFields
<1> QED  BY <1>1, <1>2, QuietStep

(* The levels a frame's scores give, and the overrides of a sound set. *)
LEMMA AutomaticIsLevels ==
  ASSUME NEW prior, NEW f
  PROVE  AutomaticLevels(prior, f) \in Levels(f.size)
BY DEF AutomaticLevels, QuantizeActiveLevel, Levels

LEMMA OverridesAreRectangles ==
  ASSUME NEW c, SetHolds(c), NEW halos
  PROVE  /\ Overrides(c, halos).pins \in SUBSET Quadruples
         /\ Overrides(c, halos).exclusions \in SUBSET Quadruples
<1>1. \A g \in c.regions : g.rectangle \in Quadruples
  BY DEF SetHolds, Region
<1> QED  BY <1>1 DEF Overrides

LEMMA FrameKeeps ==
  ASSUME SalInv, NEW f \in Frames, NEW halos, NEW stray \in StrayLevels(f.size),
         ProcessFrame(f, halos, stray)
  PROVE  SalInv'
<1> DEFINE o == Overrides(sal.cor, halos)
           a == AutomaticLevels(sal.prior, f)
           scores == [t \in Tiles(f.size) |-> FilteredScore(sal.prior, f, t)]
           active == {t \in Tiles(f.size) : Active(sal.prior, f, t)}
           prior == [has |-> TRUE, id |-> f.id, epoch |-> f.epoch, time |-> f.time, size |-> f.size,
                     score |-> scores, active |-> active]
           out == [frame |-> f.id, fresh |-> ~SameEpoch(sal.prior, f), overrides |-> o,
                   automatic |-> a,
                   map |-> ReducedToMacroblocks(Overridden(Dilated(a, stray, f.size), o, f.size), f.size),
                   device |-> ReductionKernel(MorphologyKernel(a, o, f.size), f.size)]
<1>1. /\ DOMAIN sal = SalFields /\ DOMAIN sal.tabs = Tabs /\ SetHolds(sal.cor)
      /\ (\A u \in Tabs : TabKnows(sal.cor, sal.tabs[u])) /\ sal.edit.saw = sal.edit.met
  BY DEF SalInv
<1>2. f.size \in SalSizes
  BY DEF Frames
<1>3. sal' = [sal EXCEPT !.prior = prior, !.out = out, !.edit = NoEdit, !.work = sal.work + 1]
  BY DEF ProcessFrame
<1>4. a \in Levels(f.size) /\ o.pins \in SUBSET Quadruples /\ o.exclusions \in SUBSET Quadruples
  BY <1>1, AutomaticIsLevels, OverridesAreRectangles
<1>5. ~SameEpoch(sal.prior, f) => \A t \in active : scores[t] >= EntryThreshold
  BY DEF Active
<1>6. /\ out.automatic = a /\ out.overrides = o /\ out.fresh = ~SameEpoch(sal.prior, f)
      /\ out.map = ReducedToMacroblocks(Overridden(Dilated(a, stray, f.size), o, f.size), f.size)
      /\ out.device = ReductionKernel(MorphologyKernel(a, o, f.size), f.size)
      /\ prior.size = f.size /\ prior.score = scores /\ prior.active = active
  OBVIOUS
<1> HIDE DEF o, a, scores, active, prior, out
<1>7. MapRight(out, prior.size)
  BY <1>2, <1>4, <1>6, MapOfFrame
<1>8. FreshRight(out, prior)
  BY <1>5, <1>6 DEF FreshRight
<1>9. /\ DOMAIN sal' = SalFields /\ sal'.tabs = sal.tabs /\ sal'.out = out /\ sal'.prior = prior
      /\ sal'.cor = sal.cor /\ sal'.edit = NoEdit
  BY <1>1, <1>3 DEF SalFields
<1>10. NoEdit.saw = NoEdit.met
  BY DEF NoEdit
<1> QED  BY <1>1, <1>7, <1>8, <1>9, <1>10 DEF SalInv

(* The invariant. *)
LEMMA SalInitInv == SalInit => SalInv
<1> SUFFICES ASSUME SalInit PROVE SalInv
  OBVIOUS
<1>1. PICK size \in SalSizes :
        LET c == NewCorrections(size)
        IN  sal = [cor |-> c, prior |-> NoPrior, out |-> NoOutput, work |-> 0,
                   tabs |-> [t \in Tabs |-> NewTab(c)], edit |-> NoEdit]
  BY DEF SalInit
<1> DEFINE c == NewCorrections(size)
<1>2. SetHolds(c)
  <2>1. IsFiniteSet({}) /\ Cardinality({}) = 0 /\ SalCapacity \in Nat
    BY FS_EmptySet, SalAssumption
  <2> QED  BY <2>1 DEF NewCorrections, SetHolds
<1> HIDE DEF c
<1>3. /\ DOMAIN sal = SalFields /\ DOMAIN sal.tabs = Tabs /\ sal.cor = c
      /\ \A t \in Tabs : sal.tabs[t] = NewTab(c)
  BY <1>1 DEF SalFields, c
<1>4. sal.out = NoOutput /\ sal.edit = NoEdit
  BY <1>1
<1>5. \A t \in Tabs : TabKnows(sal.cor, sal.tabs[t])
  BY <1>2, <1>3, SnapshotKnows
<1>6. ~(sal.out.frame > 0) /\ sal.edit.saw = sal.edit.met
  BY <1>4 DEF NoOutput, NoEdit
<1> QED  BY <1>2, <1>3, <1>5, <1>6 DEF SalInv

LEMMA SalNextInv == SalInv /\ [SalNext]_sal => SalInv'
<1> SUFFICES ASSUME SalInv, [SalNext]_sal PROVE SalInv'
  OBVIOUS
<1>1. CASE UNCHANGED sal
  BY <1>1 DEF SalInv
<1>2. ASSUME NEW t \in Tabs, LoadState(t) \/ AnswerArrives(t) PROVE SalInv'
  BY <1>2, LoadStateKeeps, AnswerKeeps
<1>3. ASSUME NEW t \in Tabs, NEW c \in Commands(sal.tabs[t].shown), PerformCommand(t, c) PROVE SalInv'
  BY <1>3, CommandKeeps
<1>4. ASSUME NEW size \in SalSizes, NEW epoch \in 1 .. SalMaxEpoch, GeometryChanges(size, epoch)
      PROVE  SalInv'
  BY <1>4, GeometryKeeps
<1>5. ASSUME NEW f \in Frames, NEW halos \in SalHalos, NEW stray \in StrayLevels(f.size),
             ProcessFrame(f, halos, stray)
      PROVE  SalInv'
  BY <1>5, FrameKeeps
<1>6. CASE ResetReference
  BY <1>6, ResetKeeps
<1> QED  BY <1>1, <1>2, <1>3, <1>4, <1>5, <1>6 DEF SalNext

(* A correction lies in the picture it is applied to. *)
LEMMA InsideIsCovered ==
  ASSUME NEW size \in SalSizes, NEW r \in Quadruples, RectangleInside(r, size)
  PROVE  CoveredPixels(r) \subseteq Picture(size)
<1>1. /\ r[1] \in Nat /\ r[2] \in Nat /\ r[3] \in Nat /\ r[4] \in Nat
      /\ size[1] \in Nat /\ size[2] \in Nat
  BY RectangleFields, SidesOfSizes DEF SideOk
<1>2. r[1] + r[3] <= size[1] /\ r[2] + r[4] <= size[2]
  BY DEF RectangleInside
<1>3. \A x \in r[1] .. (r[1] + r[3] - 1) : x \in 0 .. (size[1] - 1)
  BY <1>1, <1>2
<1>4. \A y \in r[2] .. (r[2] + r[4] - 1) : y \in 0 .. (size[2] - 1)
  BY <1>1, <1>2
<1>5. ASSUME NEW p \in CoveredPixels(r) PROVE p \in Picture(size)
  <2>1. PICK x \in r[1] .. (r[1] + r[3] - 1), y \in r[2] .. (r[2] + r[4] - 1) : p = <<x, y>>
    BY CoveredFields
  <2> QED  BY <1>3, <1>4, <2>1 DEF Picture
<1> QED  BY <1>5

(* SaliencyFaithful: an accepted edit was made by a tab that showed the    *)
(* very set it changed; the reference's map and the kernels' map of every  *)
(* picture give its pixels what corrections and scores owe them; and the   *)
(* two are the same for a picture with more tiles than the dilation radius *)
(* in both directions.                                                     *)
THEOREM SaliencyIsFaithful == SalSpec => []SaliencyFaithful
<1>1. SalInv => SaliencyFaithful
  <2> SUFFICES ASSUME SalInv PROVE SaliencyFaithful
    OBVIOUS
  <2>1. /\ SetHolds(sal.cor) /\ sal.edit.saw = sal.edit.met
        /\ sal.out.frame > 0 => MapRight(sal.out, sal.prior.size) /\ FreshRight(sal.out, sal.prior)
    BY DEF SalInv
  <2>2. MapFollowsPixels
    BY <2>1, RightIsFaithful
  <2>3. /\ sal.cor.size \in SalSizes /\ Cardinality(sal.cor.regions) <= SalCapacity
        /\ \A g \in sal.cor.regions :
             g.rectangle \in Quadruples /\ RectangleInside(g.rectangle, sal.cor.size)
        /\ \A g, k \in sal.cor.regions : g.id = k.id => g = k
    BY <2>1 DEF SetHolds, Region
  <2>4. \A g \in sal.cor.regions : CoveredPixels(g.rectangle) \subseteq Picture(sal.cor.size)
    BY <2>3, InsideIsCovered
  <2>5. EditsAreInformed
    BY <2>1, <2>3, <2>4 DEF EditsAreInformed
  <2> QED  BY <2>2, <2>5 DEF SaliencyFaithful
<1> QED  BY <1>1, SalInitInv, SalNextInv, PTL DEF SalSpec
=============================================================================
