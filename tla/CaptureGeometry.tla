--------------------------- MODULE CaptureGeometry ---------------------------
(***************************************************************************)
(* The arithmetic of a captured frame (capture/capture.cpp and the         *)
(* metadata readers of capture/linux_capture_pipewire.cpp): which pixel of *)
(* the window each pixel of the upright frame shows, where damage and the  *)
(* cursor land in it, and which shared-memory buffers may be read at all.  *)
(* A "shot" is one buffer, chosen once and for all: the module has no      *)
(* steps, its invariants are checked over every shot of the bounded sets.  *)
(***************************************************************************)
EXTENDS Integers, FiniteSets, FiniteSetsExt

CONSTANTS CapSide,   \* largest width and height of a window, in pixels
          CapWord,   \* one more than the largest size_t
          CapSizes,  \* offsets, pitches and sizes of buffers, in bytes
          CursorHead, BitmapHead   \* sizes of spa_meta_cursor and spa_meta_bitmap

(* Sides are numbers of pixels; offsets, pitches and sizes fit a size_t.   *)
ASSUME GeometryAssumption ==
  /\ CapSide \in Nat /\ CapWord \in Nat \ {0}
  /\ CapSizes \subseteq 0..(CapWord - 1)
  /\ CursorHead \in Nat /\ BitmapHead \in Nat

VARIABLE shot

Orientations == {"upright", "rotate90", "rotate180", "rotate270",
                 "flipped", "flipped90", "flipped180", "flipped270"}

PixelBytes == 4

SwapsDimensions(o) == o \in {"rotate90", "rotate270", "flipped90", "flipped270"}

Even(n) == n + (n % 2)

(* The visible size is the crop's, turned; the coded size is even. *)
MakeGeometry(crop, o) ==
  LET w == IF SwapsDimensions(o) THEN crop.height ELSE crop.width
      h == IF SwapsDimensions(o) THEN crop.width ELSE crop.height
  IN  [width |-> w, height |-> h, codedWidth |-> Even(w), codedHeight |-> Even(h)]

(* The source pixel that destination pixel (x, y) shows, for a source of   *)
(* w by h pixels.                                                          *)
SourceCoordinate(x, y, w, h, o) ==
  CASE o = "upright"    -> <<x, y>>
    [] o = "rotate90"   -> <<y, h - 1 - x>>
    [] o = "rotate180"  -> <<w - 1 - x, h - 1 - y>>
    [] o = "rotate270"  -> <<w - 1 - y, x>>
    [] o = "flipped"    -> <<w - 1 - x, y>>
    [] o = "flipped90"  -> <<y, x>>
    [] o = "flipped180" -> <<x, h - 1 - y>>
    [] o = "flipped270" -> <<w - 1 - y, h - 1 - x>>

Rect(x, y, w, h) == [x |-> x, y |-> y, width |-> w, height |-> h]

TransformDamage(d, w, h, o) ==
  CASE o = "upright"    -> d
    [] o = "rotate90"   -> Rect(h - d.y - d.height, d.x, d.height, d.width)
    [] o = "rotate180"  -> Rect(w - d.x - d.width, h - d.y - d.height, d.width, d.height)
    [] o = "rotate270"  -> Rect(d.y, w - d.x - d.width, d.height, d.width)
    [] o = "flipped"    -> Rect(w - d.x - d.width, d.y, d.width, d.height)
    [] o = "flipped90"  -> Rect(d.y, d.x, d.height, d.width)
    [] o = "flipped180" -> Rect(d.x, h - d.y - d.height, d.width, d.height)
    [] o = "flipped270" -> Rect(h - d.y - d.height, w - d.x - d.width, d.height, d.width)

(* The cursor's position in the frame; it may lie outside.  The clamping   *)
(* to 32 bits is out of the bounded positions' reach.                      *)
TransformCursorPosition(cx, cy, crop, o) ==
  LET x == cx - crop.x
      y == cy - crop.y
      w == crop.width
      h == crop.height
  IN  CASE o = "upright"    -> <<x, y>>
        [] o = "rotate90"   -> <<h - 1 - y, x>>
        [] o = "rotate180"  -> <<w - 1 - x, h - 1 - y>>
        [] o = "rotate270"  -> <<y, w - 1 - x>>
        [] o = "flipped"    -> <<w - 1 - x, y>>
        [] o = "flipped90"  -> <<y, x>>
        [] o = "flipped180" -> <<x, h - 1 - y>>
        [] o = "flipped270" -> <<h - 1 - y, w - 1 - x>>

(* Where the cursor bitmap's pixels fall in the cropped, not yet turned    *)
(* frame: those outside are skipped.                                       *)
CursorPixels(cursor, crop) ==
  { p \in (0..(crop.width - 1)) \X (0..(crop.height - 1)) :
      /\ p[1] - (cursor.x - cursor.hotX - crop.x) \in 0..(cursor.width - 1)
      /\ p[2] - (cursor.y - cursor.hotY - crop.y) \in 0..(cursor.height - 1) }

(* capture_damage: a region of the buffer, clipped to the crop and made    *)
(* relative to it; one that starts at a negative position is skipped.      *)
ClippedDamage(r, crop) ==
  LET left   == Max({r.x, crop.x})
      top    == Max({r.y, crop.y})
      right  == Min({r.x + r.width, crop.x + crop.width})
      bottom == Min({r.y + r.height, crop.y + crop.height})
  IN  IF r.x >= 0 /\ r.y >= 0 /\ left < right /\ top < bottom
        THEN {Rect(left - crop.x, top - crop.y, right - left, bottom - top)}
        ELSE {}

-----------------------------------------------------------------------------
(* checked_multiply and the guards of valid_buffer. *)
FitsWord(a, b) == a = 0 \/ b <= (CapWord - 1) \div a

CropInside(crop, w, h) ==
  /\ crop.x <= w /\ crop.y <= h
  /\ crop.width <= w - crop.x
  /\ crop.height <= h - crop.y

(* Rows of row bytes, pitch bytes apart, lie within size bytes. *)
RowsFit(rows, row, pitch, size) ==
  /\ FitsWord(rows - 1, pitch)
  /\ row <= (CapWord - 1) - (rows - 1) * pitch
  /\ size >= (rows - 1) * pitch + row

ValidBuffer(b, crop) ==
  /\ b.width # 0 /\ b.height # 0 /\ crop.width # 0 /\ crop.height # 0
  /\ CropInside(crop, b.width, b.height)
  /\ FitsWord(b.width, PixelBytes) /\ b.pitch >= b.width * PixelBytes
  /\ RowsFit(b.height, b.width * PixelBytes, b.pitch, b.size)

(* The chunk that holds the picture lies in the mapped memory. *)
ChunkFits(offset, size, mapped) == offset <= mapped /\ size <= mapped - offset

(* capture_crop: all of the window without the metadata, nothing when it   *)
(* is too short or starts at a negative position.                          *)
CaptureCrop(meta, w, h) ==
  CASE meta.kind = "absent" -> {Rect(0, 0, w, h)}
    [] meta.kind = "region" /\ meta.x >= 0 /\ meta.y >= 0 ->
         {Rect(meta.x, meta.y, meta.width, meta.height)}
    [] OTHER -> {}

(* The damage that valid_buffer lets pass. *)
ValidDamage(d, crop) == d.width # 0 /\ d.height # 0 /\ CropInside(d, crop.width, crop.height)

(* capture_cursor: the bitmap's header and then its rows lie within the    *)
(* metadata.  The cursor is visible and its format known.                  *)
CursorAccepted(c) ==
  LET bitmap == c.at + c.offset
  IN  /\ c.size >= CursorHead
      /\ c.at >= CursorHead /\ c.at <= c.size /\ BitmapHead <= c.size - c.at
      /\ c.offset >= BitmapHead /\ bitmap <= c.size
      /\ c.stride > 0 /\ c.width # 0 /\ c.height # 0
      /\ c.width <= (CapWord - 1) \div PixelBytes /\ c.stride >= c.width * PixelBytes
      /\ c.height - 1 <= (CapWord - 1) \div c.stride
      /\ (c.height - 1) * c.stride + c.width * PixelBytes <= c.size - bitmap

(* The bytes of the metadata that the copy of the bitmap reads, and those  *)
(* of the copy that composite_cursor reads.                                *)
CursorReads(c) ==
  UNION { LET from == c.at + c.offset + y * c.stride + x * PixelBytes IN from..(from + PixelBytes - 1) :
            x \in 0..(c.width - 1), y \in 0..(c.height - 1) }

(* valid_buffer, of the packed copy. *)
ValidCursor(width, height, pitch, size) ==
  /\ width # 0 /\ height # 0 /\ FitsWord(width, PixelBytes) /\ pitch >= width * PixelBytes
  /\ RowsFit(height, width * PixelBytes, pitch, size)

(* The bytes one row's copy reads from the mapped buffer. *)
RowRead(b, crop, row) ==
  LET from == (crop.y + row) * b.pitch + crop.x * PixelBytes
  IN  from..(from + crop.width * PixelBytes - 1)

-----------------------------------------------------------------------------
Side == 0..CapSide

TurnShots ==
  [kind : {"turn"}, width : Side \ {0}, height : Side \ {0}, orientation : Orientations]

BufferShots ==
  [kind : {"buffer"}, width : Side, height : Side, pitch : CapSizes, size : CapSizes]

CursorShots ==
  [kind : {"cursor"}, size : CapSizes, at : Side, offset : Side, stride : CapSizes,
   width : Side, height : Side]

ShotInit == shot \in TurnShots \cup BufferShots \cup CursorShots

CropMetas ==
  [kind : {"absent", "short"}, x : {0}, y : {0}, width : {0}, height : {0}]
    \cup [kind : {"region"}, x : -1..CapSide, y : -1..CapSide, width : Side, height : Side]

Crops(w, h) ==
  { c \in [x : 0..w, y : 0..h, width : 1..w, height : 1..h] : CropInside(c, w, h) }

Pixels(r) == (r.x..(r.x + r.width - 1)) \X (r.y..(r.y + r.height - 1))

(* Every pixel of the frame shows one pixel of the crop and every pixel of *)
(* the crop is shown; a pixel is reported damaged exactly when the pixel   *)
(* it shows lies in a damaged region of the window; and the cursor is      *)
(* reported at the pixel that shows the place it points at.                *)
TurnsAgree ==
  shot.kind = "turn" =>
    \A crop \in Crops(shot.width, shot.height) :
      LET o     == shot.orientation
          g     == MakeGeometry(crop, o)
          frame == (0..(g.width - 1)) \X (0..(g.height - 1))
          At(p) == SourceCoordinate(p[1], p[2], crop.width, crop.height, o)
      IN  /\ {At(p) : p \in frame} = (0..(crop.width - 1)) \X (0..(crop.height - 1))
          /\ Cardinality({At(p) : p \in frame}) = g.width * g.height
          /\ \A x \in -1..(shot.width - 1), y \in 0..(shot.height - 1), w \in 1..2, h \in 1..2 :
               LET r == Rect(x, y, w, h)
                   damaged == UNION {Pixels(TransformDamage(d, crop.width, crop.height, o)) :
                                       d \in ClippedDamage(r, crop)}
               IN  damaged = {p \in frame : x >= 0 /\ <<At(p)[1] + crop.x, At(p)[2] + crop.y>>
                                                        \in Pixels(r)}
                   /\ \A d \in ClippedDamage(r, crop) : ValidDamage(d, crop)
          /\ \A p \in frame :
               TransformCursorPosition(At(p)[1] + crop.x, At(p)[2] + crop.y, crop, o) = p
          /\ \A p \in frame, hot \in {0, 1} :
               LET c == [x |-> At(p)[1] + crop.x, y |-> At(p)[2] + crop.y,
                         hotX |-> hot, hotY |-> hot, width |-> 2, height |-> 2]
               IN  At(p) \in CursorPixels(c, crop)

(* Whatever sizes, offsets, pitch and crop the compositor announces, an    *)
(* accepted buffer is never read past the mapped memory, and an accepted   *)
(* cursor bitmap never past its metadata; the copy of it that is made is   *)
(* one the pool accepts.                                                   *)
ReadsInBounds ==
  /\ shot.kind = "buffer" =>
       \A meta \in CropMetas : \A crop \in CaptureCrop(meta, shot.width, shot.height) :
         ValidBuffer(shot, crop) =>
           \A offset, mapped \in CapSizes : ChunkFits(offset, shot.size, mapped) =>
             \A row \in 0..(crop.height - 1) :
               {offset + b : b \in RowRead(shot, crop, row)} \subseteq 0..(mapped - 1)
  /\ shot.kind = "cursor" /\ CursorAccepted(shot) =>
       LET row == shot.width * PixelBytes
       IN  /\ CursorReads(shot) \subseteq (CursorHead + BitmapHead)..(shot.size - 1)
           /\ ValidCursor(shot.width, shot.height, row, shot.height * row)
=============================================================================
