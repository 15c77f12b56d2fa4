------------------------------ MODULE Saliency ------------------------------
(***************************************************************************)
(* Protected regions: the revisioned set of corrections two dashboard tabs *)
(* edit (saliency_corrections.cpp), and the emphasis map of a frame as the *)
(* scalar reference (saliency.cpp) and the CUDA kernels compute it.        *)
(*                                                                         *)
(* How the score of a tile follows from its pixels is image arithmetic and *)
(* left out: the raw score and the stability of a frame's tiles are        *)
(* inputs, in percent.  From there on every step is the code's.            *)
(***************************************************************************)
EXTENDS Integers, FiniteSets, FiniteSetsExt

CONSTANTS
  SalTile,       \* kSaliencyTileSize, in pixels; a macroblock is two tiles wide
  SalRadius,     \* dilation_radius_tiles
  SalWord,       \* values of a size_t
  SalCapacity,   \* corrections held at a time
  SalSizes,      \* visible geometries, <<width, height>>
  SalRectangles, \* rectangles the tabs ask for, <<x, y, width, height>>
  SalHalos,      \* cursor halos of a frame: sets of rectangles
  SalScores,     \* raw scores a tile may have, in percent
  SalStray,      \* levels that memory past an array of levels may hold
  SalMaxEpoch,   \* bound on geometry epochs
  SalMaxFrames,  \* bound on frames processed
  SalMaxWork     \* bound on accepted edits and processed frames together

Quadruples == Nat \X Nat \X Nat \X Nat

(* The sides of a picture are size_t values and not zero. *)
ASSUME SalAssumption ==
  /\ SalTile \in Nat \ {0} /\ SalRadius \in 0..2 /\ SalCapacity \in Nat \ {0}
  /\ SalWord \in Nat /\ SalSizes \subseteq Nat \X Nat
  /\ \A s \in SalSizes : \A i \in 1..2 : s[i] > 0 /\ s[i] < SalWord
  /\ SalRectangles \subseteq Quadruples /\ SalStray \subseteq 0..4
  /\ \A halos \in SalHalos : halos \subseteq Quadruples

VARIABLE sal

Tabs == {"left", "right"}

-----------------------------------------------------------------------------
(* Rectangles and tiles *)

(* checked_add refuses what does not fit the word. *)
RectangleInside(r, size) ==
  /\ r[3] > 0 /\ r[4] > 0
  /\ r[1] + r[3] < SalWord /\ r[1] + r[3] <= size[1]
  /\ r[2] + r[4] < SalWord /\ r[2] + r[4] <= size[2]

SaturatingAdd(a, b) == Min({a + b, SalWord - 1})

TileCount(length) == (length + SalTile - 1) \div SalTile

Tiles(size) == (0..(TileCount(size[1]) - 1)) \X (0..(TileCount(size[2]) - 1))

(* The first pixel of a tile and the first one after it, along one side. *)
TileSpan(t, length) == <<t * SalTile, Min({(t + 1) * SalTile, length})>>

RectangleIntersects(r, tile, size) ==
  LET h == TileSpan(tile[1], size[1])
      v == TileSpan(tile[2], size[2])
  IN /\ r[3] > 0 /\ r[4] > 0
     /\ r[1] < h[2] /\ SaturatingAdd(r[1], r[3]) > h[1]
     /\ r[2] < v[2] /\ SaturatingAdd(r[2], r[4]) > v[1]

AnyIntersection(rects, tile, size) == \E r \in rects : RectangleIntersects(r, tile, size)

-----------------------------------------------------------------------------
(* The corrections *)

NewCorrections(size) ==
  [size |-> size, epoch |-> 1, revision |-> 0, nextId |-> 1, regions |-> {}]

(* Mutant: a revision that need only have been current once. *)
CurrentOnce(c, expected) == expected <= c.revision

(* add, remove and reset_geometry refuse a stale revision first. *)
Current(c, expected) == expected = c.revision

Added(c, kind, r) ==
  [c EXCEPT !.regions = @ \cup {[id |-> c.nextId, kind |-> kind, rectangle |-> r]},
            !.nextId = @ + 1, !.revision = @ + 1]

CanAdd(c, r) == RectangleInside(r, c.size) /\ Cardinality(c.regions) # SalCapacity

Removed(c, id) ==
  [c EXCEPT !.regions = {g \in @ : g.id # id}, !.revision = @ + 1]

ResetGeometry(c, size, epoch) ==
  [c EXCEPT !.size = size, !.epoch = epoch, !.regions = {}, !.revision = @ + 1]

Overrides(c, halos) ==
  LET Of(kind) == {g.rectangle : g \in {x \in c.regions : x.kind = kind}}
  IN [pins |-> Of("pin"), exclusions |-> Of("exclusion"), halos |-> halos]

(* Tiles the preview shows as contested. *)
ConflictTiles(size, o) ==
  {t \in Tiles(size) : AnyIntersection(o.pins, t, size) /\ AnyIntersection(o.exclusions, t, size)}

-----------------------------------------------------------------------------
(* Scores over time *)

EntryThreshold == 55
ExitThreshold == 40
PreviousCoefficient == 60
ResetGap == 1 \* 200 ms, in ticks

NoPrior == [has |-> FALSE, id |-> 0, epoch |-> 0, time |-> 0, size |-> <<0, 0>>]

SameEpoch(prior, f) == prior.has /\ f.epoch = prior.epoch

FrameAdmitted(prior, f) ==
  /\ prior.has => f.id > prior.id /\ f.time >= prior.time
  /\ SameEpoch(prior, f) => f.size = prior.size

QuantizeActiveLevel(score) ==
  IF score >= 85 THEN 4 ELSE IF score >= 70 THEN 3 ELSE IF score >= 55 THEN 2 ELSE 1

(* Without a comparable picture a tile counts as stable. *)
CurrentScore(prior, f, t) ==
  LET compared == SameEpoch(prior, f) /\ f.time - prior.time <= ResetGap
      stability == IF compared THEN f.stability ELSE 100
  IN (f.score[t] * (300 + stability)) \div 400

FilteredScore(prior, f, t) ==
  IF SameEpoch(prior, f)
  THEN (PreviousCoefficient * prior.score[t]
        + (100 - PreviousCoefficient) * CurrentScore(prior, f, t)) \div 100
  ELSE CurrentScore(prior, f, t)

Active(prior, f, t) ==
  LET wasActive == SameEpoch(prior, f) /\ t \in prior.active
  IN FilteredScore(prior, f, t) >= (IF wasActive THEN ExitThreshold ELSE EntryThreshold)

AutomaticLevels(prior, f) ==
  [t \in Tiles(f.size) |->
     IF Active(prior, f, t) THEN QuantizeActiveLevel(FilteredScore(prior, f, t)) ELSE 0]

-----------------------------------------------------------------------------
(* From tiles to macroblocks, as the reference has it *)

DilateSpan(t, tiles) ==
  (IF t > SalRadius THEN t - SalRadius ELSE 0)
  ..
  (IF t > tiles - 1 - Min({SalRadius, tiles - 1}) THEN tiles - 1 ELSE t + SalRadius)

SpansRead(t, size) ==
  DilateSpan(t[1], TileCount(size[1])) \X DilateSpan(t[2], TileCount(size[2]))

(* In a picture with no more tiles than the radius in one direction these  *)
(* spans leave it.  The levels are an array, row after row: a column past  *)
(* the row is one of a later row, and a row past the last is memory that   *)
(* is not the array's.                                                     *)
Addressed(s, size) ==
  LET width == TileCount(size[1]) IN <<s[1] % width, s[2] + s[1] \div width>>

ReadsPastArray(t, size) == \E s \in SpansRead(t, size) : Addressed(s, size) \notin Tiles(size)

(* What the tiles that read past the array may find there.  A byte that is *)
(* no level makes the reduction throw, and the frame leaves nothing behind.*)
StrayLevels(size) == [{t \in Tiles(size) : ReadsPastArray(t, size)} -> SalStray]

Dilated(levels, stray, size) ==
  LET Read(t, s) == IF Addressed(s, size) \in Tiles(size)
                    THEN levels[Addressed(s, size)] ELSE stray[t]
  IN [t \in Tiles(size) |-> Max({Read(t, s) : s \in SpansRead(t, size)})]

Overridden(levels, o, size) ==
  [t \in Tiles(size) |->
     IF AnyIntersection(o.exclusions, t, size) THEN 0
     ELSE Max({levels[t],
               IF AnyIntersection(o.halos, t, size) THEN 3 ELSE 0,
               IF AnyIntersection(o.pins, t, size) THEN 4 ELSE 0})]

ReducedToMacroblocks(levels, size) ==
  LET w == TileCount(size[1])
      h == TileCount(size[2])
      Pair(m, tiles) == (2 * m)..(Min({2 * m + 2, tiles}) - 1)
  IN [m \in (0..((w + 1) \div 2 - 1)) \X (0..((h + 1) \div 2 - 1)) |->
        Max({levels[t] : t \in Pair(m[1], w) \X Pair(m[2], h)})]

-----------------------------------------------------------------------------
(* ... and as the kernels have it, one thread per tile or macroblock *)

MorphologyKernel(levels, o, size) ==
  LET w == TileCount(size[1])
      h == TileCount(size[2])
      Low(t) == IF t > SalRadius THEN t - SalRadius ELSE 0
      High(t, n) == IF t + SalRadius < n THEN t + SalRadius ELSE n - 1
      Level(t) == Max({levels[s] : s \in (Low(t[1])..High(t[1], w)) \X (Low(t[2])..High(t[2], h))})
  IN [t \in Tiles(size) |->
        IF AnyIntersection(o.exclusions, t, size) THEN 0
        ELSE Max({Level(t),
                  IF AnyIntersection(o.halos, t, size) THEN 3 ELSE 0,
                  IF AnyIntersection(o.pins, t, size) THEN 4 ELSE 0})]

(* The surface is rounded up to even sides before its macroblocks count. *)
Macroblocks(length) ==
  LET coded == length + (length % 2)
  IN (coded + 2 * SalTile - 1) \div (2 * SalTile)

ReductionKernel(levels, size) ==
  [m \in (0..(Macroblocks(size[1]) - 1)) \X (0..(Macroblocks(size[2]) - 1)) |->
     Max({levels[t] : t \in {s \in Tiles(size) :
            \A side \in 1..2 : s[side] \in (2 * m[side])..(2 * m[side] + 1)}})]

-----------------------------------------------------------------------------
(* Two dashboard tabs edit the set, and frames are processed with what it  *)
(* then holds.  A tab names the revision it shows, sends one command at a  *)
(* time and shows the snapshot of the answer; it hears nothing of what     *)
(* others did in between.                                                  *)

NoOutput == [frame |-> 0]
NoEdit == [saw |-> {}, met |-> {}]

Snapshot(c) == [revision |-> c.revision, regions |-> c.regions]

NewTab(c) == [shown |-> Snapshot(c), answers |-> {}]

SalInit ==
  \E size \in SalSizes :
    LET c == NewCorrections(size)
    IN sal = [cor |-> c, prior |-> NoPrior, out |-> NoOutput, work |-> 0,
              tabs |-> [t \in Tabs |-> NewTab(c)], edit |-> NoEdit]

(* A tab is opened, or opened again. *)
LoadState(t) ==
  /\ sal.tabs[t] # NewTab(sal.cor)
  /\ sal' = [sal EXCEPT !.tabs[t] = NewTab(sal.cor), !.out = NoOutput]

(* The commands a tab can send of what it shows. *)
Commands(shown) ==
  [action : {"pin", "exclusion"}, rectangle : SalRectangles, expected : {shown.revision}]
  \cup [action : {"remove"}, id : {g.id : g \in shown.regions}, expected : {shown.revision}]

Idle(tab) == tab.answers = {}

CommandAccepted(c, command) ==
  /\ Current(c, command.expected)
  /\ IF command.action = "remove" THEN \E g \in c.regions : g.id = command.id
     ELSE CanAdd(c, command.rectangle)

CommandApplied(c, command) ==
  IF command.action = "remove" THEN Removed(c, command.id)
  ELSE Added(c, command.action, command.rectangle)

(* A command is sent and reaches the corrections, which answer with what   *)
(* they hold.  On its way it changes nothing, and the tab waits for it, so *)
(* both are one step.                                                      *)
PerformCommand(t, command) ==
  LET accepted == CommandAccepted(sal.cor, command)
      cor == IF accepted THEN CommandApplied(sal.cor, command) ELSE sal.cor
  IN /\ Idle(sal.tabs[t])
     /\ sal' = [sal EXCEPT
          !.cor = cor, !.out = NoOutput, !.tabs[t].answers = {Snapshot(cor)},
          !.work = IF accepted THEN @ + 1 ELSE @,
          !.edit = IF accepted THEN [saw |-> sal.tabs[t].shown.regions, met |-> sal.cor.regions]
                   ELSE @]

(* The tab shows the answer, or never gets it and shows what it did. *)
AnswerArrives(t) ==
  \E answer \in sal.tabs[t].answers \cup {sal.tabs[t].shown} :
    /\ sal.tabs[t].answers # {}
    /\ sal' = [sal EXCEPT !.tabs[t].shown = answer, !.tabs[t].answers = {}, !.out = NoOutput]

(* The sender's own change of geometry, at the revision it reads. *)
GeometryChanges(size, epoch) ==
  /\ epoch > sal.cor.epoch
  /\ sal' = [sal EXCEPT !.cor = ResetGeometry(sal.cor, size, epoch), !.work = @ + 1,
                        !.out = NoOutput]

ProcessFrame(f, halos, stray) ==
  LET o == Overrides(sal.cor, halos)
      automatic == AutomaticLevels(sal.prior, f)
      final == Overridden(Dilated(automatic, stray, f.size), o, f.size)
      scores == [t \in Tiles(f.size) |-> FilteredScore(sal.prior, f, t)]
  IN /\ FrameAdmitted(sal.prior, f) /\ f.id <= SalMaxFrames
     /\ sal' = [sal EXCEPT
          !.prior = [has |-> TRUE, id |-> f.id, epoch |-> f.epoch, time |-> f.time, size |-> f.size,
                     score |-> scores,
                     active |-> {t \in Tiles(f.size) : Active(sal.prior, f, t)}],
          !.out = [frame |-> f.id, fresh |-> ~SameEpoch(sal.prior, f), overrides |-> o,
                   automatic |-> automatic,
                   map |-> ReducedToMacroblocks(final, f.size),
                   device |-> ReductionKernel(MorphologyKernel(automatic, o, f.size), f.size)],
          !.edit = NoEdit, !.work = @ + 1]

ResetReference ==
  /\ sal.prior.has
  /\ sal' = [sal EXCEPT !.prior = NoPrior, !.out = NoOutput]

(* One corner of a frame stands out; ids about the last frame's. *)
Corners(size) == {<<0, 0>>, <<TileCount(size[1]) - 1, TileCount(size[2]) - 1>>}

Frames ==
  UNION {[id : sal.prior.id..(sal.prior.id + 1), epoch : 1..SalMaxEpoch, size : {size},
          time : {t \in {0, ResetGap + 1} : sal.prior.has \/ t = 0}, stability : {0},
          score : {[t \in Tiles(size) |-> IF t = hot THEN s ELSE 0] :
                     hot \in Corners(size), s \in SalScores}] : size \in SalSizes}

(* A frame reads the set and leaves it alone, so it is enough to process   *)
(* frames while no tab waits, after the edits.                             *)
SalNext ==
  /\ sal.work < SalMaxWork
  /\ \/ /\ ~sal.prior.has
        /\ \/ \E t \in Tabs :
               \/ LoadState(t) \/ AnswerArrives(t)
               \/ \E c \in Commands(sal.tabs[t].shown) : PerformCommand(t, c)
           \/ \E size \in SalSizes, epoch \in 1..SalMaxEpoch : GeometryChanges(size, epoch)
     \/ /\ \A t \in Tabs : Idle(sal.tabs[t])
        /\ \E f \in Frames, halos \in SalHalos :
             \E stray \in StrayLevels(f.size) : ProcessFrame(f, halos, stray)
     \/ ResetReference

SalSpec == SalInit /\ [][SalNext]_sal

-----------------------------------------------------------------------------
(* Properties *)

CoveredPixels(r) == {<<x, y>> : x \in r[1]..(r[1] + r[3] - 1), y \in r[2]..(r[2] + r[4] - 1)}
Picture(size) == (0..(size[1] - 1)) \X (0..(size[2] - 1))
TileOf(p) == <<p[1] \div SalTile, p[2] \div SalTile>>
MacroblockOf(p) == <<p[1] \div (2 * SalTile), p[2] \div (2 * SalTile)>>

(* An edit that was accepted was made by a tab that showed the very set it *)
(* changed, and no correction lies outside the geometry it is applied to,  *)
(* whatever tabs and geometry changes came in between.                     *)
EditsAreInformed ==
  /\ sal.edit.saw = sal.edit.met
  /\ Cardinality(sal.cor.regions) <= SalCapacity
  /\ \A g \in sal.cor.regions :
       /\ CoveredPixels(g.rectangle) \subseteq Picture(sal.cor.size)
       /\ \A k \in sal.cor.regions : g.id = k.id => g = k

CoveredTiles(rects, size) ==
  {TileOf(p) : p \in (UNION {CoveredPixels(r) : r \in rects}) \cap Picture(size)}

Near(t, s) == \A side \in 1..2 : t[side] - s[side] \in (-SalRadius)..SalRadius

(* What a map owes a frame's pixels: every pixel has a macroblock; one all *)
(* of whose tiles hold an excluded pixel is unprotected, contested tiles   *)
(* included; a pinned pixel or an active tile's neighbour outside the      *)
(* exclusions keeps its level.                                             *)
Protects(map, out, size) ==
  LET excluded == CoveredTiles(out.overrides.exclusions, size)
      pinned == CoveredTiles(out.overrides.pins, size)
  IN /\ DOMAIN map = {MacroblockOf(p) : p \in Picture(size)}
     /\ \A m \in DOMAIN map :
          {TileOf(p) : p \in {q \in Picture(size) : MacroblockOf(q) = m}} \subseteq excluded
            => map[m] = 0
     /\ \A p \in Picture(size) : TileOf(p) \notin excluded =>
          /\ TileOf(p) \in pinned => map[MacroblockOf(p)] >= 4
          /\ \A s \in Tiles(size) :
               Near(TileOf(p), s) => map[MacroblockOf(p)] >= out.automatic[s]

ReadsInside(size) == \A side \in 1..2 : TileCount(size[side]) > SalRadius

(* The maps of a frame, stated over pixels: reference and kernels each     *)
(* give the pixels what they are owed, for every picture, and agree for    *)
(* the pictures within which the reference reads; the preview's contested  *)
(* tiles are the pinned and excluded ones; and what is active in the first *)
(* frame of an epoch passed the entry threshold, whatever the epoch before *)
(* left behind.                                                            *)
MapFollowsPixels ==
  sal.out.frame > 0 =>
    LET size == sal.prior.size
        o == sal.out.overrides
    IN /\ Protects(sal.out.map, sal.out, size) /\ Protects(sal.out.device, sal.out, size)
       /\ ReadsInside(size) => sal.out.map = sal.out.device
       /\ ConflictTiles(size, o) = CoveredTiles(o.pins, size) \cap CoveredTiles(o.exclusions, size)
       /\ sal.out.fresh =>
            \A t \in sal.prior.active : sal.prior.score[t] >= EntryThreshold

SaliencyFaithful == EditsAreInformed /\ MapFollowsPixels
=============================================================================
