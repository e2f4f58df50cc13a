------------------------------ MODULE MapFrame ------------------------------
(***************************************************************************)
(* The geometry of a frame: which tiles a camera shows and where on the    *)
(* screen, from which uploaded texture each of them is drawn, and which    *)
(* tiles are asked for around them. RendererWorker has the results as its  *)
(* constants VisibleTiles and PrefetchTier.                                *)
(*                                                                         *)
(* A camera has a whole zoom level and a magnification in whole parts,     *)
(* between 1 and 2. Positions on the screen are counted in half parts of a *)
(* pixel, so that everything stays a whole number. Bearing and pitch are   *)
(* checked by the code, but have no effect on a frame; rounding of         *)
(* floating-point numbers is left out.                                     *)
(***************************************************************************)
EXTENDS WebMercator, FiniteSetsExt

CONSTANTS
  Cameras,    \* bound: the cameras this instance's UI sends
  Screens,    \* bound: the sizes of its surface, in pixels
  Rates,      \* bound: updates of the camera per second
  Parts,      \* parts of the magnification
  NoCamera, NoScreen

ASSUME FrameAssumption ==
  /\ Parts \in Nat \ {0} /\ Rates \subseteq Nat \ {0}
  /\ \A s \in Screens : s.width \in Nat \ {0} /\ s.height \in Nat \ {0}

VARIABLES
  camera,       \* the camera of RenderState
  screen,       \* its viewport
  surface,      \* the size the GPU surface is configured with
  lastCamera,   \* camera_motion.last_camera
  velocity,     \* camera_motion.velocity_tiles_per_sec, as a fraction
  moving        \* whether the camera changed less than 250 ms ago

frameVars == <<camera, screen, surface, lastCamera, velocity, moving>>

(* MapCamera::validate; tile_zoom is the camera's zoom level.              *)
ValidCamera(c) ==
  /\ ValidZoom(c.zoom) /\ c.scale \in Parts..(2 * Parts - 1)
  /\ c.zoom = MaxZoom => c.scale = Parts
  /\ ValidPoint(c)

FrameInit ==
  /\ camera = [lat |-> 0, lon |-> 0, zoom |-> 0, scale |-> Parts]
  /\ screen = NoScreen /\ surface = NoScreen
  /\ lastCamera = NoCamera
  /\ velocity = [x |-> 0, y |-> 0, tile |-> 1]
  /\ moving = FALSE

Center(c, zoom) == [x |-> WorldX(c.lon, zoom), y |-> WorldY(c.lat, zoom)]

(* update_camera_motion: the velocity is the way since the last camera, in *)
(* tiles of the new one. A view that wraps around counts as a long way. No *)
(* two updates come at the same instant of the clock.                      *)
Velocity(from, to, rate) ==
  LET a == Center(from, to.zoom)  b == Center(to, to.zoom) IN
  [x |-> (b.x - a.x) * rate, y |-> (b.y - a.y) * rate, tile |-> TileSize]

ApplyCamera(c, rate) ==
  /\ IF ValidCamera(c)
     THEN /\ camera' = c
          /\ lastCamera' = c
          /\ velocity' = IF lastCamera = NoCamera THEN velocity
                         ELSE Velocity(lastCamera, c, rate)
          /\ moving' = TRUE
     ELSE UNCHANGED <<camera, lastCamera, velocity, moving>>
  /\ UNCHANGED <<screen, surface>>

(* Resize: a density that is refused leaves the viewport as it was, but the *)
(* surface has its new size by then.                                       *)
Resized(s, density) ==
  /\ surface' = s
  /\ screen' = IF density = "valid" THEN s ELSE screen
  /\ UNCHANGED <<camera, lastCamera, velocity, moving>>

(* camera_is_moving, 250 ms after the last update.                         *)
Settles ==
  /\ moving /\ moving' = FALSE
  /\ UNCHANGED <<camera, screen, surface, lastCamera, velocity>>

FrameNext ==
  \/ \E c \in Cameras, rate \in Rates : ApplyCamera(c, rate)
  \/ \E s \in Screens, density \in {"valid", "refused"} : Resized(s, density)
  \/ Settles

FrameSpec == FrameInit /\ [][FrameNext]_frameVars

---------------------------------------------------------------------------
(* visible_tiles.                                                          *)

TilesAcross(zoom) == Pow2(zoom)

FirstTile(center, extent) ==
  (2 * camera.scale * center - extent * Parts) \div (2 * camera.scale * TileSize)
LastTile(center, extent) ==
  (2 * camera.scale * center + extent * Parts) \div (2 * camera.scale * TileSize)

OnScreen(world, center, extent) ==
  2 * (world - center) * camera.scale + extent * Parts

(* Mutant of VisibleTile: the column is cut off at the edge of the world.  *)
ClampedTile(x, y) ==
  LET z == camera.zoom  c == Center(camera, z) IN
  [id |-> [z |-> z, x |-> Clamped(x, 0, TilesAcross(z) - 1), y |-> y],
   x |-> OnScreen(x * TileSize, c.x, screen.width),
   y |-> OnScreen(y * TileSize, c.y, screen.height),
   size |-> 2 * TileSize * camera.scale]

(* Columns beyond the antimeridian show the other side of the world, and   *)
(* on a wide screen the same tile in several places.                       *)
VisibleTile(x, y) ==
  LET z == camera.zoom  c == Center(camera, z) IN
  [id |-> [z |-> z, x |-> x % TilesAcross(z), y |-> y],
   x |-> OnScreen(x * TileSize, c.x, screen.width),
   y |-> OnScreen(y * TileSize, c.y, screen.height),
   size |-> 2 * TileSize * camera.scale]

(* Row by row: the order in which the code sorts what it has found.        *)
VisibleTiles ==
  LET c == Center(camera, camera.zoom)
      west == FirstTile(c.x, screen.width)
      across == LastTile(c.x, screen.width) - west + 1
      rows == (FirstTile(c.y, screen.height)..LastTile(c.y, screen.height))
                \cap 0..(TilesAcross(camera.zoom) - 1)
  IN [i \in 1..(across * Cardinality(rows)) |->
        VisibleTile(west + ((i - 1) % across), Min(rows) + ((i - 1) \div across))]

VisibleIds == LET tiles == VisibleTiles IN {tiles[i].id : i \in DOMAIN tiles}

---------------------------------------------------------------------------
(* resolve_tile_draw and tile_vertices.                                    *)

(* Mutant of Parent: the offset in the ancestor is not scaled.             *)
ParentUnscaled(d) ==
  LET id == d.tile IN
  [tile |-> [z |-> id.z - 1, x |-> id.x \div 2, y |-> id.y \div 2],
   divisor |-> 2 * d.divisor,
   x |-> 2 * d.x + (id.x % 2), y |-> 2 * d.y + (id.y % 2)]

(* One level up: the texture, how many times wider it is, and the place of *)
(* the tile in it.                                                         *)
Parent(d) ==
  LET id == d.tile IN
  [tile |-> [z |-> id.z - 1, x |-> id.x \div 2, y |-> id.y \div 2],
   divisor |-> 2 * d.divisor,
   x |-> d.x + (id.x % 2) * d.divisor, y |-> d.y + (id.y % 2) * d.divisor]

Ancestors(id) ==
  LET up[k \in 0..id.z] ==
        IF k = 0 THEN [tile |-> id, divisor |-> 1, x |-> 0, y |-> 0]
        ELSE Parent(up[k - 1])
  IN up

(* The nearest uploaded ancestor, if there is one: none or one of them.    *)
ResolveTileDraw(uploaded, id) ==
  LET up == Ancestors(id)
      found == {k \in 0..id.z : up[k].tile \in uploaded}
  IN {up[k] : k \in {k \in found : \A other \in found : k <= other}}

(* Corners of the quad around the middle of the surface, y up, and of the   *)
(* texture, in parts of the draw's divisor. Two triangles make the quad.   *)
TileVertices(tile, d) ==
  LET left == tile.x - surface.width * Parts
      right == left + tile.size
      top == surface.height * Parts - tile.y
      bottom == top - tile.size
      vertex(x, y, u, v) == [x |-> x, y |-> y, u |-> u, v |-> v]
  IN << vertex(left, bottom, d.x, d.y + 1), vertex(right, bottom, d.x + 1, d.y + 1),
        vertex(right, top, d.x + 1, d.y), vertex(left, bottom, d.x, d.y + 1),
        vertex(right, top, d.x + 1, d.y), vertex(left, top, d.x, d.y) >>

---------------------------------------------------------------------------
(* build_tile_request_plan.                                                *)

Speed2 == velocity.x * velocity.x + velocity.y * velocity.y
(* Whether the speed is over a number of quarter tiles per second.         *)
Faster(quarters) == 16 * Speed2 > (quarters * velocity.tile) * (quarters * velocity.tile)

DynamicPrefetchRings == IF Faster(14) THEN 3 ELSE IF Faster(6) THEN 2 ELSE 1

(* The tiles the plan starts from: it takes ids, which have been wrapped.  *)
Columns == {id.x : id \in VisibleIds}
Rows == {id.y : id \in VisibleIds}

Wrapped(x, y) == [z |-> camera.zoom, x |-> x % TilesAcross(camera.zoom), y |-> y]
InWorld(y) == y \in 0..(TilesAcross(camera.zoom) - 1)

Ring(n) ==
  LET west == Min(Columns) - n  east == Max(Columns) + n
      north == Min(Rows) - n    south == Max(Rows) + n
  IN {Wrapped(p[1], p[2]) :
        p \in {q \in (west..east) \X (north..south) :
                 /\ InWorld(q[2])
                 /\ (q[1] \in {west, east} \/ q[2] \in {north, south})}}

(* round(direction * steps), where the direction is part / speed; halves   *)
(* round away from zero.                                                   *)
Rounded(part, steps) ==
  LET n == Max({0} \cup {k \in 1..3 :
             (2 * k - 1) * (2 * k - 1) * Speed2 <= 4 * part * part * steps * steps})
  IN IF part * steps < 0 THEN -n ELSE n

LookAheadDepth ==
  IF ~Faster(4) THEN 1 ELSE IF ~Faster(8) THEN 2 ELSE 3

(* Mutant of LookAheadOffset: the sideways step is not at right angles.    *)
LookAheadSkewed(step, side) ==
  << Rounded(velocity.x, step) + Rounded(velocity.y, side),
     Rounded(velocity.y, step) + Rounded(velocity.x, side) >>

LookAheadOffset(step, side) ==
  << Rounded(velocity.x, step) + Rounded(velocity.y, side),
     Rounded(velocity.y, step) - Rounded(velocity.x, side) >>

LookAheadTiles ==
  IF 16 * Speed2 < velocity.tile * velocity.tile THEN {}
  ELSE LET x == (Min(Columns) + Max(Columns)) \div 2
           y == (Min(Rows) + Max(Rows)) \div 2
           ahead == {LookAheadOffset(step, side) : step \in 1..LookAheadDepth, side \in -1..1}
       IN {Wrapped(x + o[1], y + o[2]) : o \in {o \in ahead : InWorld(y + o[2])}}

(* The plan as a set of tiles for each TilePriority.                       *)
RequestPlan ==
  IF VisibleTiles = <<>> \/ moving
  THEN [visible |-> VisibleIds, ahead |-> {}, around |-> {}]
  ELSE LET ahead == LookAheadTiles \ VisibleIds
           rings == UNION {Ring(n) : n \in 1..DynamicPrefetchRings}
       IN [visible |-> VisibleIds, ahead |-> ahead,
           around |-> rings \ (VisibleIds \cup ahead)]

---------------------------------------------------------------------------
(* What is on the screen. A pixel of the map is one of the zoom level's    *)
(* pixels, counted on beyond the antimeridian in both directions.          *)

WorldSize == TilesAcross(camera.zoom) * TileSize

(* The pixels of one row or column of the map that the screen shows any of.*)
PixelsShown(center, extent) ==
  {p \in ((2 * camera.scale * center - extent * Parts) \div (2 * camera.scale))
         ..((2 * camera.scale * center + extent * Parts) \div (2 * camera.scale)) :
     /\ OnScreen(p, center, extent) < 2 * extent * Parts
     /\ OnScreen(p + 1, center, extent) > 0}

(* Every pixel of the map that the screen shows is shown by one tile, and  *)
(* by the right one, wherever in the world the camera is and however often *)
(* the screen shows the world.                                             *)
ViewCovered ==
  screen # NoScreen =>
    LET tiles == VisibleTiles
        c == Center(camera, camera.zoom)
        pixel == 2 * camera.scale
        holds(start, size, at) == start <= at /\ at + pixel <= start + size
    IN \A x \in PixelsShown(c.x, screen.width),
          y \in PixelsShown(c.y, screen.height) \cap 0..(WorldSize - 1) :
         LET showing == {i \in DOMAIN tiles :
               /\ holds(tiles[i].x, tiles[i].size, OnScreen(x, c.x, screen.width))
               /\ holds(tiles[i].y, tiles[i].size, OnScreen(y, c.y, screen.height))}
         IN /\ Cardinality(showing) = 1
            /\ \A i \in showing :
                 tiles[i].id = [z |-> camera.zoom, x |-> (x % WorldSize) \div TileSize,
                                y |-> y \div TileSize]

TilesOf(zoom) ==
  [z : {zoom}, x : 0..(TilesAcross(zoom) - 1), y : 0..(TilesAcross(zoom) - 1)]

(* Whatever is uploaded, a tile is drawn from the most detailed texture    *)
(* that shows its place, and each corner of its quad shows exactly the     *)
(* place of the world that the camera has there: as long as the viewport   *)
(* has the size of the surface.                                            *)
Covers(outer, id) ==
  /\ outer.z <= id.z
  /\ outer.x = id.x \div TilesAcross(id.z - outer.z)
  /\ outer.y = id.y \div TilesAcross(id.z - outer.z)

InPlace(tile, d) ==
  LET unit == 2 * camera.scale
      c == Center(camera, camera.zoom)
      corners == TileVertices(tile, d)
  IN \A i \in DOMAIN corners :
       LET v == corners[i] IN
       /\ (unit * c.x + v.x - unit * TileSize * (d.tile.x * d.divisor + v.u))
            % (unit * WorldSize) = 0
       /\ unit * c.y - v.y = unit * TileSize * (d.tile.y * d.divisor + v.v)

DrawnInPlace ==
  screen # NoScreen /\ surface = screen =>
    LET tiles == VisibleTiles IN
    \A i \in DOMAIN tiles :
      LET id == tiles[i].id
          containing == {t \in UNION {TilesOf(z) : z \in 0..id.z} : Covers(t, id)}
      IN \A uploaded \in SUBSET containing :
           LET draws == ResolveTileDraw(uploaded, id) IN
           /\ draws = {} => uploaded = {}
           /\ \A d \in draws :
                /\ d.tile \in uploaded
                /\ \A t \in uploaded : t.z <= d.tile.z
                /\ InPlace(tiles[i], d)

(* While the camera moves nothing but what it shows is asked for. At rest  *)
(* the plan also has every neighbour of a visible tile, and nothing that   *)
(* is further away than prefetching reaches; and what it looks ahead for   *)
(* lies ahead of the way the camera went. A view across the antimeridian   *)
(* is left out: the plan takes its columns for the whole width of the      *)
(* world, asks for rows all around it, and misses the view's own sides.    *)
CrossesView ==
  LET c == Center(camera, camera.zoom) IN
  \/ FirstTile(c.x, screen.width) < 0
  \/ LastTile(c.x, screen.width) >= TilesAcross(camera.zoom)

Distance(a, b) ==
  LET across == TilesAcross(camera.zoom)
      way == (a.x - b.x) % across
  IN Max({IF way < across - way THEN way ELSE across - way,
          IF a.y < b.y THEN b.y - a.y ELSE a.y - b.y})

PlanFollowsView ==
  screen # NoScreen /\ ~CrossesView =>
    LET plan == RequestPlan
        visible == VisibleIds
        planned == plan.visible \cup plan.ahead \cup plan.around
        near(n) == {t \in TilesOf(camera.zoom) :
                     \E v \in visible : Distance(t, v) <= n}
        reach == DynamicPrefetchRings
    IN IF moving THEN planned = visible
       ELSE /\ plan.visible = visible
            /\ near(1) \subseteq planned
            /\ plan.around \subseteq near(reach)
            /\ plan.ahead \subseteq near(4)
            /\ \A step \in 1..LookAheadDepth, side \in -1..1 :
                 LET o == LookAheadOffset(step, side) IN
                 16 * Speed2 >= velocity.tile * velocity.tile =>
                   o[1] * velocity.x + o[2] * velocity.y > 0
===========================================================================
