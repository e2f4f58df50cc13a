---------------------------- MODULE WebMercator ----------------------------
(***************************************************************************)
(* osm-core: places, bounds, their projection to the pixels of a zoom      *)
(* level, and tile ids.                                                    *)
(*                                                                         *)
(* Degrees are measured in pixels of zoom 0, and latitudes by the row they *)
(* project to: the projection is monotone, so that every comparison of the *)
(* code comes out the same. The latitudes that Web Mercator cuts off, the  *)
(* poles among them, are one step beyond the last row.                     *)
(***************************************************************************)
EXTENDS Integers

CONSTANTS
  MaxZoom,    \* TileId::MAX_ZOOM
  TileSize    \* TILE_SIZE_PX

ASSUME MercatorAssumption ==
  /\ MaxZoom \in Nat
  /\ TileSize \in Nat \ {0} /\ TileSize % 2 = 0

HalfWorld == TileSize \div 2
MaxLatitude == HalfWorld

ValidLatitude(lat) == lat \in -(MaxLatitude + 1)..(MaxLatitude + 1)
ValidLongitude(lon) == lon \in -HalfWorld..HalfWorld
ValidZoom(zoom) == zoom \in 0..MaxZoom
ValidPoint(p) == ValidLatitude(p.lat) /\ ValidLongitude(p.lon)

ValidBounds(b) ==
  /\ ValidLatitude(b.south) /\ ValidLatitude(b.north)
  /\ ValidLongitude(b.west) /\ ValidLongitude(b.east)
  /\ b.south <= b.north

(* Bounds whose west is east of their east cross the antimeridian.         *)
CrossesAntimeridian(b) == b.west > b.east

BoundsContain(b, p) ==
  /\ p.lat \in b.south..b.north
  /\ IF CrossesAntimeridian(b) THEN p.lon >= b.west \/ p.lon <= b.east
                               ELSE p.lon \in b.west..b.east

Clamped(value, low, high) ==
  IF value < low THEN low ELSE IF value > high THEN high ELSE value

(* The tiles across the world at a zoom level.                             *)
Pow2(zoom) == 2 ^ zoom

(* A longitude of 180 degrees projects to the right edge of the world, not *)
(* to the left one.                                                        *)
WorldX(lon, zoom) == (lon + HalfWorld) * Pow2(zoom)
WorldY(lat, zoom) ==
  (HalfWorld - Clamped(lat, -MaxLatitude, MaxLatitude)) * Pow2(zoom)

ValidTile(id) ==
  /\ ValidZoom(id.z)
  /\ id.x \in 0..(Pow2(id.z) - 1)
  /\ id.y \in 0..(Pow2(id.z) - 1)
===========================================================================
