-------------------------- MODULE RenderStateProofs --------------------------
(***************************************************************************)
(* Proofs about what a renderer keeps of the map and computes from it: the *)
(* frames, for any world, cameras and screens, and the layers, for any     *)
(* layers and ids.                                                         *)
(*                                                                         *)
(* That a frame shows what its camera sees is arithmetic of pixels, columns *)
(* and rows: each lemma takes one direction of the screen. That layers stay *)
(* in order is mostly that sort_layers sorts: a layer's rank is its place. *)
(***************************************************************************)
EXTENDS MapFrame, LayerStack, FoldLemmas, SequenceTheorems

---------------------------------------------------------------------------
(* The arithmetic of whole numbers that tiles and pixels are computed in.  *)

(* A power of two counts the subsets of as many elements.                  *)
LEMMA CountsSubsets ==
  ASSUME NEW n \in Nat
  PROVE  /\ IsFiniteSet(SUBSET (1..n))
         /\ Cardinality(SUBSET (1..n)) = Pow2(n)
<1>1. IsFiniteSet(1..n) /\ Cardinality(1..n) = n
  <2>1. PICK one \in Int : one = 1
    OBVIOUS
  <2>2. /\ IsFiniteSet(one..n)
        /\ Cardinality(one..n) = IF one > n THEN 0 ELSE n - one + 1
    BY FS_Interval
  <2> QED
    BY <2>1, <2>2
<1>2. PICK S : S = 1..n
  OBVIOUS
<1>3. IsFiniteSet(SUBSET S) /\ Cardinality(SUBSET S) = 2 ^ Cardinality(S)
  BY <1>1, <1>2, FS_SUBSET
<1> QED
  BY <1>1, <1>2, <1>3, Zenon DEF Pow2

(* One element more: the subsets without it, and those with it.            *)
LEMMA TwiceAsMany ==
  ASSUME NEW S, NEW x, x \notin S, IsFiniteSet(SUBSET S)
  PROVE  Cardinality(SUBSET (S \cup {x})) = 2 * Cardinality(SUBSET S)
<1> DEFINE A == SUBSET S
           B == {s \cup {x} : s \in A}
           f == [s \in A |-> s \cup {x}]
<1>1. SUBSET (S \cup {x}) = A \cup B
  <2>1. ASSUME NEW s \in SUBSET (S \cup {x}) PROVE s \in A \cup B
    <3>1. CASE x \in s
      <4>1. s \ {x} \in A /\ s = (s \ {x}) \cup {x}
        BY <3>1
      <4> QED
        BY <4>1
    <3>2. CASE x \notin s
      BY <3>2
    <3> QED
      BY <3>1, <3>2
  <2> QED
    BY <2>1
<1>2. A \cap B = {}
  OBVIOUS
<1>3. f \in Bijection(A, B)
  <2>1. f \in [A -> B]
    OBVIOUS
  <2>2. ASSUME NEW r \in A, NEW s \in A, f[r] = f[s] PROVE r = s
    <3>1. r \cup {x} = s \cup {x}
      BY <2>2
    <3>2. x \notin r /\ x \notin s
      OBVIOUS
    <3> QED
      BY <3>1, <3>2
  <2>3. \A b \in B : \E s \in A : f[s] = b
    OBVIOUS
  <2> HIDE DEF A, B, f
  <2>4. f \in Injection(A, B)
    BY <2>1, <2>2 DEF Injection, IsInjective
  <2>5. f \in Surjection(A, B)
    BY <2>1, <2>3, Zenon DEF Surjection
  <2> QED
    BY <2>4, <2>5 DEF Bijection
<1>4. IsFiniteSet(B) /\ Cardinality(B) = Cardinality(A)
  BY <1>3, FS_Bijection DEF ExistsBijection
<1>5. Cardinality(A \cup B) = Cardinality(A) + Cardinality(B) - Cardinality(A \cap B)
  <2> HIDE DEF B
  <2> QED
    BY <1>4, FS_Union
<1>6. Cardinality(A) \in Nat /\ Cardinality(A \cap B) = 0
  BY <1>2, FS_CardinalityType, FS_EmptySet
<1> HIDE DEF A, B
<1>7. Cardinality(A \cup B) = 2 * Cardinality(A)
  BY <1>4, <1>5, <1>6
<1> QED
  BY <1>1, <1>7 DEF A

(* Every zoom level has twice as many tiles across as the one before.      *)
LEMMA Powers ==
  /\ Pow2(0) = 1
  /\ \A n \in Nat : Pow2(n) \in Nat \ {0} /\ Pow2(n + 1) = 2 * Pow2(n)
<1>1. Pow2(0) = 1
  <2>1. PICK none \in Nat : none = 0
    OBVIOUS
  <2>2. Cardinality(SUBSET (1..none)) = Pow2(none)
    BY CountsSubsets
  <2>3. SUBSET (1..none) = {{}}
    BY <2>1
  <2> QED
    BY <2>1, <2>2, <2>3, FS_Singleton
<1>2. ASSUME NEW n \in Nat
      PROVE  Pow2(n) \in Nat \ {0} /\ Pow2(n + 1) = 2 * Pow2(n)
  <2>1. PICK S, m, x : S = 1..n /\ m = n + 1 /\ x = n + 1
    OBVIOUS
  <2>2. m \in Nat /\ x \notin S /\ 1..m = S \cup {x}
    BY <2>1
  <2>3. IsFiniteSet(SUBSET S) /\ Cardinality(SUBSET S) = Pow2(n)
    BY <2>1, CountsSubsets
  <2>4. Cardinality(SUBSET (1..m)) = Pow2(m)
    BY <2>2, CountsSubsets
  <2>5. Cardinality(SUBSET (S \cup {x})) = 2 * Cardinality(SUBSET S)
    BY <2>2, <2>3, TwiceAsMany
  <2>6. Cardinality(SUBSET S) \in Nat /\ Cardinality(SUBSET S) # 0
    BY <2>3, FS_CardinalityType, FS_EmptySet
  <2> QED
    BY <2>1, <2>2, <2>3, <2>4, <2>5, <2>6
<1> QED
  BY <1>1, <1>2

LEMMA Division ==
  ASSUME NEW a \in Int, NEW b \in Nat \ {0}
  PROVE  /\ a \div b \in Int /\ a % b \in 0..(b - 1)
         /\ a = (b * (a \div b)) + (a % b)
OBVIOUS

(* Multiplication by a positive number keeps the order.                    *)
LEMMA Scaling ==
  ASSUME NEW u \in Nat \ {0}, NEW a \in Int, NEW b \in Int
  PROVE  /\ u * a \in Int
         /\ u * a <= u * b <=> a <= b
         /\ u * a < u * b <=> a < b
         /\ u * a = u * b <=> a = b
<1>1. a <= b => u * a <= u * b
  OBVIOUS
<1>2. a < b => u * a < u * b
  OBVIOUS
<1>3. b < a => u * b < u * a
  OBVIOUS
<1>4. u * a \in Int /\ u * b \in Int
  OBVIOUS
<1> QED
  BY <1>1, <1>2, <1>3, <1>4

(* A quotient is the one number whose multiple leaves a small remainder.   *)
LEMMA Quotient ==
  ASSUME NEW a \in Int, NEW b \in Nat \ {0}, NEW q \in Int, NEW r \in 0..(b - 1),
         a = (b * q) + r
  PROVE  a \div b = q /\ a % b = r
OBVIOUS

(* The quotient is the largest number whose multiple is not above.         *)
LEMMA Floor ==
  ASSUME NEW a \in Int, NEW b \in Nat \ {0}, NEW n \in Int
  PROVE  n <= a \div b <=> b * n <= a
<1> DEFINE q == a \div b
           r == a % b
<1>1. q \in Int /\ r \in 0..(b - 1) /\ a = (b * q) + r
  BY Division
<1> HIDE DEF q, r
<1>2. n <= q <=> b * n <= b * q
  BY <1>1, Scaling
<1>3. q + 1 <= n <=> b * (q + 1) <= b * n
  BY <1>1, Scaling
<1>4. b * (q + 1) = (b * q) + b
  BY <1>1
<1>5. b * n \in Int /\ b * q \in Int
  BY <1>1
<1>6. n <= q <=> b * n <= a
  BY <1>1, <1>2, <1>3, <1>4, <1>5
<1> QED
  BY <1>6 DEF q

---------------------------------------------------------------------------
(* The states of a frame.                                                  *)

FrameInv ==
  /\ ValidCamera(camera)
  /\ screen = NoScreen \/ screen \in Screens
  /\ surface = NoScreen \/ surface \in Screens
  /\ lastCamera = NoCamera \/ ValidCamera(lastCamera)
  /\ velocity.x \in Int /\ velocity.y \in Int /\ velocity.tile \in Nat \ {0}

(* A valid place projects to pixels of every zoom level.                   *)
LEMMA CenterType ==
  ASSUME NEW c, ValidPoint(c), NEW zoom \in Nat
  PROVE  Center(c, zoom).x \in Int /\ Center(c, zoom).y \in Int
<1>1. TileSize \in Nat \ {0} /\ HalfWorld \in Int /\ MaxLatitude \in Int
  BY MercatorAssumption DEF HalfWorld, MaxLatitude
<1>2. Pow2(zoom) \in Nat
  BY Powers
<1>3. c.lon \in Int /\ c.lat \in Int
  BY <1>1 DEF ValidPoint, ValidLatitude, ValidLongitude
<1>4. Clamped(c.lat, -MaxLatitude, MaxLatitude) \in Int
  BY <1>1, <1>3 DEF Clamped
<1> HIDE DEF HalfWorld, MaxLatitude, Clamped
<1>5. WorldX(c.lon, zoom) \in Int
  BY <1>1, <1>2, <1>3 DEF WorldX
<1>6. WorldY(c.lat, zoom) \in Int
  BY <1>1, <1>2, <1>4 DEF WorldY
<1> QED
  BY <1>5, <1>6 DEF Center

LEMMA CameraType ==
  ASSUME NEW c, ValidCamera(c)
  PROVE  /\ c.zoom \in Nat /\ c.scale \in Nat \ {0} /\ ValidPoint(c)
         /\ TilesAcross(c.zoom) \in Nat \ {0}
         /\ Center(c, c.zoom).x \in Int /\ Center(c, c.zoom).y \in Int
<1>1. c.zoom \in Nat /\ c.scale \in Nat \ {0} /\ ValidPoint(c)
  BY MercatorAssumption, FrameAssumption DEF ValidCamera, ValidZoom
<1>2. TilesAcross(c.zoom) \in Nat \ {0}
  BY <1>1, Powers DEF TilesAcross
<1> QED
  BY <1>1, <1>2, CenterType

LEMMA FrameInvInit ==
  ASSUME FrameInit
  PROVE  FrameInv
<1>1. HalfWorld \in Nat
  BY MercatorAssumption DEF HalfWorld
<1>2. ValidPoint(camera)
  BY <1>1 DEF FrameInit, ValidPoint, ValidLatitude, ValidLongitude, MaxLatitude
<1>3. ValidCamera(camera)
  BY <1>2, MercatorAssumption, FrameAssumption DEF FrameInit, ValidCamera, ValidZoom
<1> QED
  BY <1>3 DEF FrameInit, FrameInv

LEMMA FrameInvStep ==
  ASSUME FrameInv, [FrameNext]_frameVars
  PROVE  FrameInv'
<1>1. CASE UNCHANGED frameVars
  BY <1>1 DEF frameVars, FrameInv, ValidCamera
<1>2. ASSUME NEW c \in Cameras, NEW rate \in Rates, ApplyCamera(c, rate)
      PROVE  FrameInv'
  <2>1. CASE ~ValidCamera(c)
    BY <1>2, <2>1 DEF ApplyCamera, FrameInv, ValidCamera
  <2>2. CASE ValidCamera(c)
    <3>1. /\ camera' = c /\ lastCamera' = c
          /\ screen' = screen /\ surface' = surface
      BY <1>2, <2>2 DEF ApplyCamera
    <3>2. ValidCamera(c)'
      BY <2>2 DEF ValidCamera
    <3>3. /\ velocity'.x \in Int /\ velocity'.y \in Int
          /\ velocity'.tile \in Nat \ {0}
      <4>1. CASE lastCamera = NoCamera
        BY <1>2, <2>2, <4>1 DEF ApplyCamera, FrameInv
      <4>2. CASE lastCamera # NoCamera
        <5>1. velocity' = Velocity(lastCamera, c, rate)
          BY <1>2, <2>2, <4>2 DEF ApplyCamera
        <5>2. /\ c.zoom \in Nat
              /\ Center(c, c.zoom).x \in Int /\ Center(c, c.zoom).y \in Int
          BY <2>2, CameraType
        <5>3. ValidPoint(lastCamera)
          BY <4>2, CameraType DEF FrameInv
        <5>4. /\ Center(lastCamera, c.zoom).x \in Int
              /\ Center(lastCamera, c.zoom).y \in Int
          BY <5>2, <5>3, CenterType
        <5>5. rate \in Nat /\ TileSize \in Nat \ {0}
          BY FrameAssumption, MercatorAssumption
        <5> QED
          BY <5>1, <5>2, <5>4, <5>5 DEF Velocity
      <4> QED
        BY <4>1, <4>2
    <3> QED
      BY <3>1, <3>2, <3>3 DEF FrameInv
  <2> QED
    BY <2>1, <2>2
<1>3. ASSUME NEW s \in Screens, NEW density \in {"valid", "refused"}, Resized(s, density)
      PROVE  FrameInv'
  BY <1>3 DEF Resized, FrameInv, ValidCamera
<1>4. ASSUME Settles
      PROVE  FrameInv'
  BY <1>4 DEF Settles, FrameInv, ValidCamera
<1> QED
  BY <1>1, <1>2, <1>3, <1>4 DEF FrameNext

(* Only checked cameras, whole velocities and sizes that the surface had.  *)
THEOREM FrameIsValid == FrameSpec => []FrameInv
<1>1. FrameInit => FrameInv
  BY FrameInvInit
<1>2. FrameInv /\ [FrameNext]_frameVars => FrameInv'
  BY FrameInvStep
<1> QED
  BY <1>1, <1>2, PTL DEF FrameSpec

---------------------------------------------------------------------------
(* One row or column of the screen: its tiles and their pixels.            *)

LEMMA Units ==
  ASSUME ValidCamera(camera)
  PROVE  /\ TileSize \in Nat \ {0} /\ Parts \in Nat \ {0}
         /\ camera.scale \in Nat \ {0} /\ 2 * camera.scale \in Nat \ {0}
         /\ 2 * camera.scale * TileSize \in Nat \ {0}
         /\ \A m \in Int : 2 * camera.scale * TileSize * m
                             = 2 * camera.scale * (TileSize * m)
<1>1. TileSize \in Nat \ {0} /\ Parts \in Nat \ {0} /\ camera.scale \in Nat \ {0}
  BY CameraType, MercatorAssumption, FrameAssumption
<1>2. PICK u \in Nat \ {0} : u = 2 * camera.scale
  BY <1>1
<1>3. u * TileSize \in Nat \ {0}
  BY <1>1
<1>4. \A m \in Int : u * TileSize * m = u * (TileSize * m)
  BY <1>1
<1> QED
  BY <1>1, <1>2, <1>3, <1>4

(* Where a pixel is on the screen, from where its row starts there.        *)
LEMMA Place ==
  ASSUME ValidCamera(camera), NEW c \in Int, NEW e \in Nat, NEW p \in Int
  PROVE  /\ 2 * camera.scale * c \in Int /\ e * Parts \in Nat
         /\ OnScreen(p, c, e)
              = (2 * camera.scale * p) - (2 * camera.scale * c) + (e * Parts)
         /\ 2 * camera.scale * (p + 1) = (2 * camera.scale * p) + (2 * camera.scale)
<1>1. camera.scale \in Nat /\ Parts \in Nat
  BY Units
<1>2. PICK s \in Nat : s = camera.scale
  BY <1>1
<1>3. 2 * (p - c) * s = (2 * s * p) - (2 * s * c)
  OBVIOUS
<1>4. 2 * s * c \in Int /\ e * Parts \in Nat
  BY <1>1
<1>5. 2 * s * (p + 1) = (2 * s * p) + (2 * s)
  OBVIOUS
<1> QED
  BY <1>2, <1>3, <1>4, <1>5 DEF OnScreen

(* The tile of a pixel that the screen shows is between the first and the  *)
(* last one.                                                               *)
LEMMA TileOfPixel ==
  ASSUME ValidCamera(camera), NEW c \in Int, NEW e \in Nat, NEW p \in PixelsShown(c, e)
  PROVE  /\ p \in Int /\ p \div TileSize \in Int
         /\ FirstTile(c, e) <= p \div TileSize /\ p \div TileSize <= LastTile(c, e)
<1> DEFINE u == 2 * camera.scale
           m == u * c
           k == e * Parts
           w == u * TileSize
           t == p \div TileSize
<1>1. /\ TileSize \in Nat \ {0} /\ u \in Nat \ {0} /\ w \in Nat \ {0}
      /\ \A n \in Int : w * n = u * (TileSize * n)
  BY Units
<1>2. m \in Int /\ k \in Nat
  BY Place
<1>3. p \in Int
  <2> HIDE DEF u, m, k
  <2>1. (m - k) \div u \in Int /\ (m + k) \div u \in Int
    BY <1>1, <1>2
  <2> QED
    BY <2>1 DEF PixelsShown, u, m, k
<1>4. u * p < m + k /\ u * (p + 1) > m - k
  <2>1. OnScreen(p, c, e) < 2 * e * Parts /\ OnScreen(p + 1, c, e) > 0
    BY DEF PixelsShown
  <2>2. /\ OnScreen(p, c, e) = (u * p) - m + k
        /\ OnScreen(p + 1, c, e) = (u * (p + 1)) - m + k
    <3>1. p + 1 \in Int
      BY <1>3
    <3> HIDE DEF t, w
    <3>2. OnScreen(p, c, e) = (u * p) - m + k
      BY <1>3, Place
    <3>3. OnScreen(p + 1, c, e) = (u * (p + 1)) - m + k
      BY <3>1, Place
    <3> QED
      BY <3>2, <3>3
  <2>3. 2 * e * Parts = k + k
    BY Units
  <2>4. u * p \in Int /\ u * (p + 1) \in Int
    BY <1>1, <1>3, Scaling
  <2> HIDE DEF u, m, k
  <2> QED
    BY <1>2, <2>1, <2>2, <2>3, <2>4
<1>5. t \in Int /\ TileSize * t <= p /\ p + 1 <= TileSize * (t + 1)
  <2>1. t \in Int /\ p % TileSize \in 0..(TileSize - 1)
        /\ p = (TileSize * t) + (p % TileSize)
    BY <1>1, <1>3, Division
  <2>2. TileSize * (t + 1) = (TileSize * t) + TileSize /\ TileSize * t \in Int
    BY <1>1, <2>1
  <2> HIDE DEF t
  <2> QED
    BY <1>1, <1>3, <2>1, <2>2
<1>6. /\ FirstTile(c, e) = (m - k) \div w
      /\ LastTile(c, e) = (m + k) \div w
  BY DEF FirstTile, LastTile
<1> HIDE DEF u, m, k, w, t
<1>7. m - k \in Int /\ m + k \in Int /\ t + 1 \in Int
  BY <1>2, <1>5
<1>8. t <= (m + k) \div w
  <2>1. u * (TileSize * t) <= u * p
    BY <1>1, <1>3, <1>5, Scaling
  <2>2. w * t = u * (TileSize * t) /\ w * t \in Int /\ u * p \in Int
    BY <1>1, <1>3, <1>5, Scaling
  <2>3. w * t <= m + k
    BY <1>4, <1>7, <2>1, <2>2
  <2> QED
    BY <1>1, <1>5, <1>7, <2>3, Floor
<1>9. (m - k) \div w <= t
  <2>1. u * (p + 1) <= u * (TileSize * (t + 1))
    BY <1>1, <1>3, <1>5, Scaling
  <2>2. w * (t + 1) = u * (TileSize * (t + 1))
        /\ w * (t + 1) \in Int /\ u * (p + 1) \in Int
    BY <1>1, <1>3, <1>5, <1>7, Scaling
  <2>3. ~ (w * (t + 1) <= m - k)
    BY <1>4, <1>7, <2>1, <2>2
  <2>4. ~ (t + 1 <= (m - k) \div w)
    BY <1>1, <1>7, <2>3, Floor
  <2>5. (m - k) \div w \in Int
    BY <1>1, <1>7
  <2> QED
    BY <1>5, <2>4, <2>5
<1> QED
  BY <1>3, <1>5, <1>6, <1>8, <1>9 DEF t

(* On the screen a tile holds its own pixels and no others.                *)
Holds(n, p, c, e) ==
  /\ OnScreen(n * TileSize, c, e) <= OnScreen(p, c, e)
  /\ OnScreen(p, c, e) + 2 * camera.scale
       <= OnScreen(n * TileSize, c, e) + 2 * TileSize * camera.scale

LEMMA TileHolds ==
  ASSUME ValidCamera(camera), NEW c \in Int, NEW e \in Nat,
         NEW n \in Int, NEW p \in Int
  PROVE  Holds(n, p, c, e) <=> n = p \div TileSize
<1> DEFINE u == 2 * camera.scale
           b == n * TileSize
<1>1. /\ TileSize \in Nat \ {0} /\ u \in Nat \ {0} /\ camera.scale \in Nat
  BY Units
<1>2. b \in Int /\ b + TileSize \in Int
  BY <1>1
<1>3. /\ u * c \in Int /\ e * Parts \in Nat
      /\ OnScreen(b, c, e) = (u * b) - (u * c) + (e * Parts)
      /\ OnScreen(p, c, e) = (u * p) - (u * c) + (e * Parts)
      /\ (u * p) + u = u * (p + 1)
  <2> HIDE DEF b
  <2>1. /\ u * c \in Int /\ e * Parts \in Nat
        /\ OnScreen(b, c, e) = (u * b) - (u * c) + (e * Parts)
    BY <1>2, Place
  <2>2. OnScreen(p, c, e) = (u * p) - (u * c) + (e * Parts)
    BY Place
  <2>3. (u * p) + u = u * (p + 1)
    BY <1>1
  <2> QED
    BY <2>1, <2>2, <2>3
<1>4. (u * b) + (2 * TileSize * camera.scale) = u * (b + TileSize)
  <2>1. PICK s \in Nat : s = camera.scale
    BY <1>1
  <2>2. (2 * s * b) + (2 * TileSize * s) = 2 * s * (b + TileSize)
    BY <1>1, <1>2
  <2> QED
    BY <2>1, <2>2
<1>5. 2 * TileSize * camera.scale \in Nat
  BY <1>1
<1> HIDE DEF u, b
<1>6. u * b \in Int /\ u * p \in Int
  BY <1>1, <1>2, Scaling
<1>7. OnScreen(b, c, e) <= OnScreen(p, c, e) <=> b <= p
  <2>1. u * b <= u * p <=> b <= p
    BY <1>1, <1>2, Scaling
  <2> QED
    BY <1>3, <1>6, <2>1
<1>8. OnScreen(p, c, e) + u <= OnScreen(b, c, e) + 2 * TileSize * camera.scale
      <=> p + 1 <= b + TileSize
  <2>1. u * (p + 1) <= u * (b + TileSize) <=> p + 1 <= b + TileSize
    BY <1>1, <1>2, Scaling
  <2> QED
    BY <1>1, <1>3, <1>4, <1>5, <1>6, <2>1
<1>9. b <= p /\ p + 1 <= b + TileSize <=> n = p \div TileSize
  <2>1. b = TileSize * n
    BY <1>1 DEF b
  <2>2. CASE b <= p /\ p + 1 <= b + TileSize
    <3>1. p - b \in 0..(TileSize - 1) /\ p = (TileSize * n) + (p - b)
      BY <1>1, <1>2, <2>1, <2>2
    <3> QED
      BY <1>1, <2>2, <3>1, Quotient
  <2>3. CASE n = p \div TileSize
    <3>1. p = (TileSize * n) + (p % TileSize) /\ p % TileSize \in 0..(TileSize - 1)
      BY <1>1, <2>3, Division
    <3> QED
      BY <1>1, <1>2, <2>1, <2>3, <3>1
  <2> QED
    BY <2>2, <2>3
<1> QED
  BY <1>7, <1>8, <1>9 DEF u, b, Holds

---------------------------------------------------------------------------
(* The tiles of the screen: one for each of its columns and rows.          *)

(* The places of a grid, counted row by row.                               *)
LEMMA GridPlace ==
  ASSUME NEW a \in Nat \ {0}, NEW h \in Nat, NEW i \in 1..(a * h)
  PROVE  (i - 1) % a \in 0..(a - 1) /\ (i - 1) \div a \in 0..(h - 1)
<1>1. i - 1 \in Nat /\ a * h \in Nat /\ i - 1 < a * h
  OBVIOUS
<1>2. (i - 1) % a \in 0..(a - 1) /\ (i - 1) \div a \in Int
  BY <1>1, Division
<1>3. 0 <= (i - 1) \div a
  <2>1. a * 0 <= i - 1
    BY <1>1
  <2> QED
    BY <1>1, <2>1, Floor
<1>4. ~ (h <= (i - 1) \div a)
  BY <1>1, Floor
<1> QED
  BY <1>2, <1>3, <1>4

LEMMA GridCount ==
  ASSUME NEW a \in Nat \ {0}, NEW h \in Nat, NEW q \in 0..(h - 1), NEW r \in 0..(a - 1)
  PROVE  /\ (a * q) + r + 1 \in 1..(a * h)
         /\ (((a * q) + r + 1) - 1) % a = r /\ (((a * q) + r + 1) - 1) \div a = q
<1>1. a * q \in Nat /\ a * h \in Nat
  OBVIOUS
<1>2. a * (q + 1) <= a * h
  BY Scaling
<1>3. a * (q + 1) = (a * q) + a
  OBVIOUS
<1>4. (a * q) + r + 1 \in 1..(a * h)
  BY <1>1, <1>2, <1>3
<1>5. ((a * q) + r + 1) - 1 = (a * q) + r /\ (a * q) + r \in Int
  BY <1>1
<1>6. ((a * q) + r) \div a = q /\ ((a * q) + r) % a = r
  BY <1>5, Quotient
<1> QED
  BY <1>4, <1>5, <1>6

VisibleColumns ==
  LET c == Center(camera, camera.zoom) IN
  FirstTile(c.x, screen.width)..LastTile(c.x, screen.width)

VisibleRows ==
  LET c == Center(camera, camera.zoom) IN
  (FirstTile(c.y, screen.height)..LastTile(c.y, screen.height))
    \cap 0..(TilesAcross(camera.zoom) - 1)

LEMMA TileRange ==
  ASSUME ValidCamera(camera), NEW c \in Int, NEW e \in Nat
  PROVE  /\ FirstTile(c, e) \in Int /\ LastTile(c, e) \in Int
         /\ FirstTile(c, e) <= LastTile(c, e)
<1> DEFINE m == 2 * camera.scale * c
           k == e * Parts
           w == 2 * camera.scale * TileSize
<1>1. w \in Nat \ {0}
  BY Units
<1>2. m \in Int /\ k \in Nat
  BY Place
<1>3. FirstTile(c, e) = (m - k) \div w /\ LastTile(c, e) = (m + k) \div w
  BY DEF FirstTile, LastTile
<1> HIDE DEF m, k, w
<1>4. (m - k) \div w \in Int /\ (m + k) \div w \in Int
  BY <1>1, <1>2
<1>5. w * ((m - k) \div w) <= m - k
  BY <1>1, <1>2, <1>4, Floor
<1>6. w * ((m - k) \div w) <= m + k
  BY <1>1, <1>2, <1>4, <1>5
<1>7. (m - k) \div w <= (m + k) \div w
  BY <1>1, <1>2, <1>4, <1>6, Floor
<1> QED
  BY <1>3, <1>4, <1>7

LEMMA ScreenType ==
  ASSUME FrameInv, screen # NoScreen
  PROVE  /\ ValidCamera(camera) /\ screen \in Screens
         /\ screen.width \in Nat \ {0} /\ screen.height \in Nat \ {0}
BY FrameAssumption DEF FrameInv

(* The rows are a range of the world's, and counted from the first.        *)
LEMMA RowsAreRange ==
  ASSUME FrameInv, screen # NoScreen
  PROVE  /\ VisibleRows \subseteq 0..(TilesAcross(camera.zoom) - 1)
         /\ IsFiniteSet(VisibleRows) /\ Cardinality(VisibleRows) \in Nat
         /\ VisibleRows # {} =>
              /\ Min(VisibleRows) \in Nat
              /\ VisibleRows = Min(VisibleRows)
                                 ..(Min(VisibleRows) + Cardinality(VisibleRows) - 1)
<1> DEFINE n == TilesAcross(camera.zoom)
           f == FirstTile(Center(camera, camera.zoom).y, screen.height)
           l == LastTile(Center(camera, camera.zoom).y, screen.height)
           lo == IF f < 0 THEN 0 ELSE f
           hi == IF l > n - 1 THEN n - 1 ELSE l
<1>1. n \in Nat \ {0} /\ f \in Int /\ l \in Int
  BY ScreenType, CameraType, TileRange
<1>2. VisibleRows = (f..l) \cap (0..(n - 1))
  BY DEF VisibleRows
<1> HIDE DEF n, f, l
<1>3. VisibleRows = lo..hi /\ lo \in Nat /\ hi \in Int
  BY <1>1, <1>2
<1>4. /\ IsFiniteSet(lo..hi)
      /\ Cardinality(lo..hi) = IF lo <= hi THEN hi - lo + 1 ELSE 0
  <2>1. IsFiniteSet(lo..hi) /\ Cardinality(lo..hi) = IF lo > hi THEN 0 ELSE hi - lo + 1
    <3> HIDE DEF lo, hi
    <3> QED
      BY <1>3, FS_Interval
  <2> QED
    BY <1>3, <2>1
<1>5. VisibleRows \subseteq 0..(n - 1)
  BY <1>2
<1>6. ASSUME VisibleRows # {}
      PROVE  Min(VisibleRows) = lo /\ Cardinality(VisibleRows) = hi - lo + 1
  <2> HIDE DEF lo, hi
  <2>1. lo <= hi
    BY <1>3, <1>6
  <2>2. Min(lo..hi) = lo
    <3>1. lo \in lo..hi /\ \A y \in lo..hi : lo <= y
      BY <1>3, <2>1
    <3>2. \A x \in lo..hi : (\A y \in lo..hi : x <= y) => x = lo
      BY <1>3, <3>1
    <3> QED
      BY <3>1, <3>2 DEF Min
  <2> QED
    BY <1>3, <1>4, <2>1, <2>2
<1> HIDE DEF lo, hi
<1>7. Cardinality(VisibleRows) \in Nat
  BY <1>3, <1>4
<1>8. ASSUME VisibleRows # {}
      PROVE  /\ Min(VisibleRows) \in Nat
             /\ VisibleRows = Min(VisibleRows)
                                ..(Min(VisibleRows) + Cardinality(VisibleRows) - 1)
  <2>1. lo + (hi - lo + 1) - 1 = hi
    BY <1>3
  <2> QED
    BY <1>3, <1>6, <1>8, <2>1
<1> QED
  BY <1>3, <1>4, <1>5, <1>7, <1>8 DEF n

LEMMA VisiblePlaces ==
  ASSUME FrameInv, screen # NoScreen
  PROVE  \E at \in [DOMAIN VisibleTiles -> VisibleColumns \X VisibleRows] :
           /\ \A i \in DOMAIN VisibleTiles :
                VisibleTiles[i] = VisibleTile(at[i][1], at[i][2])
           /\ \A i, j \in DOMAIN VisibleTiles : at[i] = at[j] => i = j
           /\ \A x \in VisibleColumns, y \in VisibleRows :
                \E i \in DOMAIN VisibleTiles : at[i] = <<x, y>>
<1> DEFINE cx == Center(camera, camera.zoom).x
           west == FirstTile(cx, screen.width)
           east == LastTile(cx, screen.width)
           across == east - west + 1
           north == Min(VisibleRows)
           high == Cardinality(VisibleRows)
           column(i) == west + ((i - 1) % across)
           row(i) == north + ((i - 1) \div across)
           at == [i \in 1..(across * high) |-> <<column(i), row(i)>>]
<1>1. VisibleTiles = [i \in 1..(across * high) |-> VisibleTile(column(i), row(i))]
  BY DEF VisibleTiles, VisibleRows
<1>2. VisibleColumns = west..east
  BY DEF VisibleColumns
<1>3. west \in Int /\ east \in Int /\ west <= east
  BY ScreenType, CameraType, TileRange
<1>4. /\ high \in Nat
      /\ VisibleRows # {} => north \in Nat /\ VisibleRows = north..(north + high - 1)
      /\ VisibleRows = {} => high = 0
  BY RowsAreRange, FS_EmptySet
<1> HIDE DEF west, east, north, high
<1>5. across \in Nat \ {0}
  BY <1>3
<1> HIDE DEF across
<1>6. across * high \in Nat
  BY <1>4, <1>5
<1>7. ASSUME NEW i \in 1..(across * high)
      PROVE  column(i) \in VisibleColumns /\ row(i) \in VisibleRows
  <2>1. (i - 1) % across \in 0..(across - 1) /\ (i - 1) \div across \in 0..(high - 1)
    BY <1>4, <1>5, GridPlace
  <2>2. column(i) \in VisibleColumns
    BY <1>2, <1>3, <2>1 DEF across
  <2>3. high # 0
    BY <1>4, <2>1
  <2>4. row(i) \in VisibleRows
    BY <1>4, <2>1, <2>3
  <2> QED
    BY <2>2, <2>4
<1>8. ASSUME NEW x \in VisibleColumns, NEW y \in VisibleRows
      PROVE  \E i \in 1..(across * high) : column(i) = x /\ row(i) = y
  <2> DEFINE q == y - north
             r == x - west
             i == (across * q) + r + 1
  <2>1. north \in Nat /\ q \in 0..(high - 1)
    BY <1>4
  <2>2. r \in 0..(across - 1)
    BY <1>2, <1>3 DEF across
  <2> HIDE DEF q, r
  <2>3. /\ i \in 1..(across * high)
        /\ (i - 1) % across = r /\ (i - 1) \div across = q
    BY <1>4, <1>5, <2>1, <2>2, GridCount
  <2> HIDE DEF i
  <2>4. column(i) = x /\ row(i) = y
    BY <1>2, <1>3, <1>4, <2>1, <2>3 DEF q, r
  <2> QED
    BY <2>3, <2>4
<1>9. ASSUME NEW i \in 1..(across * high), NEW j \in 1..(across * high),
             column(i) = column(j), row(i) = row(j)
      PROVE  i = j
  <2>1. /\ (i - 1) % across \in Int /\ (j - 1) % across \in Int
        /\ (i - 1) \div across \in Int /\ (j - 1) \div across \in Int
        /\ i - 1 = (across * ((i - 1) \div across)) + ((i - 1) % across)
        /\ j - 1 = (across * ((j - 1) \div across)) + ((j - 1) % across)
    <3>1. \A k \in Int : /\ k % across \in Int /\ k \div across \in Int
                          /\ k = (across * (k \div across)) + (k % across)
      BY <1>5
    <3>2. i - 1 \in Int /\ j - 1 \in Int
      BY <1>6
    <3> QED
      BY <3>1, <3>2
  <2>2. high # 0
    BY <1>5, <1>6
  <2>3. north \in Nat
    BY <1>4, <2>2
  <2>4. /\ (i - 1) % across = (j - 1) % across
        /\ (i - 1) \div across = (j - 1) \div across
    BY <1>3, <1>9, <2>1, <2>3
  <2> QED
    BY <1>6, <2>1, <2>4
<1>10. DOMAIN VisibleTiles = 1..(across * high)
  BY <1>1
<1>11. at \in [1..(across * high) -> VisibleColumns \X VisibleRows]
  BY <1>7
<1>12. \A i \in 1..(across * high) : at[i][1] = column(i) /\ at[i][2] = row(i)
  OBVIOUS
<1>13. \A i \in 1..(across * high) : VisibleTiles[i] = VisibleTile(at[i][1], at[i][2])
  BY <1>1
<1>14. \A i, j \in 1..(across * high) : at[i] = at[j] => i = j
  <2> SUFFICES ASSUME NEW i \in 1..(across * high), NEW j \in 1..(across * high),
                      at[i] = at[j]
               PROVE  i = j
    OBVIOUS
  <2>1. column(i) = column(j) /\ row(i) = row(j)
    BY <1>12
  <2> QED
    BY <1>9, <2>1
<1>15. \A x \in VisibleColumns, y \in VisibleRows :
         \E i \in 1..(across * high) : at[i] = <<x, y>>
  BY <1>8
<1> HIDE DEF at
<1>16. at \in [DOMAIN VisibleTiles -> VisibleColumns \X VisibleRows]
  BY <1>10, <1>11
<1> WITNESS at \in [DOMAIN VisibleTiles -> VisibleColumns \X VisibleRows]
<1> QED
  BY <1>10, <1>13, <1>14, <1>15

(* The column of a pixel's tile wraps around the world with the pixel.     *)
LEMMA WrappedPixel ==
  ASSUME NEW n \in Nat \ {0}, NEW t \in Nat \ {0}, NEW x \in Int
  PROVE  (x % (n * t)) \div t = (x \div t) % n
<1> DEFINE q == x \div t
           r == x % t
           k == q \div n
           m == q % n
<1>1. q \in Int /\ r \in 0..(t - 1) /\ x = (t * q) + r
  BY Division
<1> HIDE DEF q, r
<1>2. k \in Int /\ m \in 0..(n - 1) /\ q = (n * k) + m
  BY <1>1, Division
<1> HIDE DEF k, m
<1>3. n * t \in Nat \ {0} /\ t * m \in Nat /\ t * (m + 1) = (t * m) + t
  BY <1>2
<1>4. (t * m) + r \in 0..((n * t) - 1)
  <2>1. t * (m + 1) <= t * n
    BY <1>2, Scaling
  <2>2. t * n = n * t
    OBVIOUS
  <2> QED
    BY <1>1, <1>3, <2>1, <2>2
<1>5. x = ((n * t) * k) + ((t * m) + r)
  <2>1. t * ((n * k) + m) = ((n * t) * k) + (t * m)
    BY <1>2
  <2>2. (n * t) * k \in Int
    BY <1>2
  <2> QED
    BY <1>1, <1>2, <1>3, <2>1, <2>2
<1>6. x % (n * t) = (t * m) + r
  <2>1. PICK b \in Nat \ {0} : b = n * t
    BY <1>3
  <2>2. PICK s \in Int : s = (t * m) + r
    BY <1>4
  <2>3. x = (b * k) + s /\ s \in 0..(b - 1)
    BY <1>4, <1>5, <2>1, <2>2
  <2>4. x % b = s
    BY <1>2, <2>3, Quotient
  <2> QED
    BY <2>1, <2>2, <2>4
<1>7. ((t * m) + r) \div t = m
  <2>1. (t * m) + r \in Int
    BY <1>4
  <2> QED
    BY <1>1, <1>2, <2>1, Quotient
<1> QED
  BY <1>6, <1>7 DEF q, m

LEMMA TileInWorld ==
  ASSUME NEW n \in Nat \ {0}, NEW t \in Nat \ {0}, NEW y \in 0..((n * t) - 1)
  PROVE  y \div t \in 0..(n - 1)
<1>1. y \in Nat /\ y \div t \in Int
  BY Division
<1>2. 0 <= y \div t
  <2>1. t * 0 <= y
    BY <1>1
  <2> QED
    BY <1>1, <2>1, Floor
<1>3. ~ (n <= y \div t)
  <2>1. n * t \in Nat /\ n * t = t * n
    OBVIOUS
  <2>2. ~ (t * n <= y)
    BY <1>1, <2>1
  <2> QED
    BY <1>1, <2>2, Floor
<1> QED
  BY <1>1, <1>2, <1>3

(* What is shown of the world is shown by one tile, the right one.         *)
LEMMA InvCovers ==
  ASSUME FrameInv
  PROVE  ViewCovered
<1> DEFINE c == Center(camera, camera.zoom)
           n == TilesAcross(camera.zoom)
           pixel == 2 * camera.scale
           holds(start, size, at) == start <= at /\ at + pixel <= start + size
           showing(x, y) == {i \in DOMAIN VisibleTiles :
             /\ holds(VisibleTiles[i].x, VisibleTiles[i].size, OnScreen(x, c.x, screen.width))
             /\ holds(VisibleTiles[i].y, VisibleTiles[i].size, OnScreen(y, c.y, screen.height))}
           right(x, y) == [z |-> camera.zoom, x |-> (x % WorldSize) \div TileSize,
                           y |-> y \div TileSize]
<1>1. SUFFICES ASSUME screen # NoScreen,
                      NEW x \in PixelsShown(c.x, screen.width),
                      NEW y \in PixelsShown(c.y, screen.height) \cap 0..(WorldSize - 1)
               PROVE  /\ Cardinality(showing(x, y)) = 1
                      /\ \A i \in showing(x, y) : VisibleTiles[i].id = right(x, y)
  BY DEF ViewCovered
<1> DEFINE tx == x \div TileSize
           ty == y \div TileSize
<1>2. /\ ValidCamera(camera) /\ screen.width \in Nat /\ screen.height \in Nat
      /\ c.x \in Int /\ c.y \in Int /\ n \in Nat \ {0}
      /\ TileSize \in Nat \ {0} /\ WorldSize = n * TileSize
  BY <1>1, ScreenType, CameraType, Units DEF WorldSize
<1>3. /\ x \in Int /\ tx \in VisibleColumns
      /\ y \in Int /\ ty \in Int
      /\ ty \in FirstTile(c.y, screen.height)..LastTile(c.y, screen.height)
  <2>1. /\ x \in Int /\ tx \in Int
        /\ FirstTile(c.x, screen.width) <= tx /\ tx <= LastTile(c.x, screen.width)
    BY <1>2, TileOfPixel
  <2>2. /\ y \in Int /\ ty \in Int
        /\ FirstTile(c.y, screen.height) <= ty /\ ty <= LastTile(c.y, screen.height)
    BY <1>2, TileOfPixel
  <2>3. /\ FirstTile(c.x, screen.width) \in Int /\ LastTile(c.x, screen.width) \in Int
        /\ FirstTile(c.y, screen.height) \in Int /\ LastTile(c.y, screen.height) \in Int
    BY <1>2, TileRange
  <2> HIDE DEF c, tx, ty
  <2> QED
    BY <2>1, <2>2, <2>3 DEF VisibleColumns, c
<1>4. ty \in VisibleRows
  <2>1. y \in 0..((n * TileSize) - 1)
    BY <1>2
  <2> HIDE DEF n
  <2>4. ty \in 0..(n - 1)
    BY <1>2, <2>1, TileInWorld
  <2> HIDE DEF ty
  <2> QED
    BY <1>3, <2>4 DEF VisibleRows, n
<1>5. PICK at \in [DOMAIN VisibleTiles -> VisibleColumns \X VisibleRows] :
        /\ \A i \in DOMAIN VisibleTiles :
             VisibleTiles[i] = VisibleTile(at[i][1], at[i][2])
        /\ \A i, j \in DOMAIN VisibleTiles : at[i] = at[j] => i = j
        /\ \A a \in VisibleColumns, b \in VisibleRows :
             \E i \in DOMAIN VisibleTiles : at[i] = <<a, b>>
  BY <1>1, VisiblePlaces
<1>0. /\ \A k \in Int : Holds(k, x, c.x, screen.width) <=> k = tx
      /\ \A k \in Int : Holds(k, y, c.y, screen.height) <=> k = ty
  <2>1. \A m \in Int, e \in Nat, k \in Int, p \in Int :
          Holds(k, p, m, e) <=> k = p \div TileSize
    BY <1>2, TileHolds
  <2>2. c.x \in Int /\ c.y \in Int /\ screen.width \in Nat /\ screen.height \in Nat
    BY <1>2
  <2>3. x \in Int /\ y \in Int
    BY <1>3
  <2> HIDE DEF c, showing, right
  <2>4. \A k \in Int : Holds(k, x, c.x, screen.width) <=> k = x \div TileSize
    <3>1. PICK m \in Int, e \in Nat : m = c.x /\ e = screen.width
      BY <2>2
    <3>2. \A k \in Int : Holds(k, x, m, e) <=> k = x \div TileSize
      BY ONLY <2>1, <2>3, <3>1, Zenon
    <3> QED
      BY ONLY <3>1, <3>2, Zenon
  <2>5. \A k \in Int : Holds(k, y, c.y, screen.height) <=> k = y \div TileSize
    <3>1. PICK m \in Int, e \in Nat : m = c.y /\ e = screen.height
      BY <2>2
    <3>2. \A k \in Int : Holds(k, y, m, e) <=> k = y \div TileSize
      BY ONLY <2>1, <2>3, <3>1, Zenon
    <3> QED
      BY ONLY <3>1, <3>2, Zenon
  <2> QED
    BY <2>4, <2>5
<1>6. ASSUME NEW i \in DOMAIN VisibleTiles
      PROVE  i \in showing(x, y) <=> at[i] = <<tx, ty>>
  <2> DEFINE a == at[i][1]
             b == at[i][2]
             tile == VisibleTile(a, b)
  <2>1. a \in Int /\ b \in Int /\ at[i] = <<a, b>>
    BY DEF VisibleColumns, VisibleRows
  <2>2. VisibleTiles[i] = tile
    BY <1>5
  <2>3. /\ tile.x = OnScreen(a * TileSize, c.x, screen.width)
        /\ tile.y = OnScreen(b * TileSize, c.y, screen.height)
        /\ tile.size = 2 * TileSize * camera.scale
    BY DEF VisibleTile
  <2> HIDE DEF a, b, tile, c, tx, ty
  <2>4. holds(tile.x, tile.size, OnScreen(x, c.x, screen.width)) <=> a = tx
    BY <1>0, <2>1, <2>3 DEF Holds
  <2>5. holds(tile.y, tile.size, OnScreen(y, c.y, screen.height)) <=> b = ty
    BY <1>0, <2>1, <2>3 DEF Holds
  <2>6. i \in showing(x, y) <=> a = tx /\ b = ty
    <3> HIDE DEF holds
    <3> QED
      BY <2>2, <2>4, <2>5
  <2> QED
    BY <2>1, <2>6
<1> HIDE DEF showing
<1>7. PICK i \in DOMAIN VisibleTiles : at[i] = <<tx, ty>>
  BY <1>3, <1>4, <1>5
<1>8. showing(x, y) = {i}
  <2>1. showing(x, y) \subseteq DOMAIN VisibleTiles
    BY DEF showing
  <2> HIDE DEF tx, ty
  <2> QED
    BY <1>5, <1>6, <1>7, <2>1
<1>9. Cardinality(showing(x, y)) = 1
  BY <1>8, FS_Singleton
<1>10. VisibleTiles[i].id = right(x, y)
  <2>1. VisibleTiles[i] = VisibleTile(tx, ty)
    BY <1>5, <1>7
  <2>2. VisibleTile(tx, ty).id = [z |-> camera.zoom, x |-> tx % n, y |-> ty]
    BY DEF VisibleTile
  <2>3. (x % (n * TileSize)) \div TileSize = tx % n
    BY <1>2, <1>3, WrappedPixel
  <2> QED
    BY <1>2, <2>1, <2>2, <2>3
<1> QED
  BY <1>8, <1>9, <1>10

(* The screen is covered: every pixel of the map that it shows is shown by *)
(* one tile of visible_tiles, wrapped to the world's id of that place.     *)
THEOREM ViewIsCovered == FrameSpec => []ViewCovered
<1>1. FrameInv => ViewCovered
  BY InvCovers
<1> QED
  BY <1>1, FrameIsValid, PTL

---------------------------------------------------------------------------
(* The textures that a tile may be drawn from.                             *)

(* What doubling a divisor does to a quotient and its remainder.           *)
LEMMA Halving ==
  ASSUME NEW a \in Nat, NEW d \in Nat \ {0}
  PROVE  /\ a \div (2 * d) = (a \div d) \div 2
         /\ a % (2 * d) = (a % d) + (((a \div d) % 2) * d)
<1> DEFINE q == a \div d
           r == a % d
           h == q \div 2
           b == q % 2
<1>1. q \in Int /\ r \in 0..(d - 1) /\ a = (d * q) + r
  BY Division
<1> HIDE DEF q, r
<1>2. h \in Int /\ b \in 0..1 /\ q = (2 * h) + b
  BY <1>1
<1> HIDE DEF h, b
<1>3. a = ((2 * d) * h) + (r + (b * d))
  <2>1. d * ((2 * h) + b) = ((2 * d) * h) + (b * d)
    BY <1>2
  <2>2. (2 * d) * h \in Int /\ b * d \in Nat
    BY <1>2
  <2> QED
    BY <1>1, <1>2, <2>1, <2>2
<1>4. r + (b * d) \in 0..((2 * d) - 1)
  <2>1. b = 0 \/ b = 1
    BY <1>2
  <2> QED
    BY <1>1, <2>1
<1>5. PICK e \in Nat \ {0} : e = 2 * d
  OBVIOUS
<1>6. PICK s \in Int : s = r + (b * d)
  BY <1>4
<1>7. a \div e = h /\ a % e = s
  <2>1. a = (e * h) + s /\ s \in 0..(e - 1) /\ a \in Int
    BY <1>3, <1>4, <1>5, <1>6
  <2> QED
    BY <1>2, <2>1, Quotient
<1> QED
  BY <1>5, <1>6, <1>7 DEF h, b, q, r

(* The k-th ancestor of a tile, and the place of the tile in its texture.  *)
AncestorAt(id, k) ==
  [tile |-> [z |-> id.z - k, x |-> id.x \div Pow2(k), y |-> id.y \div Pow2(k)],
   divisor |-> Pow2(k), x |-> id.x % Pow2(k), y |-> id.y % Pow2(k)]

LEMMA AncestorsAre ==
  ASSUME NEW id \in [z : Nat, x : Nat, y : Nat]
  PROVE  /\ DOMAIN Ancestors(id) = 0..id.z
         /\ \A k \in 0..id.z : Ancestors(id)[k] = AncestorAt(id, k)
<1> DEFINE first == [tile |-> id, divisor |-> 1, x |-> 0, y |-> 0]
           IsUp(g) == g = [k \in 0..id.z |-> IF k = 0 THEN first ELSE Parent(g[k - 1])]
           up == [k \in 0..id.z |-> AncestorAt(id, k)]
<1>1. id.z \in Nat /\ id.x \in Nat /\ id.y \in Nat
  OBVIOUS
<1>2. AncestorAt(id, 0) = first
  <2>1. Pow2(0) = 1
    BY Powers
  <2>2. /\ id.z - 0 = id.z
        /\ id.x \div 1 = id.x /\ id.y \div 1 = id.y
        /\ id.x % 1 = 0 /\ id.y % 1 = 0
    BY <1>1
  <2>3. id = [z |-> id.z, x |-> id.x, y |-> id.y]
    OBVIOUS
  <2> QED
    BY <2>1, <2>2, <2>3 DEF AncestorAt
<1>3. ASSUME NEW k \in Nat
      PROVE  AncestorAt(id, k + 1) = Parent(AncestorAt(id, k))
  <2> DEFINE d == Pow2(k)
  <2>1. d \in Nat \ {0} /\ Pow2(k + 1) = 2 * d
    BY Powers
  <2> HIDE DEF d
  <2>2. /\ id.x \div (2 * d) = (id.x \div d) \div 2
        /\ id.x % (2 * d) = (id.x % d) + (((id.x \div d) % 2) * d)
    BY <1>1, <2>1, Halving
  <2>3. /\ id.y \div (2 * d) = (id.y \div d) \div 2
        /\ id.y % (2 * d) = (id.y % d) + (((id.y \div d) % 2) * d)
    BY <1>1, <2>1, Halving
  <2>4. id.z - (k + 1) = (id.z - k) - 1
    BY <1>1
  <2>5. Parent(AncestorAt(id, k)) =
          [tile |-> [z |-> (id.z - k) - 1, x |-> (id.x \div d) \div 2,
                     y |-> (id.y \div d) \div 2],
           divisor |-> 2 * d,
           x |-> (id.x % d) + (((id.x \div d) % 2) * d),
           y |-> (id.y % d) + (((id.y \div d) % 2) * d)]
    BY DEF Parent, AncestorAt, d
  <2>6. AncestorAt(id, k + 1) =
          [tile |-> [z |-> id.z - (k + 1), x |-> id.x \div (2 * d), y |-> id.y \div (2 * d)],
           divisor |-> 2 * d, x |-> id.x % (2 * d), y |-> id.y % (2 * d)]
    BY <2>1 DEF AncestorAt
  <2> QED
    BY <2>2, <2>3, <2>4, <2>5, <2>6
<1> HIDE DEF first
<1>4. IsUp(up)
  <2>1. ASSUME NEW k \in 0..id.z, k # 0
        PROVE  up[k] = Parent(up[k - 1])
    <3>1. k - 1 \in Nat /\ k - 1 \in 0..id.z /\ (k - 1) + 1 = k
      BY <1>1, <2>1
    <3>2. AncestorAt(id, (k - 1) + 1) = Parent(AncestorAt(id, k - 1))
      BY <1>3, <3>1
    <3> QED
      BY <3>1, <3>2
  <2>2. up[0] = first
    BY <1>1, <1>2
  <2>3. \A k \in 0..id.z : up[k] = IF k = 0 THEN first ELSE Parent(up[k - 1])
    BY <2>1, <2>2
  <2>4. up = [k \in 0..id.z |-> up[k]]
    OBVIOUS
  <2> HIDE DEF up
  <2> QED
    BY <2>3, <2>4
<1>5. Ancestors(id) = CHOOSE g : IsUp(g)
  BY DEF Ancestors, first
<1>6. PICK g : g = Ancestors(id)
  OBVIOUS
<1>7. IsUp(g)
  <2> HIDE DEF IsUp
  <2> QED
    BY <1>4, <1>5, <1>6
<1>8. \A k \in 0..id.z : g[k] = IF k = 0 THEN first ELSE Parent(g[k - 1])
  BY <1>7
<1>9. \A k \in Nat : k <= id.z => g[k] = AncestorAt(id, k)
  <2> DEFINE S == {k \in Nat : k <= id.z => g[k] = AncestorAt(id, k)}
  <2>1. 0 \in S
    BY <1>1, <1>2, <1>8
  <2>2. ASSUME NEW k \in Nat, k \in S
        PROVE  k + 1 \in S
    <3> SUFFICES ASSUME k + 1 <= id.z PROVE g[k + 1] = AncestorAt(id, k + 1)
      OBVIOUS
    <3>1. k + 1 \in 0..id.z /\ k + 1 # 0 /\ (k + 1) - 1 = k /\ k <= id.z
      BY <1>1
    <3>2. g[k + 1] = Parent(g[k])
      BY <1>8, <3>1
    <3> QED
      BY <1>3, <2>2, <3>1, <3>2
  <2>3. \A k \in Nat : k \in S
    <3> HIDE DEF S
    <3> QED
      BY <2>1, <2>2, NaturalsBelong
  <2> QED
    BY <2>3
<1>10. DOMAIN g = 0..id.z
  BY <1>7
<1> QED
  BY <1>1, <1>6, <1>9, <1>10

(* Whatever is uploaded of the textures that show the tile's place, the    *)
(* most detailed one is drawn, and nothing only when there is none.        *)
LEMMA ResolvesToNearest ==
  ASSUME NEW id \in [z : Nat, x : Nat, y : Nat], NEW uploaded,
         uploaded \subseteq UNION {TilesOf(z) : z \in 0..id.z},
         \A t \in uploaded : Covers(t, id)
  PROVE  /\ ResolveTileDraw(uploaded, id) = {} => uploaded = {}
         /\ \A d \in ResolveTileDraw(uploaded, id) :
              /\ \E k \in 0..id.z : d = AncestorAt(id, k)
              /\ d.tile \in uploaded
              /\ \A t \in uploaded : t.z <= d.tile.z
<1> DEFINE up == Ancestors(id)
           found == {k \in 0..id.z : up[k].tile \in uploaded}
<1>1. id.z \in Nat
  OBVIOUS
<1>2. \A k \in 0..id.z : up[k] = AncestorAt(id, k)
  BY AncestorsAre
<1>3. ResolveTileDraw(uploaded, id)
        = {up[k] : k \in {k \in found : \A other \in found : k <= other}}
  BY DEF ResolveTileDraw
<1> HIDE DEF up
<1>4. ASSUME NEW t \in uploaded
      PROVE  t.z \in 0..id.z /\ id.z - t.z \in found
  <2>1. PICK z \in 0..id.z : t \in TilesOf(z)
    OBVIOUS
  <2>2. t = [z |-> z, x |-> t.x, y |-> t.y] /\ t.z = z
    BY <2>1 DEF TilesOf
  <2>3. /\ t.x = id.x \div Pow2(id.z - z)
        /\ t.y = id.y \div Pow2(id.z - z)
    BY <2>2 DEF Covers, TilesAcross
  <2>4. id.z - z \in 0..id.z /\ id.z - (id.z - z) = z
    BY <1>1
  <2>5. up[id.z - z].tile = t
    <3>1. up[id.z - z] = AncestorAt(id, id.z - z)
      BY <1>2, <2>4
    <3>2. AncestorAt(id, id.z - z).tile
            = [z |-> id.z - (id.z - z), x |-> id.x \div Pow2(id.z - z),
               y |-> id.y \div Pow2(id.z - z)]
      BY DEF AncestorAt
    <3>3. AncestorAt(id, id.z - z).tile = [z |-> z, x |-> t.x, y |-> t.y]
      BY <2>3, <2>4, <3>2
    <3> QED
      BY <2>2, <3>1, <3>3
  <2> QED
    BY <2>2, <2>4, <2>5
<1>5. \A k \in found : k \in 0..id.z /\ k \in Nat /\ up[k].tile \in uploaded
  BY <1>1
<1> HIDE DEF found
<1>6. ASSUME uploaded # {}
      PROVE  ResolveTileDraw(uploaded, id) # {}
  <2>1. found # {} /\ found \subseteq Nat
    BY <1>4, <1>5, <1>6
  <2>2. PICK k \in found : \A other \in found : k <= other
    BY <2>1, HasSmallest
  <2> QED
    BY <1>3, <2>2
<1>7. ASSUME NEW d \in ResolveTileDraw(uploaded, id)
      PROVE  /\ \E k \in 0..id.z : d = AncestorAt(id, k)
             /\ d.tile \in uploaded
             /\ \A t \in uploaded : t.z <= d.tile.z
  <2>1. PICK k \in found : d = up[k] /\ \A other \in found : k <= other
    BY <1>3
  <2>2. d = AncestorAt(id, k) /\ k \in 0..id.z /\ d.tile \in uploaded
    BY <1>2, <1>5, <2>1
  <2>3. d.tile.z = id.z - k
    BY <2>2 DEF AncestorAt
  <2>4. \A t \in uploaded : t.z <= d.tile.z
    <3> SUFFICES ASSUME NEW t \in uploaded PROVE t.z <= d.tile.z
      OBVIOUS
    <3>1. t.z \in 0..id.z /\ k <= id.z - t.z
      BY <1>4, <2>1
    <3> QED
      BY <1>1, <2>2, <2>3, <3>1
  <2> QED
    BY <2>2, <2>4
<1> QED
  BY <1>6, <1>7

---------------------------------------------------------------------------
(* The quad of a draw.                                                     *)

(* A corner of the quad is a corner of the texture.                        *)
LEMMA QuadCorners ==
  ASSUME NEW tile, NEW d, tile.x \in Int, tile.y \in Int, tile.size \in Int,
         d.x \in Int, d.y \in Int, surface.width * Parts \in Int,
         surface.height * Parts \in Int,
         NEW i \in DOMAIN TileVertices(tile, d)
  PROVE  \E a, b \in {0, 1} :
           TileVertices(tile, d)[i] =
             [x |-> (tile.x - (surface.width * Parts)) + (a * tile.size),
              y |-> ((surface.height * Parts) - tile.y) - (b * tile.size),
              u |-> d.x + a, v |-> d.y + b]
<1> DEFINE left == tile.x - surface.width * Parts
           top == surface.height * Parts - tile.y
           right == left + tile.size
           bottom == top - tile.size
           vertex(x, y, u, v) == [x |-> x, y |-> y, u |-> u, v |-> v]
           corner(a, b) ==
             [x |-> left + (a * tile.size), y |-> top - (b * tile.size),
              u |-> d.x + a, v |-> d.y + b]
<1>1. TileVertices(tile, d) =
        << vertex(left, bottom, d.x, d.y + 1), vertex(right, bottom, d.x + 1, d.y + 1),
           vertex(right, top, d.x + 1, d.y), vertex(left, bottom, d.x, d.y + 1),
           vertex(right, top, d.x + 1, d.y), vertex(left, top, d.x, d.y) >>
  BY DEF TileVertices
<1>2. left \in Int /\ top \in Int
  OBVIOUS
<1> HIDE DEF left, top
<1>3. /\ left + (0 * tile.size) = left /\ left + (1 * tile.size) = right
      /\ top - (0 * tile.size) = top /\ top - (1 * tile.size) = bottom
      /\ d.x + 0 = d.x /\ d.y + 0 = d.y
  BY <1>2
<1> HIDE DEF right, bottom
<1>4. /\ corner(0, 0) = vertex(left, top, d.x, d.y)
      /\ corner(1, 0) = vertex(right, top, d.x + 1, d.y)
      /\ corner(0, 1) = vertex(left, bottom, d.x, d.y + 1)
      /\ corner(1, 1) = vertex(right, bottom, d.x + 1, d.y + 1)
  BY <1>3
<1> HIDE DEF vertex, corner
<1>5. TileVertices(tile, d) = << corner(0, 1), corner(1, 1), corner(1, 0),
                                 corner(0, 1), corner(1, 0), corner(0, 0) >>
  BY <1>1, <1>4
<1>6. i \in 1..6
  BY <1>5
<1>7. \E a, b \in {0, 1} : TileVertices(tile, d)[i] = corner(a, b)
  BY <1>5, <1>6
<1> QED
  BY <1>7 DEF corner, left, top

(* An ancestor's place and the tile's place in it give the tile's place.   *)
AtPlace(d, x, y) ==
  /\ d.x \in Int /\ d.y \in Int
  /\ \A a \in Int : d.tile.x * d.divisor + (d.x + a) = x + a
  /\ \A b \in Int : d.tile.y * d.divisor + (d.y + b) = y + b

LEMMA AncestorPlace ==
  ASSUME NEW id \in [z : Nat, x : Nat, y : Nat], NEW k \in Nat
  PROVE  AtPlace(AncestorAt(id, k), id.x, id.y)
<1> DEFINE p == Pow2(k)
<1>1. p \in Nat \ {0} /\ id.x \in Int /\ id.y \in Int
  BY Powers
<1> HIDE DEF p
<1>0. \A a \in Int : /\ a \div p \in Int /\ a % p \in Int
                     /\ a = (p * (a \div p)) + (a % p)
  BY <1>1
<1>2. /\ id.x \div p \in Int /\ id.x % p \in Int
      /\ id.x = (p * (id.x \div p)) + (id.x % p)
  BY <1>0, <1>1
<1>3. /\ id.y \div p \in Int /\ id.y % p \in Int
      /\ id.y = (p * (id.y \div p)) + (id.y % p)
  BY <1>0, <1>1
<1>4. \A a \in Int : (id.x \div p) * p + ((id.x % p) + a) = id.x + a
  BY <1>1, <1>2
<1>5. \A b \in Int : (id.y \div p) * p + ((id.y % p) + b) = id.y + b
  BY <1>1, <1>3
<1>6. /\ AncestorAt(id, k).tile.x = id.x \div p
      /\ AncestorAt(id, k).tile.y = id.y \div p
      /\ AncestorAt(id, k).divisor = p
      /\ AncestorAt(id, k).x = id.x % p
      /\ AncestorAt(id, k).y = id.y % p
  BY DEF AncestorAt, p
<1> QED
  BY <1>2, <1>3, <1>4, <1>5, <1>6 DEF AtPlace

(* A visible tile has an id of the world.                                  *)
LEMMA VisibleTileType ==
  ASSUME FrameInv, screen # NoScreen, NEW x \in Int,
         NEW y \in 0..(TilesAcross(camera.zoom) - 1)
  PROVE  /\ VisibleTile(x, y).id \in [z : Nat, x : Nat, y : Nat]
         /\ VisibleTile(x, y).id.z = camera.zoom
         /\ VisibleTile(x, y).id.x = x % TilesAcross(camera.zoom)
         /\ VisibleTile(x, y).id.y = y
         /\ VisibleTile(x, y).x
              = OnScreen(x * TileSize, Center(camera, camera.zoom).x, screen.width)
         /\ VisibleTile(x, y).y
              = OnScreen(y * TileSize, Center(camera, camera.zoom).y, screen.height)
         /\ VisibleTile(x, y).size = 2 * TileSize * camera.scale
<1>1. TilesAcross(camera.zoom) \in Nat \ {0} /\ camera.zoom \in Nat
  BY ScreenType, CameraType
<1>2. x % TilesAcross(camera.zoom) \in Nat /\ y \in Nat
  <2>1. PICK n \in Nat \ {0} : n = TilesAcross(camera.zoom)
    BY <1>1
  <2> QED
    BY <2>1
<1> QED
  BY <1>1, <1>2 DEF VisibleTile

(* Where the edges of a tile are, from the middle of the screen.           *)
EdgeAt(start, size, c, e, n, a) ==
  /\ start \in Int /\ size \in Int /\ e * Parts \in Int
  /\ (2 * camera.scale * c) + ((start - (e * Parts)) + (a * size))
       = 2 * camera.scale * TileSize * (n + a)
  /\ (2 * camera.scale * c) - (((e * Parts) - start) - (a * size))
       = 2 * camera.scale * TileSize * (n + a)

LEMMA TileEdges ==
  ASSUME ValidCamera(camera), NEW c \in Int, NEW e \in Nat, NEW n \in Int,
         NEW a \in {0, 1}
  PROVE  EdgeAt(OnScreen(n * TileSize, c, e), 2 * TileSize * camera.scale, c, e, n, a)
<1> DEFINE u == 2 * camera.scale
           w == u * TileSize
           k == e * Parts
           start == OnScreen(n * TileSize, c, e)
           size == 2 * TileSize * camera.scale
<1>1. /\ TileSize \in Nat \ {0} /\ camera.scale \in Nat \ {0} /\ u \in Nat
      /\ w \in Nat /\ \A m \in Int : w * m = u * (TileSize * m)
  BY Units
<1>2. size = w /\ n * TileSize \in Int /\ n * TileSize = TileSize * n
  <2>1. PICK s \in Nat : s = camera.scale
    BY <1>1
  <2>2. 2 * TileSize * s = 2 * s * TileSize
    BY <1>1
  <2> QED
    BY <1>1, <2>1, <2>2
<1>3. u * c \in Int /\ k \in Nat /\ start = (u * (n * TileSize)) - (u * c) + k
  BY <1>2, Place
<1>4. u * (n * TileSize) = w * n /\ w * n \in Int
  BY <1>1, <1>2
<1> HIDE DEF u, w, k, start, size
<1>5. w * (n + a) = (w * n) + (a * w) /\ a * w \in Int
  <2>1. a \in Int
    OBVIOUS
  <2> QED
    BY <1>1, <2>1
<1>6. /\ start \in Int /\ size \in Int /\ k \in Int
      /\ (u * c) + ((start - k) + (a * size)) = w * (n + a)
      /\ (u * c) - ((k - start) - (a * size)) = w * (n + a)
  <2>1. PICK b \in Int : b = u * c
    BY <1>3
  <2>2. PICK o \in Int : o = w * n
    BY <1>4
  <2>3. PICK t \in Int : t = a * w
    BY <1>5
  <2>4. start = o - b + k /\ a * size = t /\ w * (n + a) = o + t
    BY <1>2, <1>3, <1>4, <1>5, <2>1, <2>2, <2>3
  <2> QED
    BY <1>1, <1>2, <1>3, <2>1, <2>4
<1> QED
  BY <1>6 DEF u, w, k, start, size, EdgeAt

LEMMA QuadInPlace ==
  ASSUME FrameInv, screen # NoScreen, surface = screen, NEW x \in Int,
         NEW y \in 0..(TilesAcross(camera.zoom) - 1), NEW k \in 0..camera.zoom
  PROVE  InPlace(VisibleTile(x, y), AncestorAt(VisibleTile(x, y).id, k))
<1> DEFINE tile == VisibleTile(x, y)
           d == AncestorAt(tile.id, k)
           n == TilesAcross(camera.zoom)
           u == 2 * camera.scale
           w == u * TileSize
           c == Center(camera, camera.zoom)
           cx == c.x
           cy == c.y
           W == screen.width
           H == screen.height
           q == x \div n
<1>1. /\ ValidCamera(camera) /\ W \in Nat /\ H \in Nat
      /\ n \in Nat \ {0} /\ cx \in Int /\ cy \in Int
  BY ScreenType, CameraType
<1>2. /\ u \in Nat \ {0} /\ w \in Nat \ {0} /\ TileSize \in Nat \ {0}
  BY <1>1, Units
<1>3. /\ tile.id \in [z : Nat, x : Nat, y : Nat] /\ tile.id.z = camera.zoom
      /\ tile.id.x = x % n /\ tile.id.y = y
      /\ tile.x = OnScreen(x * TileSize, cx, W)
      /\ tile.y = OnScreen(y * TileSize, cy, H)
      /\ tile.size = 2 * TileSize * camera.scale
  BY VisibleTileType
<1>4. q \in Int /\ x % n \in Int /\ x = (n * q) + (x % n)
  <2> HIDE DEF n
  <2> QED
    BY <1>1
<1>5. /\ d.x \in Int /\ d.y \in Int
      /\ \A a \in Int : d.tile.x * d.divisor + (d.x + a) = (x % n) + a
      /\ \A b \in Int : d.tile.y * d.divisor + (d.y + b) = y + b
  <2>1. k \in Nat
    OBVIOUS
  <2>2. PICK id \in [z : Nat, x : Nat, y : Nat] : id = tile.id
    BY <1>3
  <2>3. d = AncestorAt(id, k) /\ id.x = x % n /\ id.y = y
    BY <1>3, <2>2
  <2> HIDE DEF tile, d, n
  <2>4. AtPlace(AncestorAt(id, k), id.x, id.y)
    BY <2>1, AncestorPlace
  <2>5. AtPlace(d, x % n, y)
    BY <2>3, <2>4
  <2> QED
    BY <2>5 DEF AtPlace
<1> HIDE DEF d, tile
<1>6. ASSUME NEW a \in {0, 1}
      PROVE  /\ tile.x \in Int /\ tile.size \in Int /\ W * Parts \in Int
             /\ (u * cx) + ((tile.x - (W * Parts)) + (a * tile.size)) = w * (x + a)
  <2>1. EdgeAt(OnScreen(x * TileSize, cx, W), 2 * TileSize * camera.scale, cx, W, x, a)
    <3> HIDE DEF cx, W
    <3> QED
      BY <1>1, TileEdges
  <2>2. EdgeAt(tile.x, tile.size, cx, W, x, a)
    BY <1>3, <2>1
  <2> QED
    BY <2>2 DEF EdgeAt
<1>7. ASSUME NEW b \in {0, 1}
      PROVE  /\ tile.y \in Int /\ H * Parts \in Int
             /\ (u * cy) - (((H * Parts) - tile.y) - (b * tile.size)) = w * (y + b)
  <2>1. EdgeAt(OnScreen(y * TileSize, cy, H), 2 * TileSize * camera.scale, cy, H, y, b)
    <3>1. y \in Int
      OBVIOUS
    <3> HIDE DEF cy, H
    <3> QED
      BY <1>1, <3>1, TileEdges
  <2>2. EdgeAt(tile.y, tile.size, cy, H, y, b)
    BY <1>3, <2>1
  <2> QED
    BY <2>2 DEF EdgeAt
<1>8. u * WorldSize = w * n
  <2>1. u * (n * TileSize) = u * TileSize * n
    BY <1>1, <1>2
  <2> QED
    BY <2>1 DEF WorldSize
<1>9. \A a \in Int : w * (x + a) - w * ((x % n) + a) = (w * n) * q
  <2> SUFFICES ASSUME NEW a \in Int
               PROVE  w * (x + a) - w * ((x % n) + a) = (w * n) * q
    OBVIOUS
  <2> HIDE DEF w, n, q
  <2>1. PICK r \in Int : r = x % n
    BY <1>4
  <2>2. w * (((n * q) + r) + a) - w * (r + a) = (w * n) * q
    BY <1>1, <1>2, <1>4
  <2> QED
    BY <1>4, <2>1, <2>2
<1>10. ((w * n) * q) % (w * n) = 0
  <2> HIDE DEF w, n, q
  <2>1. w * n \in Nat \ {0}
    BY <1>1, <1>2
  <2>2. PICK m \in Nat \ {0} : m = w * n
    BY <2>1
  <2>3. m * q \in Int /\ 0 \in 0..(m - 1) /\ m * q = (m * q) + 0
    BY <1>4
  <2>4. (m * q) % m = 0
    BY <1>4, <2>3, Quotient
  <2> QED
    BY <2>2, <2>4
<1> DEFINE corners == TileVertices(tile, d)
           place(v) ==
             /\ (u * cx + v.x - w * (d.tile.x * d.divisor + v.u)) % (u * WorldSize) = 0
             /\ u * cy - v.y = w * (d.tile.y * d.divisor + v.v)
<1>11. ASSUME NEW i \in DOMAIN corners
       PROVE  place(corners[i])
  <2>1. PICK a, b \in {0, 1} :
          corners[i] =
             [x |-> (tile.x - (W * Parts)) + (a * tile.size),
              y |-> ((H * Parts) - tile.y) - (b * tile.size),
              u |-> d.x + a, v |-> d.y + b]
    <3>1. /\ tile.x \in Int /\ tile.y \in Int /\ tile.size \in Int
          /\ surface.width * Parts \in Int /\ surface.height * Parts \in Int
      BY <1>6, <1>7
    <3> QED
      BY <1>5, <3>1, QuadCorners
  <2> HIDE DEF corners, u, w, cx, cy, W, H, n, q
  <2>2. PICK v : v = corners[i]
    OBVIOUS
  <2>3. /\ v.x = (tile.x - (W * Parts)) + (a * tile.size)
        /\ v.y = ((H * Parts) - tile.y) - (b * tile.size)
        /\ v.u = d.x + a /\ v.v = d.y + b
    BY <2>1, <2>2
  <2>4. /\ d.tile.x * d.divisor + v.u = (x % n) + a
        /\ d.tile.y * d.divisor + v.v = y + b
    BY <1>5, <2>3
  <2>5. u * cx + v.x = w * (x + a) /\ u * cy - v.y = w * (y + b)
    BY <1>6, <1>7, <2>3
  <2>6. u * cx + v.x - w * (d.tile.x * d.divisor + v.u) = (w * n) * q
    <3>1. a \in Int
      OBVIOUS
    <3>2. w * (x + a) - w * ((x % n) + a) = (w * n) * q
      BY <1>9, <3>1
    <3>3. PICK p : p = d.tile.x * d.divisor + v.u
      OBVIOUS
    <3>4. PICK o : o = u * cx + v.x
      OBVIOUS
    <3>5. p = (x % n) + a /\ o = w * (x + a)
      BY <2>4, <2>5, <3>3, <3>4
    <3>6. o - w * p = (w * n) * q
      BY <3>2, <3>5
    <3>7. v.x \in Int /\ u * cx \in Int /\ w * p \in Int
      BY <1>1, <1>2, <1>4, <1>6, <2>3, <3>1, <3>5
    <3>8. u * cx + (v.x - w * p) = o - w * p
      BY <3>4, <3>7
    <3> QED
      BY <3>3, <3>6, <3>8
  <2>7. place(v)
    BY <1>8, <1>10, <2>4, <2>5, <2>6
  <2> QED
    BY <2>2, <2>7
<1> QED
  BY <1>11 DEF InPlace, d, tile

LEMMA InvDraws ==
  ASSUME FrameInv
  PROVE  DrawnInPlace
<1> DEFINE showing(id) == {t \in UNION {TilesOf(z) : z \in 0..id.z} : Covers(t, id)}
<1>1. SUFFICES ASSUME screen # NoScreen, surface = screen,
                      NEW i \in DOMAIN VisibleTiles,
                      NEW uploaded \in SUBSET showing(VisibleTiles[i].id)
               PROVE  LET draws == ResolveTileDraw(uploaded, VisibleTiles[i].id) IN
                      /\ draws = {} => uploaded = {}
                      /\ \A d \in draws :
                           /\ d.tile \in uploaded
                           /\ \A t \in uploaded : t.z <= d.tile.z
                           /\ InPlace(VisibleTiles[i], d)
  BY DEF DrawnInPlace
<1>2. PICK x \in Int, y \in 0..(TilesAcross(camera.zoom) - 1) :
        VisibleTiles[i] = VisibleTile(x, y)
  <2>1. PICK at \in [DOMAIN VisibleTiles -> VisibleColumns \X VisibleRows] :
          \A j \in DOMAIN VisibleTiles : VisibleTiles[j] = VisibleTile(at[j][1], at[j][2])
    BY <1>1, VisiblePlaces
  <2>2. at[i][1] \in VisibleColumns /\ at[i][2] \in VisibleRows
    OBVIOUS
  <2>3. at[i][1] \in Int /\ at[i][2] \in 0..(TilesAcross(camera.zoom) - 1)
    BY <2>2 DEF VisibleColumns, VisibleRows
  <2> QED
    BY <2>1, <2>3
<1>3. PICK id \in [z : Nat, x : Nat, y : Nat] :
        id = VisibleTiles[i].id /\ id.z = camera.zoom
  BY <1>1, <1>2, VisibleTileType
<1>4. /\ uploaded \subseteq UNION {TilesOf(z) : z \in 0..id.z}
      /\ \A t \in uploaded : Covers(t, id)
  BY <1>3
<1>5. /\ ResolveTileDraw(uploaded, id) = {} => uploaded = {}
      /\ \A d \in ResolveTileDraw(uploaded, id) :
           /\ \E k \in 0..id.z : d = AncestorAt(id, k)
           /\ d.tile \in uploaded
           /\ \A t \in uploaded : t.z <= d.tile.z
  BY <1>4, ResolvesToNearest
<1>6. ASSUME NEW d \in ResolveTileDraw(uploaded, id)
      PROVE  InPlace(VisibleTiles[i], d)
  <2>1. PICK k \in 0..camera.zoom : d = AncestorAt(id, k)
    BY <1>3, <1>5
  <2>2. id = VisibleTile(x, y).id
    BY <1>2, <1>3
  <2>3. InPlace(VisibleTile(x, y), AncestorAt(VisibleTile(x, y).id, k))
    BY <1>1, QuadInPlace
  <2> QED
    BY <1>2, <2>1, <2>2, <2>3
<1> QED
  BY <1>3, <1>5, <1>6

(* Whatever has been uploaded, resolve_tile_draw takes the most detailed   *)
(* texture that shows the tile's place, and tile_vertices puts each corner *)
(* of its quad on the pixel of the screen that shows that corner.          *)
THEOREM TilesDrawnInPlace == FrameSpec => []DrawnInPlace
<1>1. FrameInv => DrawnInPlace
  BY InvDraws
<1> QED
  BY <1>1, FrameIsValid, PTL

---------------------------------------------------------------------------
(* How far apart tiles are, when the columns go around the world.          *)

Shorter(way, n) == IF way < n - way THEN way ELSE n - way

LEMMA LargestOf ==
  ASSUME NEW S, NEW b \in S, S \subseteq Int, \A c \in S : c <= b
  PROVE  Max(S) = b
<1>1. \A x \in S : (\A y \in S : x >= y) => x = b
  <2> SUFFICES ASSUME NEW x \in S, \A y \in S : x >= y PROVE x = b
    OBVIOUS
  <2>1. x >= b /\ x <= b /\ x \in Int /\ b \in Int
    OBVIOUS
  <2> QED
    BY <2>1
<1>2. \A y \in S : b >= y
  <2> SUFFICES ASSUME NEW y \in S PROVE b >= y
    OBVIOUS
  <2>1. y <= b /\ y \in Int /\ b \in Int
    OBVIOUS
  <2> QED
    BY <2>1
<1> QED
  BY <1>1, <1>2 DEF Max

LEMMA SmallestOf ==
  ASSUME NEW S, NEW b \in S, S \subseteq Int, \A c \in S : b <= c
  PROVE  Min(S) = b
<1>1. \A x \in S : (\A y \in S : x <= y) => x = b
  <2> SUFFICES ASSUME NEW x \in S, \A y \in S : x <= y PROVE x = b
    OBVIOUS
  <2>1. x <= b /\ b <= x /\ x \in Int /\ b \in Int
    OBVIOUS
  <2> QED
    BY <2>1
<1> QED
  BY <1>1 DEF Min

LEMMA LargerOf ==
  ASSUME NEW p \in Int, NEW q \in Int, NEW n \in Int
  PROVE  Max({p, q}) <= n <=> p <= n /\ q <= n
<1>1. CASE q <= p
  <2>1. Max({p, q}) = p
    BY <1>1, LargestOf
  <2> QED
    BY <1>1, <2>1
<1>2. CASE p < q
  <2>1. Max({p, q}) = q
    BY <1>2, LargestOf
  <2> QED
    BY <1>2, <2>1
<1> QED
  BY <1>1, <1>2

(* Tiles are within n of each other when their columns and rows are.       *)
LEMMA DistanceWithin ==
  ASSUME FrameInv, NEW a \in [z : Nat, x : Nat, y : Nat],
         NEW b \in [z : Nat, x : Nat, y : Nat], NEW n \in Nat
  PROVE  Distance(a, b) <= n <=>
           /\ Shorter((a.x - b.x) % TilesAcross(camera.zoom),
                      TilesAcross(camera.zoom)) <= n
           /\ a.y - b.y <= n /\ b.y - a.y <= n
<1> DEFINE across == TilesAcross(camera.zoom)
           p == Shorter((a.x - b.x) % across, across)
           q == IF a.y < b.y THEN b.y - a.y ELSE a.y - b.y
<1>1. across \in Nat \ {0}
  BY CameraType DEF FrameInv
<1>2. Distance(a, b) = Max({p, q})
  BY DEF Distance, Shorter
<1>3. a.x \in Int /\ b.x \in Int /\ a.y \in Int /\ b.y \in Int
  OBVIOUS
<1>4. p \in Int /\ q \in Int
  <2> HIDE DEF across
  <2>1. (a.x - b.x) % across \in Int
    BY <1>1, <1>3
  <2> QED
    BY <1>1, <1>3, <2>1 DEF Shorter
<1>5. q <= n <=> a.y - b.y <= n /\ b.y - a.y <= n
  BY <1>3
<1> HIDE DEF p, q
<1>6. Max({p, q}) <= n <=> p <= n /\ q <= n
  BY <1>4, LargerOf
<1> QED
  BY <1>2, <1>5, <1>6 DEF p

(* A step of d columns goes no further than d.                             *)
LEMMA StepWithin ==
  ASSUME NEW n \in Nat \ {0}, NEW v \in 0..(n - 1), NEW d \in Int, NEW r \in Nat,
         -r <= d, d <= r
  PROVE  Shorter((((v + d) % n) - v) % n, n) <= r
<1> DEFINE k == (v + d) \div n
           t == (v + d) % n
           h == (t - v) \div n
           way == (t - v) % n
<1>1. k \in Int /\ t \in 0..(n - 1) /\ v + d = (n * k) + t
  BY Division
<1> HIDE DEF k, t
<1>2. h \in Int /\ way \in 0..(n - 1) /\ t - v = (n * h) + way
  <2>1. PICK e \in Int : e = t - v
    BY <1>1
  <2>2. e \div n \in Int /\ e % n \in 0..(n - 1) /\ e = (n * (e \div n)) + (e % n)
    BY Division
  <2> QED
    BY <2>1, <2>2
<1> HIDE DEF h, way
<1>3. PICK m \in Int : m = k + h
  BY <1>1, <1>2
<1>4. d = (n * m) + way
  <2>1. n * m = (n * k) + (n * h) /\ n * k \in Int /\ n * h \in Int
    BY <1>1, <1>2, <1>3
  <2> QED
    BY <1>1, <1>2, <2>1
<1>5. CASE m >= 0
  <2>1. n * m \in Nat
    BY <1>5
  <2>2. way <= r
    BY <1>2, <1>4, <2>1
  <2> QED
    BY <1>2, <2>2 DEF Shorter, way, t
<1>6. CASE m < 0
  <2>1. n * m <= n * (-1)
    BY <1>6, Scaling
  <2>2. n * m \in Int /\ n * (-1) = -n
    OBVIOUS
  <2>3. n - way <= r
    BY <1>2, <1>4, <2>1, <2>2
  <2> QED
    BY <1>2, <2>3 DEF Shorter, way, t
<1> QED
  BY <1>3, <1>5, <1>6

(* A column that is no further than one is a neighbour.                    *)
LEMMA NeighbourColumn ==
  ASSUME NEW n \in Nat \ {0}, NEW v \in 0..(n - 1), NEW t \in 0..(n - 1),
         Shorter((t - v) % n, n) <= 1
  PROVE  \E d \in -1..1 : (v + d) % n = t
<1> DEFINE h == (t - v) \div n
           way == (t - v) % n
<1>1. h \in Int /\ way \in 0..(n - 1) /\ t - v = (n * h) + way
  <2>1. PICK e \in Int : e = t - v
    OBVIOUS
  <2>2. e \div n \in Int /\ e % n \in 0..(n - 1) /\ e = (n * (e \div n)) + (e % n)
    BY Division
  <2> QED
    BY <2>1, <2>2
<1>2. Shorter(way, n) <= 1
  OBVIOUS
<1> HIDE DEF h, way
<1>3. way \in 0..1 \/ way = n - 1
  BY <1>1, <1>2 DEF Shorter
<1>4. CASE way \in 0..1
  <2>1. v + way = (n * (-h)) + t
    BY <1>1
  <2>2. (v + way) % n = t
    BY <1>1, <1>4, <2>1, Quotient
  <2> QED
    BY <1>4, <2>2
<1>5. CASE way = n - 1
  <2>1. n * (-h - 1) = ((-(n * h)) - n) /\ n * h \in Int
    BY <1>1
  <2>2. v + (-1) = (n * (-h - 1)) + t
    BY <1>1, <1>5, <2>1
  <2>3. v + (-1) \in Int /\ -h - 1 \in Int
    BY <1>1
  <2>4. (v + (-1)) % n = t
    BY <2>2, <2>3, Quotient
  <2> QED
    BY <2>4
<1> QED
  BY <1>3, <1>4, <1>5

---------------------------------------------------------------------------
(* The plan of a view that does not cross the antimeridian.                *)

TileAt(x, y) == [z |-> camera.zoom, x |-> x, y |-> y]

LEMMA ViewOfPlan ==
  ASSUME FrameInv, screen # NoScreen, ~CrossesView
  PROVE  /\ TilesAcross(camera.zoom) \in Nat \ {0} /\ camera.zoom \in Nat
         /\ VisibleColumns \subseteq 0..(TilesAcross(camera.zoom) - 1)
         /\ VisibleRows \subseteq 0..(TilesAcross(camera.zoom) - 1)
         /\ VisibleIds = {TileAt(p[1], p[2]) : p \in VisibleColumns \X VisibleRows}
         /\ VisibleTiles # <<>> <=> VisibleRows # {}
<1> DEFINE n == TilesAcross(camera.zoom)
           cx == Center(camera, camera.zoom).x
           west == FirstTile(cx, screen.width)
           east == LastTile(cx, screen.width)
<1>1. n \in Nat \ {0} /\ camera.zoom \in Nat /\ west \in Int /\ east \in Int
  BY ScreenType, CameraType, TileRange
<1>2. VisibleColumns = west..east /\ west >= 0 /\ east < n
  <2>1. ~ (west < 0) /\ ~ (east >= n)
    BY DEF CrossesView
  <2>2. VisibleColumns = west..east
    BY DEF VisibleColumns
  <2> HIDE DEF n, west, east
  <2> QED
    BY <1>1, <2>1, <2>2
<1>3. VisibleRows \subseteq 0..(n - 1)
  BY DEF VisibleRows
<1> HIDE DEF west, east
<1>4. VisibleColumns \subseteq 0..(n - 1)
  <2> HIDE DEF n
  <2> QED
    BY <1>1, <1>2
<1>5. west <= east
  BY ScreenType, CameraType, TileRange DEF west, east
<1>6. PICK at \in [DOMAIN VisibleTiles -> VisibleColumns \X VisibleRows] :
        /\ \A i \in DOMAIN VisibleTiles :
             VisibleTiles[i] = VisibleTile(at[i][1], at[i][2])
        /\ \A x \in VisibleColumns, y \in VisibleRows :
             \E i \in DOMAIN VisibleTiles : at[i] = <<x, y>>
  BY VisiblePlaces
<1>7. ASSUME NEW x \in VisibleColumns, NEW y \in VisibleRows
      PROVE  VisibleTile(x, y).id = TileAt(x, y)
  <2>1. VisibleTile(x, y).id = [z |-> camera.zoom, x |-> x % n, y |-> y]
    BY DEF VisibleTile
  <2> HIDE DEF n
  <2>2. x \in 0..(n - 1) /\ x = (n * 0) + x
    BY <1>1, <1>4
  <2>3. x % n = x
    BY <1>1, <2>2, Quotient
  <2> QED
    BY <2>1, <2>3 DEF TileAt
<1>8. VisibleIds = {VisibleTiles[i].id : i \in DOMAIN VisibleTiles}
  BY DEF VisibleIds
<1>9. \A i \in DOMAIN VisibleTiles :
        \E p \in VisibleColumns \X VisibleRows : VisibleTiles[i].id = TileAt(p[1], p[2])
  <2> SUFFICES ASSUME NEW i \in DOMAIN VisibleTiles
               PROVE  \E p \in VisibleColumns \X VisibleRows :
                        VisibleTiles[i].id = TileAt(p[1], p[2])
    OBVIOUS
  <2>1. at[i][1] \in VisibleColumns /\ at[i][2] \in VisibleRows
    BY <1>6
  <2>2. VisibleTiles[i].id = TileAt(at[i][1], at[i][2])
    BY <1>6, <1>7, <2>1
  <2> QED
    BY <1>6, <2>2
<1>10. \A p \in VisibleColumns \X VisibleRows :
         \E i \in DOMAIN VisibleTiles : VisibleTiles[i].id = TileAt(p[1], p[2])
  <2> SUFFICES ASSUME NEW p \in VisibleColumns \X VisibleRows
               PROVE  \E i \in DOMAIN VisibleTiles : VisibleTiles[i].id = TileAt(p[1], p[2])
    OBVIOUS
  <2>1. p[1] \in VisibleColumns /\ p[2] \in VisibleRows
    OBVIOUS
  <2>2. PICK i \in DOMAIN VisibleTiles : at[i] = <<p[1], p[2]>>
    BY <1>6, <2>1
  <2>3. VisibleTiles[i] = VisibleTile(p[1], p[2])
    BY <1>6, <2>2
  <2> QED
    BY <1>7, <2>1, <2>3
<1>11. VisibleIds = {TileAt(p[1], p[2]) : p \in VisibleColumns \X VisibleRows}
  BY <1>8, <1>9, <1>10
<1>12. ASSUME VisibleRows # {}
       PROVE  VisibleTiles # <<>>
  <2>1. west \in VisibleColumns
    BY <1>1, <1>2, <1>5
  <2>2. DOMAIN VisibleTiles # {}
    BY <1>6, <1>12, <2>1
  <2> QED
    BY <2>2
<1>13. ASSUME VisibleRows = {}
       PROVE  VisibleTiles = <<>>
  <2>1. DOMAIN VisibleTiles = {}
    BY <1>6, <1>13
  <2>2. VisibleTiles = [i \in DOMAIN VisibleTiles |-> VisibleTiles[i]]
    BY DEF VisibleTiles
  <2>3. \A f : f = [i \in {} |-> f[i]] => f = <<>>
    OBVIOUS
  <2> HIDE DEF VisibleTiles
  <2> QED
    BY <2>1, <2>2, <2>3
<1> QED
  BY <1>1, <1>3, <1>4, <1>11, <1>12, <1>13

(* What the plan starts from are the columns and rows of the view.         *)
LEMMA PlanStart ==
  ASSUME FrameInv, screen # NoScreen, ~CrossesView, VisibleRows # {}
  PROVE  /\ Columns = VisibleColumns /\ Rows = VisibleRows
         /\ Min(Columns) \in Int /\ Max(Columns) \in Int
         /\ Min(Columns) <= Max(Columns)
         /\ Columns = Min(Columns)..Max(Columns)
         /\ Min(Rows) \in Int /\ Max(Rows) \in Int
         /\ Min(Rows) <= Max(Rows)
         /\ Rows = Min(Rows)..Max(Rows)
<1> DEFINE cx == Center(camera, camera.zoom).x
           west == FirstTile(cx, screen.width)
           east == LastTile(cx, screen.width)
           north == Min(VisibleRows)
           south == Min(VisibleRows) + Cardinality(VisibleRows) - 1
<1>1. VisibleColumns = west..east /\ west \in Int /\ east \in Int /\ west <= east
  BY ScreenType, CameraType, TileRange DEF VisibleColumns
<1>2. VisibleRows = north..south /\ north \in Int /\ south \in Int
  BY RowsAreRange
<1> HIDE DEF west, east, north, south
<1>3. north <= south
  BY <1>2
<1>4. VisibleIds = {TileAt(p[1], p[2]) : p \in VisibleColumns \X VisibleRows}
  BY ViewOfPlan
<1>5. ASSUME NEW x \in VisibleColumns, NEW y \in VisibleRows
      PROVE  TileAt(x, y) \in VisibleIds
  <2>1. <<x, y>> \in VisibleColumns \X VisibleRows
    OBVIOUS
  <2>2. <<x, y>>[1] = x /\ <<x, y>>[2] = y
    OBVIOUS
  <2>3. \A p \in VisibleColumns \X VisibleRows : TileAt(p[1], p[2]) \in VisibleIds
    BY <1>4
  <2>4. TileAt(<<x, y>>[1], <<x, y>>[2]) \in VisibleIds
    BY <2>1, <2>3
  <2> QED
    BY <2>2, <2>4
<1>6. \A id \in VisibleIds : id.x \in VisibleColumns /\ id.y \in VisibleRows
  BY <1>4 DEF TileAt
<1>7. \A x, y : TileAt(x, y).x = x /\ TileAt(x, y).y = y
  BY DEF TileAt
<1>8. VisibleColumns # {}
  BY <1>1
<1>9. Columns = VisibleColumns
  BY <1>5, <1>6, <1>7 DEF Columns
<1>10. Rows = VisibleRows
  BY <1>5, <1>6, <1>7, <1>8 DEF Rows
<1>11. \A a, b \in Int : a <= b => Min(a..b) = a /\ Max(a..b) = b
  <2> SUFFICES ASSUME NEW a \in Int, NEW b \in Int, a <= b
               PROVE  Min(a..b) = a /\ Max(a..b) = b
    OBVIOUS
  <2>1. a..b \subseteq Int /\ a \in a..b /\ b \in a..b
        /\ \A c \in a..b : a <= c /\ c <= b
    OBVIOUS
  <2>2. Min(a..b) = a
    BY <2>1, SmallestOf
  <2>3. Max(a..b) = b
    BY <2>1, LargestOf
  <2> QED
    BY <2>2, <2>3
<1>12. Min(Columns) = west /\ Max(Columns) = east
  BY <1>1, <1>9, <1>11
<1>13. Min(Rows) = north /\ Max(Rows) = south
  BY <1>2, <1>3, <1>10, <1>11
<1> QED
  BY <1>1, <1>2, <1>3, <1>9, <1>10, <1>12, <1>13

(* The tiles within n of a visible one.                                    *)
Near(n) ==
  {t \in TilesOf(camera.zoom) : \E v \in VisibleIds : Distance(t, v) <= n}

Within(d, n) == -n <= d /\ d <= n

LEMMA StepIsNear ==
  ASSUME FrameInv, screen # NoScreen, ~CrossesView, NEW r \in Nat,
         NEW x \in VisibleColumns, NEW y \in VisibleRows,
         NEW dx \in Int, NEW dy \in Int, Within(dx, r), Within(dy, r),
         InWorld(y + dy)
  PROVE  Wrapped(x + dx, y + dy) \in Near(r)
<1> DEFINE n == TilesAcross(camera.zoom)
           t == Wrapped(x + dx, y + dy)
           v == TileAt(x, y)
           c == (x + dx) % n
<1>1. /\ n \in Nat \ {0} /\ camera.zoom \in Nat
      /\ x \in 0..(n - 1) /\ y \in 0..(n - 1)
  BY ViewOfPlan
<1>2. v \in VisibleIds
  <2>1. VisibleIds = {TileAt(p[1], p[2]) : p \in VisibleColumns \X VisibleRows}
    BY ViewOfPlan
  <2>2. <<x, y>> \in VisibleColumns \X VisibleRows
    OBVIOUS
  <2>3. \A p \in VisibleColumns \X VisibleRows : TileAt(p[1], p[2]) \in VisibleIds
    BY <2>1
  <2>4. TileAt(<<x, y>>[1], <<x, y>>[2]) \in VisibleIds
    BY <2>2, <2>3
  <2> QED
    BY <2>4
<1>3. y + dy \in 0..(n - 1)
  BY DEF InWorld
<1>4. c \in 0..(n - 1)
  <2> HIDE DEF n
  <2>1. PICK e \in Int : e = x + dx
    BY <1>1
  <2>2. e % n \in 0..(n - 1)
    BY <1>1, <2>1, Division
  <2> QED
    BY <2>1, <2>2
<1>5. /\ t = [z |-> camera.zoom, x |-> c, y |-> y + dy]
      /\ v = [z |-> camera.zoom, x |-> x, y |-> y]
  BY DEF Wrapped, TileAt
<1>6. /\ t \in TilesOf(camera.zoom)
      /\ t \in [z : Nat, x : Nat, y : Nat] /\ v \in [z : Nat, x : Nat, y : Nat]
      /\ t.x = c /\ t.y = y + dy /\ v.x = x /\ v.y = y
  <2> HIDE DEF n, t, v, c
  <2> QED
    BY <1>1, <1>3, <1>4, <1>5 DEF TilesOf, n
<1>7. Shorter((c - x) % n, n) <= r
  <2> HIDE DEF n
  <2> QED
    BY <1>1, StepWithin DEF Within
<1> HIDE DEF t, v, c
<1>8. /\ t.y - v.y <= r /\ v.y - t.y <= r
  BY <1>1, <1>6 DEF Within
<1>9. Distance(t, v) <= r
  BY <1>6, <1>7, <1>8, DistanceWithin
<1> QED
  BY <1>2, <1>6, <1>9 DEF Near, t

(* What is in a ring is as near as the ring, and on its edge.              *)
LEMMA RingMembers ==
  ASSUME NEW n, NEW west, NEW east, NEW north, NEW south,
         west = Min(Columns) - n, east = Max(Columns) + n,
         north = Min(Rows) - n, south = Max(Rows) + n
  PROVE  /\ \A t \in Ring(n) : \E x \in west..east, y \in north..south :
              t = Wrapped(x, y) /\ InWorld(y)
         /\ \A x \in west..east, y \in north..south :
              InWorld(y) /\ (x \in {west, east} \/ y \in {north, south})
                => Wrapped(x, y) \in Ring(n)
<1> DEFINE P == {q \in (west..east) \X (north..south) :
                   /\ InWorld(q[2])
                   /\ (q[1] \in {west, east} \/ q[2] \in {north, south})}
<1>1. Ring(n) = {Wrapped(p[1], p[2]) : p \in P}
  BY DEF Ring
<1>2. ASSUME NEW t \in Ring(n)
      PROVE  \E x \in west..east, y \in north..south : t = Wrapped(x, y) /\ InWorld(y)
  <2>1. PICK p \in P : t = Wrapped(p[1], p[2])
    BY <1>1
  <2>2. p[1] \in west..east /\ p[2] \in north..south /\ InWorld(p[2])
    OBVIOUS
  <2> QED
    BY <2>1, <2>2
<1>3. ASSUME NEW x \in west..east, NEW y \in north..south,
             InWorld(y), x \in {west, east} \/ y \in {north, south}
      PROVE  Wrapped(x, y) \in Ring(n)
  <2>1. <<x, y>> \in P
    BY <1>3
  <2> HIDE DEF P
  <2>2. \A p \in P : Wrapped(p[1], p[2]) \in Ring(n)
    BY <1>1
  <2>3. Wrapped(<<x, y>>[1], <<x, y>>[2]) \in Ring(n)
    BY <2>1, <2>2
  <2> QED
    BY <2>3
<1> QED
  BY <1>2, <1>3

(* What is within n of a range is within n of one of its numbers.          *)
HasNearest(x, a, b, n) ==
  \E m \in a..b, d \in Int : x = m + d /\ Within(d, n)

LEMMA NearestIn ==
  ASSUME NEW a \in Int, NEW b \in Int, a <= b, NEW n \in Nat,
         NEW x \in (a - n)..(b + n)
  PROVE  HasNearest(x, a, b, n)
<1>1. PICK m \in a..b : m = IF x < a THEN a ELSE IF x > b THEN b ELSE x
  OBVIOUS
<1>2. PICK d \in Int : d = x - m
  OBVIOUS
<1>3. x = m + d /\ -n <= d /\ d <= n
  BY <1>1, <1>2
<1> QED
  BY <1>3 DEF Within, HasNearest

LEMMA RingIsNear ==
  ASSUME FrameInv, screen # NoScreen, ~CrossesView, VisibleRows # {},
         NEW n \in Nat
  PROVE  Ring(n) \subseteq Near(n)
<1>1. /\ Columns = VisibleColumns /\ Rows = VisibleRows
      /\ Min(Columns) \in Int /\ Max(Columns) \in Int
      /\ Min(Columns) <= Max(Columns)
      /\ Columns = Min(Columns)..Max(Columns)
      /\ Min(Rows) \in Int /\ Max(Rows) \in Int
      /\ Min(Rows) <= Max(Rows)
      /\ Rows = Min(Rows)..Max(Rows)
  BY PlanStart
<1>2. PICK west \in Int, east \in Int, north \in Int, south \in Int :
        /\ west = Min(Columns) /\ east = Max(Columns)
        /\ north = Min(Rows) /\ south = Max(Rows)
  BY <1>1
<1>3. /\ west <= east /\ VisibleColumns = west..east
      /\ north <= south /\ VisibleRows = north..south
  BY <1>1, <1>2
<1>4. \A t \in Ring(n) :
        \E x \in (west - n)..(east + n), y \in (north - n)..(south + n) :
           t = Wrapped(x, y) /\ InWorld(y)
  BY <1>2, RingMembers
<1> SUFFICES ASSUME NEW t \in Ring(n) PROVE t \in Near(n)
  OBVIOUS
<1>6. PICK x \in (west - n)..(east + n), y \in (north - n)..(south + n) :
        t = Wrapped(x, y) /\ InWorld(y)
  BY <1>4
<1>7. HasNearest(x, west, east, n) /\ HasNearest(y, north, south, n)
  BY <1>3, NearestIn
<1>8. PICK mx \in west..east, dx \in Int : x = mx + dx /\ Within(dx, n)
  BY <1>7 DEF HasNearest
<1>9. PICK my \in north..south, dy \in Int : y = my + dy /\ Within(dy, n)
  BY <1>7 DEF HasNearest
<1>10. InWorld(my + dy) /\ mx \in VisibleColumns /\ my \in VisibleRows
  BY <1>3, <1>6, <1>9
<1>11. Wrapped(mx + dx, my + dy) \in Near(n)
  BY <1>8, <1>9, <1>10, StepIsNear
<1> QED
  BY <1>6, <1>8, <1>9, <1>11

LEMMA NeighboursInRing ==
  ASSUME FrameInv, screen # NoScreen, ~CrossesView, VisibleRows # {},
         NEW t \in Near(1), t \notin VisibleIds
  PROVE  t \in Ring(1)
<1> DEFINE n == TilesAcross(camera.zoom)
<1>1. /\ n \in Nat \ {0} /\ camera.zoom \in Nat
      /\ VisibleColumns \subseteq 0..(n - 1) /\ VisibleRows \subseteq 0..(n - 1)
      /\ VisibleIds = {TileAt(p[1], p[2]) : p \in VisibleColumns \X VisibleRows}
  BY ViewOfPlan
<1> HIDE DEF n
<1>2. PICK west \in Int, east \in Int, north \in Int, south \in Int :
        /\ west = Min(Columns) /\ east = Max(Columns)
        /\ north = Min(Rows) /\ south = Max(Rows)
  BY PlanStart
<1>3. /\ west <= east /\ VisibleColumns = west..east
      /\ north <= south /\ VisibleRows = north..south
  BY <1>2, PlanStart
<1>4. PICK v \in VisibleIds : t \in TilesOf(camera.zoom) /\ Distance(t, v) <= 1
  BY DEF Near
<1>5. PICK x \in VisibleColumns, y \in VisibleRows : v = TileAt(x, y)
  BY <1>1, <1>4
<1>6. PICK tx \in 0..(n - 1), ty \in 0..(n - 1) : t = TileAt(tx, ty)
  BY <1>4 DEF TilesOf, TileAt, n
<1>7. /\ t \in [z : Nat, x : Nat, y : Nat] /\ v \in [z : Nat, x : Nat, y : Nat]
      /\ t.x = tx /\ t.y = ty /\ v.x = x /\ v.y = y
  BY <1>1, <1>5, <1>6 DEF TileAt
<1>8. /\ Shorter((tx - x) % n, n) <= 1
      /\ ty - y <= 1 /\ y - ty <= 1
  BY <1>4, <1>7, DistanceWithin DEF n
<1>9. PICK d \in -1..1 : (x + d) % n = tx
  BY <1>1, <1>8, NeighbourColumn
<1>10. PICK px \in Int : px = x + d
  BY <1>3
<1>11. Wrapped(px, ty) = t
  BY <1>6, <1>9, <1>10 DEF Wrapped, TileAt, n
<1>12. /\ px \in (west - 1)..(east + 1) /\ ty \in (north - 1)..(south + 1)
       /\ InWorld(ty)
  BY <1>3, <1>8, <1>10 DEF InWorld, n
<1>13. CASE px \in {west - 1, east + 1} \/ ty \in {north - 1, south + 1}
  BY <1>2, <1>11, <1>12, <1>13, RingMembers
<1>14. CASE ~ (px \in {west - 1, east + 1} \/ ty \in {north - 1, south + 1})
  <2>1. px \in VisibleColumns /\ ty \in VisibleRows
    BY <1>3, <1>12, <1>14
  <2>2. px % n = px
    <3>1. px \in 0..(n - 1) /\ px = (n * 0) + px
      BY <1>1, <2>1
    <3> QED
      BY <1>1, <3>1, Quotient
  <2>3. t = TileAt(px, ty)
    BY <1>6, <1>9, <1>10, <2>2
  <2>4. \A p \in VisibleColumns \X VisibleRows : TileAt(p[1], p[2]) \in VisibleIds
    BY <1>1
  <2>5. TileAt(<<px, ty>>[1], <<px, ty>>[2]) \in VisibleIds
    BY <2>1, <2>4
  <2> QED
    BY <2>3, <2>5
<1> QED
  BY <1>13, <1>14

---------------------------------------------------------------------------
(* Where the camera is going.                                              *)

Magnitude(part, steps) ==
  Max({0} \cup {k \in 1..3 :
        (2 * k - 1) * (2 * k - 1) * Speed2 <= 4 * part * part * steps * steps})

AbsOf(v) == IF v < 0 THEN -v ELSE v

(* Rounding is by at most three tiles, by one when the step is one, and by *)
(* none exactly when the part is less than half a tile.                    *)
LEMMA RoundedSize ==
  ASSUME Speed2 \in Nat \ {0}, NEW part \in Int, NEW steps \in Int
  PROVE  /\ Magnitude(part, steps) \in 0..3
         /\ Magnitude(part, steps) >= 1
              <=> Speed2 <= 4 * part * part * steps * steps
         /\ steps \in {-1, 0, 1} /\ part * part <= Speed2 => Magnitude(part, steps) <= 1
         /\ Rounded(part, steps) = IF part * steps < 0 THEN -Magnitude(part, steps)
                                   ELSE Magnitude(part, steps)
<1> DEFINE reach == 4 * part * part * steps * steps
           S == {0} \cup {k \in 1..3 : (2 * k - 1) * (2 * k - 1) * Speed2 <= reach}
           m == Magnitude(part, steps)
<1>1. PICK s \in Nat \ {0} : s = Speed2
  OBVIOUS
<1>2. PICK r \in Int : r = reach
  OBVIOUS
<1>3. /\ 1 \in S <=> s <= r
      /\ 2 \in S <=> 9 * s <= r
      /\ 3 \in S <=> 25 * s <= r
      /\ 0 \in S /\ S \subseteq 0..3
  BY <1>1, <1>2
<1>4. m = Max(S) /\ Rounded(part, steps) = IF part * steps < 0 THEN -m ELSE m
  BY DEF Magnitude, Rounded
<1> HIDE DEF S, m, reach
<1>5. m \in S /\ \A k \in S : k <= m
  <2>1. \E b \in S : \A c \in S : c <= b
    BY <1>3
  <2>2. PICK b \in S : \A c \in S : c <= b
    BY <2>1
  <2>3. S \subseteq Int
    BY <1>3
  <2>4. Max(S) = b
    BY <2>2, <2>3, LargestOf
  <2> QED
    BY <1>4, <2>2, <2>4
<1>6. m \in 0..3
  BY <1>3, <1>5
<1>7. m >= 1 <=> s <= r
  <2>1. CASE s <= r
    BY <1>3, <1>5, <1>6, <2>1
  <2>2. CASE m >= 1
    <3>1. m = 1 \/ m = 2 \/ m = 3
      BY <1>6, <2>2
    <3> QED
      BY <1>1, <1>2, <1>3, <1>5, <3>1
  <2> QED
    BY <2>1, <2>2
<1>8. ASSUME steps \in {-1, 0, 1}, part * part <= Speed2
      PROVE  m <= 1
  <2>1. PICK q \in Nat : q = part * part
    OBVIOUS
  <2>2. r = 4 * q \/ r = 0
    BY <1>2, <1>8, <2>1 DEF reach
  <2>3. r <= 4 * s
    BY <1>1, <1>8, <2>1, <2>2
  <2>4. ~ (9 * s <= r) /\ ~ (25 * s <= r)
    BY <1>1, <1>2, <2>3
  <2>5. m # 2 /\ m # 3
    BY <1>3, <1>5, <2>4
  <2> QED
    BY <1>6, <2>5
<1> QED
  BY <1>1, <1>2, <1>4, <1>6, <1>7, <1>8 DEF m, reach

(* What the two parts of a velocity round to for a step of one: the larger *)
(* part never to nothing, the smaller one only when it is smaller.         *)
LEMMA PartsOfUnit ==
  ASSUME velocity.x \in Int, velocity.y \in Int, Speed2 # 0,
         NEW a, NEW b, a = Magnitude(velocity.x, 1), b = Magnitude(velocity.y, 1)
  PROVE  /\ Speed2 \in Nat \ {0} /\ a \in {0, 1} /\ b \in {0, 1}
         /\ velocity.x * velocity.x <= Speed2 /\ velocity.y * velocity.y <= Speed2
         /\ a = 1 \/ b = 1
         /\ a = 0 => AbsOf(velocity.x) < AbsOf(velocity.y)
         /\ b = 0 => AbsOf(velocity.y) < AbsOf(velocity.x)
         /\ a = 1 => AbsOf(velocity.x) > 0
         /\ b = 1 => AbsOf(velocity.y) > 0
<1>1. PICK x \in Int, y \in Int : x = velocity.x /\ y = velocity.y
  OBVIOUS
<1>2. Speed2 = x * x + y * y
  BY <1>1 DEF Speed2
<1>3. PICK p \in Nat, q \in Nat : p = x * x /\ q = y * y
  <2>1. x * x \in Nat
    <3>1. CASE x >= 0
      BY <3>1
    <3>2. CASE x < 0
      BY <3>2
    <3> QED
      BY <3>1, <3>2
  <2>2. y * y \in Nat
    <3>1. CASE y >= 0
      BY <3>1
    <3>2. CASE y < 0
      BY <3>2
    <3> QED
      BY <3>1, <3>2
  <2> QED
    BY <2>1, <2>2
<1>4. Speed2 = p + q /\ p + q \in Nat \ {0}
  BY <1>2, <1>3
<1>5. /\ a \in 0..3 /\ (a >= 1 <=> Speed2 <= 4 * x * x * 1 * 1)
      /\ (x * x <= Speed2 => a <= 1)
  BY <1>1, <1>4, RoundedSize
<1>6. /\ b \in 0..3 /\ (b >= 1 <=> Speed2 <= 4 * y * y * 1 * 1)
      /\ (y * y <= Speed2 => b <= 1)
  BY <1>1, <1>4, RoundedSize
<1>7. 4 * x * x * 1 * 1 = 4 * p /\ 4 * y * y * 1 * 1 = 4 * q
  BY <1>3
<1>8. /\ a \in {0, 1} /\ (a = 1 <=> p + q <= 4 * p)
      /\ b \in {0, 1} /\ (b = 1 <=> p + q <= 4 * q)
  BY <1>3, <1>4, <1>5, <1>6, <1>7
<1>9. PICK m \in Nat, n \in Nat : m = AbsOf(x) /\ n = AbsOf(y)
  BY DEF AbsOf
<1>10. p = m * m /\ q = n * n
  BY <1>3, <1>9 DEF AbsOf
<1>11. n >= m => q >= p
  <2> SUFFICES ASSUME n >= m PROVE q >= p
    OBVIOUS
  <2>1. m * m <= n * n
    OBVIOUS
  <2> QED
    BY <1>10, <2>1
<1>12. m >= n => p >= q
  <2> SUFFICES ASSUME m >= n PROVE p >= q
    OBVIOUS
  <2>1. n * n <= m * m
    OBVIOUS
  <2> QED
    BY <1>10, <2>1
<1>13. (m = 0 => p = 0) /\ (n = 0 => q = 0)
  BY <1>10
<1>14. a = 1 \/ b = 1
  BY <1>8
<1>15. a = 0 => m < n
  BY <1>4, <1>8, <1>12
<1>16. b = 0 => n < m
  BY <1>4, <1>8, <1>11
<1>17. (a = 1 => m > 0) /\ (b = 1 => n > 0)
  BY <1>4, <1>8, <1>13
<1> QED
  BY <1>1, <1>3, <1>4, <1>8, <1>9, <1>14, <1>15, <1>16, <1>17

(* A part that is rounded keeps its direction.                             *)
LEMMA RoundedAlong ==
  ASSUME Speed2 \in Nat \ {0}, NEW v \in Int, v * v <= Speed2, NEW step \in 1..3
  PROVE  \E a \in 0..3 : /\ Rounded(v, step) = IF v < 0 THEN -a ELSE a
                         /\ Magnitude(v, 1) <= a
<1> DEFINE a == Magnitude(v, step)
           unit == Magnitude(v, 1)
<1>1. /\ a \in 0..3 /\ (a >= 1 <=> Speed2 <= 4 * v * v * step * step)
      /\ Rounded(v, step) = IF v * step < 0 THEN -a ELSE a
  BY RoundedSize
<1>2. /\ unit \in 0..3 /\ (unit >= 1 <=> Speed2 <= 4 * v * v * 1 * 1) /\ unit <= 1
  BY RoundedSize
<1>3. v * step < 0 <=> v < 0
  <2>1. step = 1 \/ step = 2 \/ step = 3
    OBVIOUS
  <2> QED
    BY <2>1
<1>4. unit <= a
  <2>1. CASE unit = 0
    BY <1>1, <2>1
  <2>2. CASE unit = 1
    <3>1. PICK p \in Int : p = 4 * v * v * 1 * 1
      OBVIOUS
    <3>2. p >= 1
      BY <1>2, <2>2, <3>1
    <3>3. 4 * v * v * step * step >= p
      <4>1. step = 1 \/ step = 2 \/ step = 3
        OBVIOUS
      <4>2. 4 * v * v * 2 * 2 = 4 * p /\ 4 * v * v * 3 * 3 = 9 * p
        BY <3>1
      <4> QED
        BY <3>1, <3>2, <4>1, <4>2
    <3>4. Speed2 <= 4 * v * v * step * step
      BY <1>2, <2>2, <3>1, <3>3
    <3> QED
      BY <1>1, <2>2, <3>4
  <2> QED
    BY <1>2, <2>1, <2>2
<1> HIDE DEF a, unit
<1>5. Rounded(v, step) = IF v < 0 THEN -a ELSE a
  BY <1>1, <1>3
<1> QED
  BY <1>1, <1>4, <1>5 DEF unit

(* A step to the side is by one tile at most.                              *)
LEMMA RoundedAside ==
  ASSUME Speed2 \in Nat \ {0}, NEW v \in Int, v * v <= Speed2, NEW side \in {-1, 1},
         NEW a, a = Magnitude(v, 1)
  PROVE  /\ a \in {0, 1}
         /\ Rounded(v, 0) = 0
         /\ Rounded(v, side) = IF v * side < 0 THEN -a ELSE a
<1>1. /\ a \in 0..3 /\ (a >= 1 <=> Speed2 <= 4 * v * v * 1 * 1) /\ a <= 1
  BY RoundedSize
<1>2. PICK m : m = Magnitude(v, side)
  OBVIOUS
<1>3. /\ m \in 0..3 /\ (m >= 1 <=> Speed2 <= 4 * v * v * side * side) /\ m <= 1
      /\ Rounded(v, side) = IF v * side < 0 THEN -m ELSE m
  <2>1. side \in Int /\ side \in {-1, 0, 1}
    OBVIOUS
  <2> QED
    BY <1>2, <2>1, RoundedSize
<1>4. 4 * v * v * side * side = 4 * v * v * 1 * 1
  OBVIOUS
<1>5. m = a
  BY <1>1, <1>3, <1>4
<1>6. PICK o : o = Magnitude(v, 0)
  OBVIOUS
<1>7. /\ o \in 0..3 /\ (o >= 1 <=> Speed2 <= 4 * v * v * 0 * 0)
      /\ Rounded(v, 0) = IF v * 0 < 0 THEN -o ELSE o
  BY <1>6, RoundedSize
<1>8. 4 * v * v * 0 * 0 = 0 /\ v * 0 = 0
  OBVIOUS
<1>9. o = 0
  BY <1>7, <1>8
<1>10. Rounded(v, 0) = 0
  BY <1>7, <1>9
<1> QED
  BY <1>1, <1>3, <1>5, <1>10

(* The arithmetic of a look-ahead, for a view that moves right and down:   *)
(* the other directions are its mirror images.                             *)
LEMMA AheadOfBoth ==
  ASSUME NEW x \in Nat, NEW y \in Nat, NEW a \in 0..3, NEW b \in 0..3,
         NEW p \in {0, 1}, NEW q \in {0, 1}, p <= a, q <= b, p = 1 \/ q = 1,
         p = 0 => x < y, q = 0 => y < x, p = 1 => x > 0, q = 1 => y > 0
  PROVE  LET along == (a * x) + (b * y)
             aside == (q * x) - (p * y)
         IN along > 0 /\ along + aside > 0 /\ along - aside > 0
<1>1. a * x >= p * x /\ b * y >= q * y
  <2>1. a \in {0, 1, 2, 3} /\ b \in {0, 1, 2, 3}
    OBVIOUS
  <2> QED
    BY <2>1
<1>2. a * x \in Nat /\ b * y \in Nat
  <2>1. a \in {0, 1, 2, 3} /\ b \in {0, 1, 2, 3}
    OBVIOUS
  <2> QED
    BY <2>1
<1>3. CASE p = 1 /\ q = 1
  BY <1>1, <1>2, <1>3
<1>4. CASE p = 1 /\ q = 0
  BY <1>1, <1>2, <1>4
<1>5. CASE p = 0 /\ q = 1
  BY <1>1, <1>2, <1>5
<1> QED
  BY <1>3, <1>4, <1>5

LEMMA OffsetAhead ==
  ASSUME velocity.x \in Int, velocity.y \in Int, Speed2 # 0,
         NEW step \in 1..3, NEW side \in -1..1
  PROVE  LET o == LookAheadOffset(step, side) IN
         /\ o[1] \in Int /\ o[2] \in Int /\ Within(o[1], 4) /\ Within(o[2], 4)
         /\ o[1] * velocity.x + o[2] * velocity.y > 0
<1>1. PICK vx \in Int, vy \in Int : vx = velocity.x /\ vy = velocity.y
  OBVIOUS
<1>2. PICK p, q : p = Magnitude(vx, 1) /\ q = Magnitude(vy, 1)
  OBVIOUS
<1>3. PICK x \in Nat, y \in Nat : x = AbsOf(vx) /\ y = AbsOf(vy)
  BY DEF AbsOf
<1>4. /\ Speed2 \in Nat \ {0} /\ p \in {0, 1} /\ q \in {0, 1}
      /\ vx * vx <= Speed2 /\ vy * vy <= Speed2
      /\ p = 1 \/ q = 1
      /\ p = 0 => x < y
      /\ q = 0 => y < x
      /\ p = 1 => x > 0
      /\ q = 1 => y > 0
  BY <1>1, <1>2, <1>3, PartsOfUnit
<1>5. PICK a \in 0..3 : Rounded(vx, step) = (IF vx < 0 THEN -a ELSE a) /\ p <= a
  BY <1>2, <1>4, RoundedAlong
<1>6. PICK b \in 0..3 : Rounded(vy, step) = (IF vy < 0 THEN -b ELSE b) /\ q <= b
  BY <1>2, <1>4, RoundedAlong
<1>7. PICK rx, ry : rx = Rounded(vx, side) /\ ry = Rounded(vy, side)
  OBVIOUS
<1>8. /\ side \in {-1, 1} => rx = IF vx * side < 0 THEN -p ELSE p
      /\ side \in {-1, 1} => ry = IF vy * side < 0 THEN -q ELSE q
      /\ side = 0 => rx = 0 /\ ry = 0
  <2>1. /\ Rounded(vx, 0) = 0
        /\ \A s \in {-1, 1} : Rounded(vx, s) = IF vx * s < 0 THEN -p ELSE p
    BY <1>2, <1>4, RoundedAside
  <2>2. /\ Rounded(vy, 0) = 0
        /\ \A s \in {-1, 1} : Rounded(vy, s) = IF vy * s < 0 THEN -q ELSE q
    BY <1>2, <1>4, RoundedAside
  <2> QED
    BY <1>7, <2>1, <2>2
<1>9. PICK along \in Int, aside \in Int :
        along = (a * x) + (b * y) /\ aside = (q * x) - (p * y)
  BY <1>4
<1>10. along > 0 /\ along + aside > 0 /\ along - aside > 0
  BY <1>4, <1>5, <1>6, <1>9, AheadOfBoth
<1>11. side = -1 \/ side = 0 \/ side = 1
  OBVIOUS
<1>12. PICK Rx \in Int, Ry \in Int : /\ Rx = (IF vx < 0 THEN -a ELSE a)
                                     /\ Ry = (IF vy < 0 THEN -b ELSE b)
  OBVIOUS
<1>13. rx \in Int /\ ry \in Int /\ Within(rx, 1) /\ Within(ry, 1)
  BY <1>4, <1>8, <1>11 DEF Within
<1>14. Within(Rx + ry, 4) /\ Within(Ry - rx, 4)
  BY <1>12, <1>13 DEF Within
<1>15. Rx * vx = a * x /\ Ry * vy = b * y
  <2>1. (vx < 0 => x = -vx) /\ (~(vx < 0) => x = vx)
        /\ (vy < 0 => y = -vy) /\ (~(vy < 0) => y = vy)
    BY <1>3 DEF AbsOf
  <2>2. CASE vx < 0
    BY <1>12, <2>1, <2>2
  <2>3. CASE ~(vx < 0)
    BY <1>12, <2>1, <2>3
  <2> QED
    BY <1>12, <2>1, <2>2, <2>3
<1>16. (ry * vx) - (rx * vy) \in {0, aside, -aside}
  <2>1. (vx < 0 => x = -vx) /\ (~(vx < 0) => x = vx)
        /\ (vy < 0 => y = -vy) /\ (~(vy < 0) => y = vy)
    BY <1>3 DEF AbsOf
  <2>2. CASE side = 0
    BY <1>8, <2>2
  <2>3. CASE side = 1
    <3>1. rx = (IF vx < 0 THEN -p ELSE p) /\ ry = (IF vy < 0 THEN -q ELSE q)
      BY <1>8, <2>3
    <3> QED
      BY <1>4, <1>9, <2>1, <3>1
  <2>4. CASE side = -1
    <3>1. vx * side < 0 <=> vx > 0
      BY <2>4
    <3>2. vy * side < 0 <=> vy > 0
      BY <2>4
    <3>3. rx = (IF vx > 0 THEN -p ELSE p) /\ ry = (IF vy > 0 THEN -q ELSE q)
      BY <1>8, <2>4, <3>1, <3>2
    <3> QED
      BY <1>4, <1>9, <2>1, <3>3
  <2> QED
    BY <1>11, <2>2, <2>3, <2>4
<1>17. (Rx + ry) * vx + (Ry - rx) * vy = along + ((ry * vx) - (rx * vy))
  <2>1. (Rx + ry) * vx = (Rx * vx) + (ry * vx)
    BY <1>13
  <2>2. (Ry - rx) * vy = (Ry * vy) - (rx * vy)
    BY <1>13
  <2>3. /\ Rx * vx \in Int /\ ry * vx \in Int /\ Ry * vy \in Int /\ rx * vy \in Int
    BY <1>13
  <2> QED
    BY <1>9, <1>15, <2>1, <2>2, <2>3
<1>18. (Rx + ry) * vx + (Ry - rx) * vy > 0
  BY <1>9, <1>10, <1>16, <1>17
<1>19. /\ LookAheadOffset(step, side)[1] = Rx + ry
       /\ LookAheadOffset(step, side)[2] = Ry - rx
  BY <1>1, <1>5, <1>6, <1>7, <1>12 DEF LookAheadOffset
<1> QED
  BY <1>1, <1>13, <1>14, <1>18, <1>19

LEMMA NearGrows ==
  ASSUME FrameInv, screen # NoScreen, ~CrossesView,
         NEW n \in Nat, NEW m \in Nat, n <= m, NEW t \in Near(n)
  PROVE  t \in Near(m)
<1>1. PICK v \in VisibleIds : t \in TilesOf(camera.zoom) /\ Distance(t, v) <= n
  BY DEF Near
<1>2. camera.zoom \in Nat /\ t \in [z : Nat, x : Nat, y : Nat]
  BY <1>1, ViewOfPlan DEF TilesOf
<1>3. v \in [z : Nat, x : Nat, y : Nat]
  <2>1. VisibleIds = {TileAt(p[1], p[2]) : p \in VisibleColumns \X VisibleRows}
    BY ViewOfPlan
  <2>2. PICK p \in VisibleColumns \X VisibleRows : v = TileAt(p[1], p[2])
    BY <2>1
  <2>3. p[1] \in Nat /\ p[2] \in Nat
    <3>1. p[1] \in VisibleColumns /\ p[2] \in VisibleRows
      BY <2>2
    <3> QED
      BY <3>1, ViewOfPlan
  <2> QED
    BY <1>2, <2>2, <2>3 DEF TileAt
<1>4. PICK a \in Nat \ {0} : a = TilesAcross(camera.zoom)
  BY ViewOfPlan
<1>5. PICK s \in Int : s = Shorter((t.x - v.x) % a, a)
  BY <1>2, <1>3 DEF Shorter
<1>6. s <= n /\ t.y - v.y <= n /\ v.y - t.y <= n
  BY <1>1, <1>2, <1>3, <1>4, <1>5, DistanceWithin
<1>7. t.y \in Int /\ v.y \in Int
  BY <1>2, <1>3
<1>8. s <= m /\ t.y - v.y <= m /\ v.y - t.y <= m
  BY <1>6, <1>7
<1>9. Distance(t, v) <= m
  BY <1>2, <1>3, <1>4, <1>5, <1>8, DistanceWithin
<1> QED
  BY <1>1, <1>9 DEF Near

LEMMA AheadIsNear ==
  ASSUME FrameInv, screen # NoScreen, ~CrossesView, VisibleRows # {}
  PROVE  LookAheadTiles \subseteq Near(4)
<1> DEFINE x == (Min(Columns) + Max(Columns)) \div 2
           y == (Min(Rows) + Max(Rows)) \div 2
           ahead == {LookAheadOffset(step, side) : step \in 1..LookAheadDepth, side \in -1..1}
<1> SUFFICES ASSUME NEW t \in LookAheadTiles PROVE t \in Near(4)
  OBVIOUS
<1>1. Speed2 # 0 /\ velocity.x \in Int /\ velocity.y \in Int
  <2>1. ~ (16 * Speed2 < velocity.tile * velocity.tile)
    BY DEF LookAheadTiles
  <2>2. velocity.x \in Int /\ velocity.y \in Int /\ velocity.tile \in Nat \ {0}
    BY DEF FrameInv
  <2>3. velocity.tile * velocity.tile > 0
    BY <2>2
  <2> QED
    BY <2>1, <2>2, <2>3
<1>2. PICK o \in ahead : t = Wrapped(x + o[1], y + o[2]) /\ InWorld(y + o[2])
  BY DEF LookAheadTiles
<1>3. PICK step \in 1..LookAheadDepth, side \in -1..1 : o = LookAheadOffset(step, side)
  BY <1>2
<1>4. step \in 1..3
  BY DEF LookAheadDepth
<1>5. o[1] \in Int /\ o[2] \in Int /\ Within(o[1], 4) /\ Within(o[2], 4)
  BY <1>1, <1>3, <1>4, OffsetAhead
<1>6. \A a, b \in Int : a <= b => (a + b) \div 2 \in a..b
  OBVIOUS
<1>7. x \in VisibleColumns /\ y \in VisibleRows
  BY <1>6, PlanStart
<1> HIDE DEF x, y, ahead
<1>8. Wrapped(x + o[1], y + o[2]) \in Near(4)
  BY <1>2, <1>5, <1>7, StepIsNear
<1> QED
  BY <1>2, <1>8

LEMMA InvPlans ==
  ASSUME FrameInv
  PROVE  PlanFollowsView
<1> DEFINE plan == RequestPlan
           planned == plan.visible \cup plan.ahead \cup plan.around
           reach == DynamicPrefetchRings
           rings == UNION {Ring(n) : n \in 1..reach}
           ahead == LookAheadTiles \ VisibleIds
           offset(step, side) == LookAheadOffset(step, side)
           leads == \A step \in 1..LookAheadDepth, side \in -1..1 :
                      LET o == offset(step, side) IN
                      16 * Speed2 >= velocity.tile * velocity.tile =>
                        o[1] * velocity.x + o[2] * velocity.y > 0
<1>1. SUFFICES ASSUME screen # NoScreen, ~CrossesView
               PROVE  IF moving THEN planned = VisibleIds
                      ELSE /\ plan.visible = VisibleIds
                           /\ Near(1) \subseteq planned
                           /\ plan.around \subseteq Near(reach)
                           /\ plan.ahead \subseteq Near(4)
                           /\ leads
  BY DEF PlanFollowsView, Near
<1>2. leads
  <2> SUFFICES ASSUME NEW step \in 1..LookAheadDepth, NEW side \in -1..1,
                      16 * Speed2 >= velocity.tile * velocity.tile
               PROVE  LET o == offset(step, side) IN
                      o[1] * velocity.x + o[2] * velocity.y > 0
    OBVIOUS
  <2>1. velocity.x \in Int /\ velocity.y \in Int /\ velocity.tile \in Nat \ {0}
    BY DEF FrameInv
  <2>2. velocity.tile * velocity.tile > 0
    BY <2>1
  <2>3. Speed2 # 0
    BY <2>1, <2>2
  <2>4. step \in 1..3
    BY DEF LookAheadDepth
  <2> QED
    BY <2>1, <2>3, <2>4, OffsetAhead
<1> HIDE DEF leads
<1>3. CASE VisibleTiles = <<>> \/ moving
  <2>1. plan.visible = VisibleIds /\ plan.ahead = {} /\ plan.around = {}
    BY <1>3 DEF RequestPlan
  <2>2. VisibleTiles = <<>> => Near(1) = {}
    BY DEF VisibleIds, Near
  <2> HIDE DEF plan
  <2> QED
    BY <1>2, <1>3, <2>1, <2>2
<1>4. CASE VisibleTiles # <<>> /\ ~moving
  <2>1. VisibleRows # {}
    BY <1>1, <1>4, ViewOfPlan
  <2>2. /\ plan.visible = VisibleIds /\ plan.ahead = ahead
        /\ plan.around = rings \ (VisibleIds \cup ahead)
    BY <1>4 DEF RequestPlan
  <2>3. reach \in 1..3
    BY DEF DynamicPrefetchRings
  <2> HIDE DEF plan, ahead, reach
  <2>4. plan.visible = VisibleIds /\ Near(1) \subseteq planned
    <3> SUFFICES ASSUME NEW t \in Near(1), t \notin VisibleIds PROVE t \in planned
      BY <2>2
    <3>1. t \in Ring(1)
      BY <1>1, <2>1, NeighboursInRing
    <3>2. 1 \in 1..reach
      BY <2>3
    <3>3. t \in rings
      BY <3>1, <3>2
    <3> HIDE DEF rings
    <3> QED
      BY <2>2, <3>3
  <2>5. plan.around \subseteq Near(reach)
    <3> SUFFICES ASSUME NEW t \in rings PROVE t \in Near(reach)
      BY <2>2
    <3>1. PICK n \in 1..reach : t \in Ring(n)
      OBVIOUS
    <3>2. n \in Nat /\ n <= reach
      BY <2>3
    <3>3. t \in Near(n)
      BY <1>1, <2>1, <3>1, <3>2, RingIsNear
    <3>4. n \in Nat /\ reach \in Nat /\ n <= reach
      BY <2>3, <3>2
    <3> QED
      BY <1>1, <3>3, <3>4, NearGrows
  <2>6. plan.ahead \subseteq Near(4)
    BY <1>1, <2>1, <2>2, AheadIsNear DEF ahead
  <2> QED
    BY <1>2, <1>4, <2>4, <2>5, <2>6
<1> QED
  BY <1>3, <1>4

(* While the camera moves only what it shows is asked for. At rest the     *)
(* plan of build_tile_request_plan has every neighbour of a visible tile,  *)
(* nothing beyond its rings and its look-ahead, and it looks the way the   *)
(* camera went: for every view that does not cross the antimeridian.       *)
THEOREM PlanIsForView == FrameSpec => []PlanFollowsView
<1>1. FrameInv => PlanFollowsView
  BY InvPlans
<1> QED
  BY <1>1, FrameIsValid, PTL

---------------------------------------------------------------------------
(* The layers of a map.                                                    *)

(* What the proofs need of the sequences: layers with ids of their own.    *)
Distinct(s) ==
  /\ s \in Seq(MapLayer)
  /\ \A i, j \in DOMAIN s : i # j => s[i].id # s[j].id

Sorted(s) == \A i, j \in DOMAIN s : i < j => Below(s[i], s[j])
AllValid(s) == \A i \in DOMAIN s : ValidLayer(s[i])

StackInv == Distinct(layers) /\ Sorted(layers) /\ AllValid(layers)

---------------------------------------------------------------------------
(* Below is a strict order on layers with different ids.                   *)
LEMMA BelowOrders ==
  ASSUME NEW a \in MapLayer, NEW b \in MapLayer, NEW c \in MapLayer
  PROVE  /\ ~Below(a, a)
         /\ Below(a, b) /\ Below(b, c) => Below(a, c)
         /\ a.id # b.id => Below(a, b) \/ Below(b, a)
<1>1. \A x \in MapLayer : /\ x.zIndex \in Int /\ x.id \in Int
                          /\ x.kind \in {"tile", "vector", "marker"}
  BY StackAssumption DEF MapLayer
<1>2. Height["tile"] = 0 /\ Height["vector"] = 1 /\ Height["marker"] = 2
  BY DEF Height
<1> HIDE DEF Height
<1>3. \A x \in MapLayer : Height[x.kind] \in Int
  BY <1>1, <1>2
<1>4. \A x, y \in MapLayer : Height[x.kind] = Height[y.kind] => x.kind = y.kind
  BY <1>1, <1>2
<1>5. ~Below(a, a)
  BY <1>1, <1>3 DEF Below
<1>6. Below(a, b) /\ Below(b, c) => Below(a, c)
  BY <1>1, <1>3 DEF Below
<1>7. a.id # b.id => Below(a, b) \/ Below(b, a)
  BY <1>1, <1>3, <1>4 DEF Below
<1> QED
  BY <1>5, <1>6, <1>7

Rank(s, i) == 1 + Cardinality({j \in DOMAIN s : Below(s[j], s[i])})

(* Ranks are the places 1..Len(s), each once, and follow the order.        *)
LEMMA RankIsPlace ==
  ASSUME NEW s, Distinct(s)
  PROVE  /\ \A i \in DOMAIN s : Rank(s, i) \in DOMAIN s
         /\ \A i, j \in DOMAIN s : Below(s[i], s[j]) => Rank(s, i) < Rank(s, j)
         /\ \A place \in DOMAIN s : \E i \in DOMAIN s : Rank(s, i) = place
<1> DEFINE n == Len(s)
           below(i) == {j \in DOMAIN s : Below(s[j], s[i])}
           f == [i \in 1..n |-> Rank(s, i)]
<1>1. n \in Nat /\ DOMAIN s = 1..n /\ \A i \in 1..n : s[i] \in MapLayer
  BY DEF Distinct
<1>2. IsFiniteSet(1..n) /\ Cardinality(1..n) = n
  <2>1. 1 \in Int /\ n \in Int
    BY <1>1
  <2> HIDE DEF n
  <2>2. /\ IsFiniteSet(1..n)
        /\ Cardinality(1..n) = IF 1 > n THEN 0 ELSE n - 1 + 1
    BY ONLY <2>1, FS_Interval
  <2>3. (IF 1 > n THEN 0 ELSE n - 1 + 1) = n
    BY <1>1
  <2> QED
    BY ONLY <2>2, <2>3
<1>3. ASSUME NEW i \in 1..n
      PROVE  /\ IsFiniteSet(below(i)) /\ Cardinality(below(i)) \in 0..(n - 1)
             /\ i \notin below(i) /\ below(i) \subseteq 1..n
  <2>1. i \notin below(i) /\ below(i) \subseteq (1..n) \ {i}
    BY <1>1, BelowOrders
  <2>2. IsFiniteSet((1..n) \ {i}) /\ Cardinality((1..n) \ {i}) = n - 1
    BY <1>2, FS_RemoveElement
  <2> HIDE DEF below
  <2>3. IsFiniteSet(below(i)) /\ Cardinality(below(i)) <= n - 1
    BY <2>1, <2>2, FS_Subset
  <2> QED
    BY <1>1, <2>1, <2>3, FS_CardinalityType
<1>4. ASSUME NEW i \in 1..n
      PROVE  Rank(s, i) = 1 + Cardinality(below(i)) /\ Rank(s, i) \in 1..n
  <2>1. Rank(s, i) = 1 + Cardinality(below(i))
    BY DEF Rank
  <2>2. Cardinality(below(i)) \in 0..(n - 1)
    BY <1>3
  <2> HIDE DEF below, n
  <2> QED
    BY <1>1, <2>1, <2>2
<1>5. ASSUME NEW i \in 1..n, NEW j \in 1..n, Below(s[i], s[j])
      PROVE  Rank(s, i) < Rank(s, j)
  <2>1. below(i) \subseteq below(j)
    BY <1>1, <1>5, BelowOrders
  <2>2. i \in below(j) /\ i \notin below(i)
    BY <1>1, <1>3, <1>5
  <2> HIDE DEF below
  <2>3. /\ Cardinality(below(i)) <= Cardinality(below(j))
        /\ Cardinality(below(i)) # Cardinality(below(j))
    BY <1>3, <2>1, <2>2, FS_Subset
  <2> QED
    BY <1>3, <1>4, <2>3
<1> HIDE DEF n, below
<1>6. f \in Injection(1..n, 1..n)
  <2>1. f \in [1..n -> 1..n]
    BY <1>4
  <2>2. ASSUME NEW i \in 1..n, NEW j \in 1..n, f[i] = f[j] PROVE i = j
    <3>1. ~Below(s[i], s[j]) /\ ~Below(s[j], s[i])
      BY <1>4, <1>5, <2>2
    <3>2. i # j => s[i].id # s[j].id
      BY <1>1 DEF Distinct
    <3> QED
      BY <1>1, <3>1, <3>2, BelowOrders
  <2> HIDE DEF f
  <2> QED
    BY <2>1, <2>2 DEF Injection, IsInjective
<1>7. f \in Surjection(1..n, 1..n)
  <2> HIDE DEF f
  <2> QED
    BY <1>2, <1>6, FS_Injection
<1>8. \A place \in 1..n : \E i \in 1..n : Rank(s, i) = place
  BY <1>7 DEF Surjection
<1> QED
  BY <1>1, <1>4, <1>5, <1>8

(* sort_layers.                                                            *)
LEMMA LayersSorted ==
  ASSUME NEW s, Distinct(s)
  PROVE  LET t == SortLayers(s)
         IN /\ Distinct(t) /\ Sorted(t)
            /\ \A i \in DOMAIN t : \E j \in DOMAIN s : t[i] = s[j]
<1> DEFINE t == SortLayers(s)
           at == [place \in DOMAIN s |-> CHOOSE i \in DOMAIN s : Rank(s, i) = place]
<1>1. /\ \A i \in DOMAIN s : Rank(s, i) \in DOMAIN s
      /\ \A i, j \in DOMAIN s : Below(s[i], s[j]) => Rank(s, i) < Rank(s, j)
      /\ \A place \in DOMAIN s : \E i \in DOMAIN s : Rank(s, i) = place
  BY RankIsPlace
<1>2. t = [place \in DOMAIN s |-> s[at[place]]]
  BY DEF SortLayers, Rank
<1>3. \A place \in DOMAIN s : at[place] \in DOMAIN s /\ Rank(s, at[place]) = place
  BY <1>1
<1>4. /\ DOMAIN s = 1..Len(s) /\ Len(s) \in Nat
      /\ \A i \in DOMAIN s : s[i] \in MapLayer
  BY DEF Distinct
<1> HIDE DEF at, t
<1>5. t \in Seq(MapLayer) /\ DOMAIN t = DOMAIN s /\ \A i \in DOMAIN t : t[i] = s[at[i]]
  BY <1>2, <1>3, <1>4
<1>6. \A i, j \in DOMAIN t : i # j => at[i] # at[j]
  BY <1>3, <1>5
<1>7. Distinct(t)
  <2>1. ASSUME NEW i \in DOMAIN t, NEW j \in DOMAIN t, i # j PROVE t[i].id # t[j].id
    <3>1. at[i] \in DOMAIN s /\ at[j] \in DOMAIN s /\ at[i] # at[j]
      BY <1>3, <1>5, <1>6, <2>1
    <3>2. t[i] = s[at[i]] /\ t[j] = s[at[j]]
      BY <1>5
    <3> QED
      BY <3>1, <3>2 DEF Distinct
  <2> QED
    BY <1>5, <2>1 DEF Distinct
<1>8. ASSUME NEW i \in DOMAIN t, NEW j \in DOMAIN t, i < j
      PROVE  Below(t[i], t[j])
  <2>1. ~Below(t[j], t[i])
    <3>1. /\ at[i] \in DOMAIN s /\ Rank(s, at[i]) = i /\ t[i] = s[at[i]]
          /\ at[j] \in DOMAIN s /\ Rank(s, at[j]) = j /\ t[j] = s[at[j]]
      BY <1>3, <1>5
    <3>2. Below(s[at[j]], s[at[i]]) => Rank(s, at[j]) < Rank(s, at[i])
      BY <1>1, <3>1
    <3>3. i \in Int /\ j \in Int
      BY <1>4, <1>5
    <3> QED
      BY <1>8, <3>1, <3>2, <3>3
  <2>2. i # j /\ t[i] \in MapLayer /\ t[j] \in MapLayer
    BY <1>3, <1>4, <1>5, <1>8
  <2> QED
    BY <1>7, <2>1, <2>2, BelowOrders DEF Distinct
<1> QED
  BY <1>3, <1>5, <1>7, <1>8 DEF Sorted, t

---------------------------------------------------------------------------
(* The operations.                                                         *)

LEMMA PositionFound ==
  ASSUME StackInv, NEW id, Has(id)
  PROVE  /\ Position(id) \in DOMAIN layers /\ layers[Position(id)].id = id
         /\ \A i \in DOMAIN layers : layers[i].id = id => i = Position(id)
<1>1. DOMAIN layers = 1..Len(layers) /\ Len(layers) \in Nat
  BY DEF StackInv, Distinct
<1>2. PICK i \in DOMAIN layers : layers[i].id = id
  BY DEF Has
<1>3. \A j \in DOMAIN layers : layers[j].id = id => j = i
  BY <1>2 DEF StackInv, Distinct
<1>4. \A j \in 1..(i - 1) : layers[j].id # id
  BY <1>1, <1>3
<1>5. Position(id) \in DOMAIN layers /\ layers[Position(id)].id = id
  BY <1>2, <1>4 DEF Position
<1> QED
  BY <1>5 DEF StackInv, Distinct

(* A layer changes nothing that its place depends on.                      *)
LEMMA ChangedKeeps ==
  ASSUME StackInv, NEW p \in DOMAIN layers, NEW layer \in MapLayer, ValidLayer(layer),
         layer.id = layers[p].id, layer.kind = layers[p].kind,
         layer.zIndex = layers[p].zIndex, layers' = [layers EXCEPT ![p] = layer]
  PROVE  StackInv'
<1>1. /\ layers' \in Seq(MapLayer) /\ DOMAIN layers' = DOMAIN layers
      /\ \A i \in DOMAIN layers : layers'[i] = IF i = p THEN layer ELSE layers[i]
  BY DEF StackInv, Distinct
<1>2. \A i \in DOMAIN layers : /\ layers'[i].id = layers[i].id
                               /\ layers'[i].kind = layers[i].kind
                               /\ layers'[i].zIndex = layers[i].zIndex
  BY <1>1
<1>3. Distinct(layers')
  BY <1>1, <1>2 DEF StackInv, Distinct
<1>4. Sorted(layers')
  BY <1>1, <1>2 DEF StackInv, Sorted, Below
<1>5. AllValid(layers')
  BY <1>1 DEF StackInv, AllValid
<1> QED
  BY <1>3, <1>4, <1>5 DEF StackInv

LEMMA AddOrReplaceKeeps ==
  ASSUME StackInv, NEW layer \in Layers, AddOrReplace(layer)
  PROVE  StackInv'
<1> DEFINE s == IF Has(layer.id)
                THEN [layers EXCEPT ![Position(layer.id)] = layer]
                ELSE Append(layers, layer)
<1>1. layer \in MapLayer /\ ValidLayer(layer) /\ layers' = SortLayers(s)
  BY StackAssumption DEF AddOrReplace
<1>2. /\ layers \in Seq(MapLayer) /\ DOMAIN layers = 1..Len(layers) /\ Len(layers) \in Nat
  BY DEF StackInv, Distinct
<1>3. Distinct(s) /\ AllValid(s)
  <2>1. CASE Has(layer.id)
    <3> DEFINE p == Position(layer.id)
    <3>1. /\ p \in DOMAIN layers
          /\ \A i \in DOMAIN layers : layers[i].id = layer.id => i = p
      BY <2>1, PositionFound
    <3>2. s = [layers EXCEPT ![p] = layer]
      BY <2>1
    <3> HIDE DEF p, s
    <3>3. /\ s \in Seq(MapLayer) /\ DOMAIN s = DOMAIN layers
          /\ \A i \in DOMAIN s : s[i] = IF i = p THEN layer ELSE layers[i]
      <4>1. layers \in [1..Len(layers) -> MapLayer]
        BY <1>2
      <4>2. s \in [1..Len(layers) -> MapLayer]
        BY <1>1, <3>1, <3>2, <4>1
      <4>3. s \in Seq(MapLayer)
        BY <1>2, <4>2
      <4> QED
        BY <1>2, <3>1, <3>2, <4>2, <4>3
    <3> QED
      BY <1>1, <3>1, <3>3 DEF StackInv, Distinct, AllValid
  <2>2. CASE ~Has(layer.id)
    <3>1. \A i \in DOMAIN layers : layers[i].id # layer.id
      BY <2>2 DEF Has
    <3>2. s = Append(layers, layer)
      BY <2>2
    <3> HIDE DEF s
    <3>3. /\ s \in Seq(MapLayer) /\ DOMAIN s = 1..(Len(layers) + 1)
          /\ \A i \in DOMAIN layers : s[i] = layers[i]
          /\ s[Len(layers) + 1] = layer
      BY <1>1, <1>2, <3>2
    <3>4. \A i \in DOMAIN s : i \in DOMAIN layers \/ i = Len(layers) + 1
      BY <1>2, <3>3
    <3> QED
      BY <1>1, <3>1, <3>3, <3>4 DEF StackInv, Distinct, AllValid
  <2> QED
    BY <2>1, <2>2
<1> HIDE DEF s
<1>4. /\ Distinct(layers') /\ Sorted(layers')
      /\ \A i \in DOMAIN layers' : \E j \in DOMAIN s : layers'[i] = s[j]
  BY <1>1, <1>3, LayersSorted
<1> QED
  BY <1>3, <1>4 DEF StackInv, AllValid

LEMMA RemoveLayerKeeps ==
  ASSUME StackInv, NEW id, RemoveLayer(id)
  PROVE  StackInv'
<1> DEFINE p == Position(id)
           from == [i \in 1..(Len(layers) - 1) |-> IF i < p THEN i ELSE i + 1]
<1>1. /\ layers \in Seq(MapLayer) /\ DOMAIN layers = 1..Len(layers) /\ Len(layers) \in Nat
  BY DEF StackInv, Distinct
<1>2. p \in 1..Len(layers) /\ layers' = RemoveAt(layers, p)
  BY <1>1, PositionFound DEF RemoveLayer
<1> HIDE DEF p
<1>3. /\ layers' \in Seq(MapLayer) /\ DOMAIN layers' = 1..(Len(layers) - 1)
      /\ \A i \in DOMAIN layers' : layers'[i] = layers[from[i]]
  <2> DEFINE a == SubSeq(layers, 1, p - 1)
             b == SubSeq(layers, p + 1, Len(layers))
  <2>1. /\ a \in Seq(MapLayer) /\ Len(a) = p - 1
        /\ \A i \in 1..(p - 1) : a[i] = layers[i]
    BY <1>1, <1>2
  <2>2. /\ b \in Seq(MapLayer) /\ Len(b) = Len(layers) - p
        /\ \A i \in 1..(Len(layers) - p) : b[i] = layers[i + p]
    <3>1. \A i \in (p + 1)..Len(layers) : layers[i] \in MapLayer
      BY <1>1, <1>2
    <3>2. /\ b \in Seq(MapLayer) /\ Len(b) = Len(layers) - p
          /\ \A i \in 1..(Len(layers) - (p + 1) + 1) : b[i] = layers[(p + 1) + i - 1]
      <4>1. p + 1 \in Int /\ Len(layers) \in Int
        BY <1>1, <1>2
      <4>2. /\ SubSeq(layers, p + 1, Len(layers)) \in Seq(MapLayer)
            /\ Len(SubSeq(layers, p + 1, Len(layers)))
                 = IF p + 1 <= Len(layers) THEN Len(layers) - (p + 1) + 1 ELSE 0
            /\ \A i \in 1..(Len(layers) - (p + 1) + 1) :
                 SubSeq(layers, p + 1, Len(layers))[i] = layers[(p + 1) + i - 1]
        BY <3>1, <4>1, SubSeqProperties
      <4>3. Len(b) = Len(layers) - p
        <5>1. Len(b) = IF p + 1 <= Len(layers) THEN Len(layers) - (p + 1) + 1 ELSE 0
          BY <4>2
        <5>2. PICK size \in Nat : size = Len(layers) /\ p \in 1..size
          BY <1>1, <1>2
        <5>3. (IF p + 1 <= size THEN size - (p + 1) + 1 ELSE 0) = size - p
          BY <5>2
        <5> QED
          BY ONLY <5>1, <5>2, <5>3
      <4> QED
        BY <4>2, <4>3
    <3>3. \A i \in 1..(Len(layers) - p) :
            i \in 1..(Len(layers) - (p + 1) + 1) /\ (p + 1) + i - 1 = i + p
      BY <1>1, <1>2
    <3> HIDE DEF b
    <3> QED
      BY <3>2, <3>3
  <2>3. layers' = a \o b
    BY <1>2 DEF RemoveAt
  <2> HIDE DEF a, b
  <2>4. /\ layers' \in Seq(MapLayer) /\ Len(layers') = Len(layers) - 1
        /\ \A i \in 1..(Len(layers) - 1) :
             layers'[i] = IF i <= p - 1 THEN a[i] ELSE b[i - (p - 1)]
    <3>1. /\ a \o b \in Seq(MapLayer)
          /\ Len(a \o b) = Len(a) + Len(b)
          /\ \A i \in 1..(Len(a) + Len(b)) :
               (a \o b)[i] = IF i <= Len(a) THEN a[i] ELSE b[i - Len(a)]
      BY <2>1, <2>2, ConcatProperties
    <3>2. Len(a) = p - 1 /\ Len(a) + Len(b) = Len(layers) - 1
      BY <1>1, <1>2, <2>1, <2>2
    <3> QED
      BY <2>3, <3>1, <3>2
  <2>5. DOMAIN layers' = 1..(Len(layers) - 1)
    BY <2>4
  <2>6. ASSUME NEW i \in 1..(Len(layers) - 1) PROVE layers'[i] = layers[from[i]]
    <3>1. CASE i <= p - 1
      BY <1>1, <1>2, <2>1, <2>4, <3>1
    <3>2. CASE i > p - 1
      <4>1. i - (p - 1) \in 1..(Len(layers) - p) /\ (i - (p - 1)) + p = i + 1
        BY <1>1, <1>2, <3>2
      <4>2. layers'[i] = b[i - (p - 1)]
        BY <1>1, <1>2, <2>4, <3>2
      <4>3. b[i - (p - 1)] = layers[i + 1]
        BY <2>2, <4>1
      <4> QED
        BY <1>1, <1>2, <3>2, <4>2, <4>3
    <3> QED
      BY <1>1, <1>2, <3>1, <3>2
  <2> QED
    BY <2>4, <2>5, <2>6
<1>4. \A i \in DOMAIN layers' :
        /\ from[i] \in DOMAIN layers
        /\ \A j \in DOMAIN layers' : i < j => from[i] < from[j]
  BY <1>1, <1>2, <1>3
<1> HIDE DEF from
<1>5. Distinct(layers')
  BY <1>3, <1>4 DEF StackInv, Distinct
<1>6. Sorted(layers')
  BY <1>3, <1>4 DEF StackInv, Sorted
<1>7. AllValid(layers')
  BY <1>3, <1>4 DEF StackInv, AllValid
<1> QED
  BY <1>5, <1>6, <1>7 DEF StackInv

LEMMA StackStep == StackInv /\ [StackNext]_layers => StackInv'
<1> SUFFICES ASSUME StackInv, [StackNext]_layers PROVE StackInv'
  OBVIOUS
<1>1. ASSUME NEW layer \in Layers, AddOrReplace(layer) PROVE StackInv'
  BY <1>1, AddOrReplaceKeeps
<1>2. ASSUME NEW id \in LayerIds, RemoveLayer(id) PROVE StackInv'
  BY <1>2, RemoveLayerKeeps
<1>3. ASSUME NEW id \in LayerIds, NEW visible \in BOOLEAN, SetVisible(id, visible)
      PROVE  StackInv'
  <2> DEFINE p == Position(id)
             layer == [layers[p] EXCEPT !.visible = visible]
  <2>1. p \in DOMAIN layers /\ layers[p] \in MapLayer /\ ValidLayer(layers[p])
    BY <1>3, PositionFound DEF SetVisible, StackInv, Distinct, AllValid
  <2>2. layers' = [layers EXCEPT ![p] = layer]
    BY <1>3 DEF SetVisible
  <2> HIDE DEF p
  <2>3. layer \in MapLayer
    BY <2>1 DEF MapLayer
  <2>4. /\ layer.id = layers[p].id /\ layer.kind = layers[p].kind
        /\ layer.zIndex = layers[p].zIndex /\ layer.opacity = layers[p].opacity
        /\ layer.minZoom = layers[p].minZoom /\ layer.maxZoom = layers[p].maxZoom
    BY <2>1 DEF MapLayer
  <2> HIDE DEF layer
  <2>5. ValidLayer(layer)
    BY <2>1, <2>4 DEF ValidLayer
  <2> QED
    BY <2>1, <2>2, <2>3, <2>4, <2>5, ChangedKeeps
<1>4. ASSUME NEW id \in LayerIds, NEW opacity \in Opacities, SetOpacity(id, opacity)
      PROVE  StackInv'
  <2> DEFINE p == Position(id)
             layer == [layers[p] EXCEPT !.opacity = opacity]
  <2>1. p \in DOMAIN layers /\ layers[p] \in MapLayer /\ ValidLayer(layers[p])
    BY <1>4, PositionFound DEF SetOpacity, StackInv, Distinct, AllValid
  <2>2. layers' = [layers EXCEPT ![p] = layer] /\ opacity # "refused"
    BY <1>4 DEF SetOpacity
  <2> HIDE DEF p
  <2>3. layer \in MapLayer
    BY <2>1 DEF MapLayer
  <2>4. /\ layer.id = layers[p].id /\ layer.kind = layers[p].kind
        /\ layer.zIndex = layers[p].zIndex /\ layer.opacity = opacity
        /\ layer.minZoom = layers[p].minZoom /\ layer.maxZoom = layers[p].maxZoom
    BY <2>1 DEF MapLayer
  <2> HIDE DEF layer
  <2>5. ValidLayer(layer)
    BY <2>1, <2>2, <2>4 DEF ValidLayer
  <2> QED
    BY <2>1, <2>2, <2>3, <2>4, <2>5, ChangedKeeps
<1>5. CASE UNCHANGED layers
  BY <1>5 DEF StackInv, Distinct, Sorted, AllValid
<1> QED
  BY <1>1, <1>2, <1>3, <1>4, <1>5 DEF StackNext

(* The layers are in drawing order, each valid and each id once, whatever  *)
(* calls made them: only add_or_replace sorts.                             *)
THEOREM LayersStayInOrder == StackSpec => []StackInOrder
<1>1. StackInit => StackInv
  BY DEF StackInit, StackInv, Distinct, Sorted, AllValid
<1>2. StackInv => StackInOrder
  <2> SUFFICES ASSUME StackInv PROVE StackInOrder
    OBVIOUS
  <2>1. DOMAIN layers = 1..Len(layers) /\ Len(layers) \in Nat
    BY DEF StackInv, Distinct
  <2> QED
    BY <2>1 DEF StackInv, Distinct, Sorted, AllValid, StackInOrder
<1> QED
  BY <1>1, <1>2, StackStep, PTL DEF StackSpec
==============================================================================
