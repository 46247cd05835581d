----------------------------- MODULE FluidGrid -----------------------------
(***************************************************************************)
(* led/fluid_sim.c and fluid_sim of led/led_matrix.c: particles in a box   *)
(* of cells, moved by gravity, pushed apart, spread over the faces of the  *)
(* cells, corrected there and carried by them.                             *)
(*                                                                         *)
(* Places count in Unit parts of a cell, so that the weights of the        *)
(* bilinear interpolation are whole numbers.  Of a velocity only remains   *)
(* whether it may differ from zero: a particle may move anywhere, a face   *)
(* may move once something that moves was added to it.                     *)
(***************************************************************************)
EXTENDS Integers, FiniteSets

CONSTANTS
  WIDTH, HEIGHT,   \* cells, the walls included (10 and 8)
  NUM_PARTICLES,
  Unit,            \* parts of a cell, an even number
  Reach,           \* places <<x, y>> a particle may be moved to
  Brightness,      \* brightness_from_lux, as fluid_sim takes it
  MaxFrames        \* bound on the frames

ASSUME FluidAssumption ==
  /\ WIDTH \in Nat /\ WIDTH >= 4 /\ HEIGHT \in Nat /\ HEIGHT >= 4
  /\ NUM_PARTICLES \in Nat \ {0}
  /\ Unit \in Nat \ {0} /\ Unit % 2 = 0
  /\ Reach \subseteq Int \X Int
  /\ Brightness \in Nat /\ Brightness >= 15 /\ Brightness <= 255
  /\ MaxFrames \in Nat

Particles == 0..(NUM_PARTICLES - 1)

Grid == (0..(WIDTH - 1)) \X (0..(HEIGHT - 1))

VARIABLES
  fluidStep,     \* the function update calls next, or "draw"
  pair,          \* the two particles pushed apart next
  place,         \* particles[i].x and .y
  water,         \* cells with cellType WATER
  uMoves,        \* faces of uGrid that may differ from zero
  vMoves,
  particleDensity,
  restDensity,   \* sum and number of cells, 0 and 0 until it is known
  carried,       \* particles that took both components from the grid
  pixels,        \* the blue of led_matrix, by cell
  frames         \* history: frames drawn

fluidVars == <<fluidStep, pair, place, water, uMoves, vMoves, particleDensity,
               restDensity, carried, pixels, frames>>

-----------------------------------------------------------------------------
(* Geometry.                                                                *)

\* initFluidSim: the outermost cells are walls; nothing changes that.
Solid(c) ==
  c[1] = 0 \/ c[1] = WIDTH - 1 \/ c[2] = 0 \/ c[2] = HEIGHT - 1

Clamp(v, lo, hi) == IF v < lo THEN lo ELSE IF v > hi THEN hi ELSE v

Least(a, b) == IF a < b THEN a ELSE b

Half == Unit \div 2

\* Where a particle's velocity is taken from or left at: inside the walls.
Inside(p) == <<Clamp(p[1], Unit, (WIDTH - 1) * Unit),
               Clamp(p[2], Unit, (HEIGHT - 1) * Unit)>>

\* A conversion to int rounds towards zero: less than a cell off the grid on
\* the left or at the top is in the wall there.
CellIndex(v) == IF v < 0 THEN -((-v) \div Unit) ELSE v \div Unit

CellOf(p) == <<CellIndex(p[1]), CellIndex(p[2])>>

\* A share in a grid: a place in it and a weight.
Shares(x0, x1, tx, y0, y1, ty) ==
  << <<x0, y0, (Unit - tx) * (Unit - ty)>>, <<x1, y0, tx * (Unit - ty)>>,
     <<x0, y1, (Unit - tx) * ty>>, <<x1, y1, tx * ty>> >>

\* transferVelocities: the four faces around a particle, the grid being shifted
\* by dx and dy.
FaceShares(p, dx, dy) ==
  LET q  == Inside(p)
      x0 == Least((q[1] - dx) \div Unit, WIDTH - 2)
      y0 == Least((q[2] - dy) \div Unit, HEIGHT - 2)
  IN  Shares(x0, Least(x0 + 1, WIDTH - 2), (q[1] - dx) - x0 * Unit,
             y0, Least(y0 + 1, HEIGHT - 2), (q[2] - dy) - y0 * Unit)

USharesOf(p) == FaceShares(p, 0, Half)
VSharesOf(p) == FaceShares(p, Half, 0)

\* updateParticleDensity: the four cells whose centres are around a particle.
CentreShares(p) ==
  LET q  == Inside(p)
      x0 == (q[1] - Half) \div Unit
      y0 == (q[2] - Half) \div Unit
  IN  Shares(x0, Least(x0 + 1, WIDTH - 2), (q[1] - Half) - x0 * Unit,
             y0, Least(y0 + 1, HEIGHT - 2), (q[2] - Half) - y0 * Unit)

PlacesOf(shares) == {<<shares[k][1], shares[k][2]>> : k \in {j \in 1..4 :
                                                    shares[j][3] > 0}}

\* A face with a wall on one of its sides: what the transfer puts back.
UWall(f) == Solid(f) \/ (f[1] > 0 /\ Solid(<<f[1] - 1, f[2]>>))
VWall(f) == Solid(f) \/ (f[2] > 0 /\ Solid(<<f[1], f[2] - 1>>))

-----------------------------------------------------------------------------
\* initFluidSim.
FluidInit ==
  /\ fluidStep = "move"
  /\ pair = <<0, 1>>
  /\ place = [i \in Particles |->
                <<(WIDTH \div 2 + (i % 5) - 2) * Unit,
                  (HEIGHT \div 2 + (i \div 5) - 2) * Unit>>]
  /\ water = {}
  /\ uMoves = {} /\ vMoves = {}
  /\ particleDensity = [c \in Grid |-> 0]
  /\ restDensity = <<0, 0>>
  /\ carried = Particles
  /\ pixels = [c \in Grid |-> 0]
  /\ frames = 0

\* Mutant: only the lower bounds are kept.
OffWalls_LowerOnly(p) ==
  <<IF p[1] < Unit + Half THEN Unit + Half ELSE p[1],
    IF p[2] < Unit + Half THEN Unit + Half ELSE p[2]>>

\* updateParticles: anywhere, but half a cell off every wall.
OffWalls(p) ==
  <<Clamp(p[1], Unit + Half, (WIDTH - 1) * Unit - Half),
    Clamp(p[2], Unit + Half, (HEIGHT - 1) * Unit - Half)>>

updateParticles ==
  /\ fluidStep = "move" /\ frames < MaxFrames
  /\ \E to \in [Particles -> Reach] :
       place' = [i \in Particles |-> OffWalls(to[i])]
  /\ fluidStep' = "push"
  /\ pair' = <<0, 1>>
  /\ UNCHANGED <<water, uMoves, vMoves, particleDensity, restDensity, carried,
                 pixels, frames>>

\* Half of what two particles lack to a cell's distance, along one axis: the
\* distance lies between r and r + 1, and the result is rounded either way.
Offsets(d, square) ==
  LET r  == CHOOSE k \in 0..Unit : k * k <= square /\ square < (k + 1) * (k + 1)
      m  == IF d < 0 THEN -d ELSE d
      lo == (m * (Unit - r - 1)) \div (2 * (r + 1))
      hi == (m * (Unit - r) + 2 * r - 1) \div (2 * r)
  IN  IF d = 0 THEN {0} ELSE {IF d < 0 THEN -k ELSE k : k \in lo..hi}

NextPair(p) ==
  IF p[2] < NUM_PARTICLES - 1 THEN <<p[1], p[2] + 1>>
  ELSE <<p[1] + 1, p[1] + 2>>

\* One turn of the two loops of pushParticlesApart.
pushParticlesApart ==
  /\ fluidStep = "push" /\ pair[2] < NUM_PARTICLES
  /\ LET i  == pair[1]
         j  == pair[2]
         dx == place[j][1] - place[i][1]
         dy == place[j][2] - place[i][2]
         square == dx * dx + dy * dy
     IN
     IF square < Unit * Unit /\ square > 0
     THEN \E ox \in Offsets(dx, square), oy \in Offsets(dy, square) :
            place' = [place EXCEPT ![i] = <<@[1] - ox, @[2] - oy>>,
                                   ![j] = <<@[1] + ox, @[2] + oy>>]
     ELSE place' = place
  /\ pair' = NextPair(pair)
  /\ UNCHANGED <<fluidStep, water, uMoves, vMoves, particleDensity,
                 restDensity, carried, pixels, frames>>

\* What particles and gravity leave at the faces; a wall's faces get back what
\* they had.  An index off the array names no cell.
TransferToGrid ==
  /\ fluidStep = "push" /\ pair[2] >= NUM_PARTICLES
  /\ water' = {c \in {CellOf(place[i]) : i \in Particles} :
                 c \in Grid /\ ~Solid(c)}
  /\ LET u == UNION {PlacesOf(USharesOf(place[i])) : i \in Particles}
         v == UNION {PlacesOf(VSharesOf(place[i])) : i \in Particles}
     IN
     /\ uMoves' = {f \in u : ~UWall(f)} \cup {f \in uMoves : UWall(f)}
     /\ vMoves' = {f \in v : ~VWall(f)} \cup {f \in vMoves : VWall(f)}
  /\ fluidStep' = "density"
  /\ UNCHANGED <<pair, place, particleDensity, restDensity, carried, pixels,
                 frames>>

\* f[0] + ... + f[n - 1], added one after another.
SumOf(f, n) ==
  LET part[k \in Nat] == IF k = 0 THEN 0 ELSE part[k - 1] + f[k - 1]
  IN  part[n]

\* The loops over the cells, column by column.
CellAt(n) == <<n \div HEIGHT, n % HEIGHT>>

SumOver(cells, d) ==
  SumOf([n \in 0..(WIDTH * HEIGHT - 1) |->
           IF CellAt(n) \in cells THEN d[CellAt(n)] ELSE 0], WIDTH * HEIGHT)

\* The weight a particle gives a cell; a cell off the grid gets none.
Given(p, c) ==
  LET s == CentreShares(p)
      mine(k) == IF s[k][1] = c[1] /\ s[k][2] = c[2] THEN s[k][3] ELSE 0
  IN  mine(1) + mine(2) + mine(3) + mine(4)

Density(c) == SumOf([i \in Particles |-> Given(place[i], c)], NUM_PARTICLES)

\* The density at rest is that of the first frame with water.
updateParticleDensity ==
  /\ fluidStep = "density"
  /\ particleDensity' = [c \in Grid |-> Density(c)]
  /\ restDensity' =
       IF restDensity[1] = 0 /\ water # {}
       THEN <<SumOver(water, particleDensity'), Cardinality(water)>>
       ELSE restDensity
  /\ fluidStep' = "solve"
  /\ UNCHANGED <<pair, place, water, uMoves, vMoves, carried, pixels, frames>>

\* solid[i][j] is the factor that keeps the pressure off a wall.
Open(c) == ~Solid(c)

\* Mutant: the pressure of a cell moves all of its four faces.
Pressed_WallsToo(c) ==
  [u |-> {c, <<c[1] + 1, c[2]>>}, v |-> {c, <<c[1], c[2] + 1>>}]

Pressed(c) ==
  [u |-> {f \in {c} : Open(<<c[1] - 1, c[2]>>)} \cup
         {f \in {<<c[1] + 1, c[2]>>} : Open(f)},
   v |-> {f \in {c} : Open(<<c[1], c[2] - 1>>)} \cup
         {f \in {<<c[1], c[2] + 1>>} : Open(f)}]

solveIncompressibility ==
  /\ fluidStep = "solve"
  /\ uMoves' = uMoves \cup UNION {Pressed(c).u : c \in water}
  /\ vMoves' = vMoves \cup UNION {Pressed(c).v : c \in water}
  /\ fluidStep' = "carry"
  /\ UNCHANGED <<pair, place, water, particleDensity, restDensity, carried,
                 pixels, frames>>

\* A face counts if one of the cells at its sides is not air.
Filled(c) == c \in water \/ Solid(c)

UValid(f) == f[1] > 0 /\ (Filled(f) \/ Filled(<<f[1] - 1, f[2]>>))
VValid(f) == f[2] > 0 /\ (Filled(f) \/ Filled(<<f[1], f[2] - 1>>))

\* transferVelocities back: a particle none of whose faces count keeps its own
\* velocity.
TransferFromGrid ==
  /\ fluidStep = "carry"
  /\ carried' = {i \in Particles :
       /\ \E f \in PlacesOf(USharesOf(place[i])) : UValid(f)
       /\ \E f \in PlacesOf(VSharesOf(place[i])) : VValid(f)}
  /\ fluidStep' = "draw"
  /\ UNCHANGED <<pair, place, water, uMoves, vMoves, particleDensity,
                 restDensity, pixels, frames>>

\* fluid_sim: water is as bright as it is dense, the rest of the box is dark.
Blue(c) ==
  IF c \notin water THEN 0
  ELSE LET sum  == restDensity[1]
           full == particleDensity[c] * restDensity[2] * Brightness
       IN  IF sum > 0 THEN Clamp(full \div sum, 15, 255) ELSE 15

Draw ==
  /\ fluidStep = "draw"
  /\ pixels' = [c \in Grid |-> IF Solid(c) THEN 0 ELSE Blue(c)]
  /\ fluidStep' = "move"
  /\ frames' = frames + 1
  /\ UNCHANGED <<pair, place, water, uMoves, vMoves, particleDensity,
                 restDensity, carried>>

FluidNext ==
  \/ updateParticles \/ pushParticlesApart \/ TransferToGrid
  \/ updateParticleDensity \/ solveIncompressibility \/ TransferFromGrid
  \/ Draw

FluidSpec == FluidInit /\ [][FluidNext]_fluidVars

-----------------------------------------------------------------------------
(* Properties.                                                              *)

Blues == 0..255

FluidTypeOK ==
  /\ fluidStep \in {"move", "push", "density", "solve", "carry", "draw"}
  /\ pair \in Nat \X Nat
  /\ place \in [Particles -> Int \X Int]
  /\ water \subseteq Grid
  /\ uMoves \subseteq Int \X Int /\ vMoves \subseteq Int \X Int
  /\ particleDensity \in [Grid -> Nat]
  /\ restDensity \in Nat \X Nat
  /\ carried \subseteq Particles
  /\ pixels \in [Grid -> Blues]
  /\ frames \in Nat

\* The places are those of a frame: the first move puts the particles, wherever
\* initFluidSim left them, in the box.
Moved == fluidStep # "move" \/ frames > 0

\* The pairs particle i was in, of those before pair.
Pushes(i) ==
  IF i < pair[1] THEN NUM_PARTICLES - 1
  ELSE IF i = pair[1] THEN pair[2] - 1
  ELSE IF i < pair[2] THEN pair[1] + 1
  ELSE pair[1]

\* At most n half cells out of where OffWalls keeps the particles.
NearBox(p, n) ==
  /\ Unit + Half - n * Half <= p[1]
  /\ p[1] <= (WIDTH - 1) * Unit - Half + n * Half
  /\ Unit + Half - n * Half <= p[2]
  /\ p[2] <= (HEIGHT - 1) * Unit - Half + n * Half

\* updateParticles keeps the particles off the walls, but pushParticlesApart
\* moves them afterwards without looking: each pair by half a cell or less.
LittlePushed == Moved => \A i \in Particles : NearBox(place[i], Pushes(i))

\* cellType is indexed with where they are then.  Three particles cannot push
\* one of them further than into a wall.
OnTheGrid ==
  Moved /\ NUM_PARTICLES <= 3 => \A i \in Particles : CellOf(place[i]) \in Grid

\* The faces are indexed with clamped places, and lie within their arrays
\* wherever a particle was pushed.
FacesAreThere ==
  /\ uMoves \subseteq (0..WIDTH) \X (0..(HEIGHT - 1))
  /\ vMoves \subseteq (0..(WIDTH - 1)) \X (0..HEIGHT)

\* The grid carries every particle, one that was pushed into the left or the
\* upper wall or past it too.  In the right and in the lower wall the last face
\* taken is the inner one, and a particle with no water beside it goes on.
AllAreCarried ==
  (fluidStep = "draw" \/ (fluidStep = "move" /\ frames > 0)) =>
    \A i \in Particles : LET c == CellOf(place[i]) IN
      c[1] < WIDTH - 1 /\ c[2] < HEIGHT - 1 => i \in carried

FluidIsContained ==
  LittlePushed /\ OnTheGrid /\ FacesAreThere /\ AllAreCarried

\* No face of a wall ever moves: the transfer puts back what it had, and the
\* pressure passes it over.
WallsStandStill ==
  (\A f \in uMoves : ~UWall(f)) /\ (\A f \in vMoves : ~VWall(f))

\* The interpolation shares out each particle once: no part of it is lost at
\* the edges of the grid, and no part is counted twice.
MassIsKept ==
  fluidStep = "solve" =>
    SumOver(Grid, particleDensity) = NUM_PARTICLES * (Unit * Unit)

\* A frame lights the cells with particles and no others, one that holds a
\* thinned-out particle too.
WaterIsSeen ==
  fluidStep = "move" /\ frames > 0 =>
    \A c \in Grid : pixels[c] > 0 <=>
      ~Solid(c) /\ \E i \in Particles : CellOf(place[i]) = c

WaterIsSound == WallsStandStill /\ MassIsKept /\ WaterIsSeen
=============================================================================
