-------------------------------- MODULE Amei --------------------------------
(***************************************************************************)
(* amei.original.c from the header of its stream to the last PNG chunk:    *)
(* the recursive walk W over a quadtree of tiles, each tile's three planes *)
(* (coefficients, transform, prediction from decoded neighbours), and the  *)
(* streaming PNG writer, which states every chunk's length before it has   *)
(* written the chunk.                                                      *)
(*                                                                         *)
(* Bits are any bits: t(c) is RangeDecoder's.  What is kept of a read is   *)
(* the contexts it uses; of a plane, which of its 4x4 cells are decoded;   *)
(* of the scratch array i, the highest index a step writes; of the output, *)
(* how many bytes a chunk announced and got.  Sample values are left out,  *)
(* and with them what R computes and the filters D and F.                  *)
(***************************************************************************)
EXTENDS Integers, Sequences, FiniteSets

CONSTANTS
  Images,      \* pictures: the order (log2 of the width), the height, and
               \* a bound on how many of its tiles the stream splits
  Modes,       \* the prediction modes q the stream uses
  MaxPrefix    \* the most zeros an Exp-Golomb code starts with

ASSUME StreamAssumption ==
  /\ \A image \in Images : image.order \in 2..10 /\ image.height \in 1..2^image.order
  /\ Modes \subseteq Nat /\ MaxPrefix \in Nat

VARIABLES
  pc,
  image,       \* f, N
  todo,        \* the calls of W still to make, the running one first
  splits,      \* how many splits the stream has asked for
  q, B, a,     \* W's mode, plane and coefficient index
  read,        \* the contexts the last step read, each with what it read
  wrote,       \* the highest index of i the last step wrote
  decoded,     \* the cells of each plane that hold samples
  chunk        \* of the PNG chunk being written: length, bytes sent, row, last

vars == <<pc, image, todo, splits, q, B, a, read, wrote, decoded, chunk>>
block == <<q, B, a>>
tree == <<image, todo, splits, decoded>>

Planes == 0..2
f == 2^image.order
N == image.height
Tile == Head(todo)
Side(g) == 2^g
d == Side(Tile.g) * Side(Tile.g)
Scratch == 2048

(* A tile in units of the smallest one, 4x4 samples. *)
Cells(w) == LET k == Side(w.g - 2)
            IN  {<<w.z \div 4 + x, w.l \div 4 + y>> : x, y \in 0..(k - 1)}
CellOf(px) == <<px[1] \div 4, px[2] \div 4>>
-----------------------------------------------------------------------------
(* The contexts of each part of the stream's syntax.  n(c) reads its       *)
(* prefix in c, c + 1, ... and its suffix in context 4.                    *)
Golomb(what, c) == {<<what, c + k>> : k \in 0..MaxPrefix} \cup {<<<<"suffix">>, 4>>}
SplitContext(g) == IF g > 2 /\ g <= 5 THEN {<<<<"split", g>>, g - 3>>} ELSE {}
EndContext(g, I) == {<<<<"end", g, I>>, 61 + g * 2 + I>>}
RunContexts(I) == Golomb(<<"run", I>>, 5 + I * 10)
LevelContextsMixed(I, low) == Golomb(<<"level", I, low>>, 25 + (I + low) * 10)
LevelContexts(I, low) == Golomb(<<"level", I, low>>, 25 + (I + low * 2) * 10)

(* main: the order, the height and the two quantisers, all four by n(5).   *)
Header ==
  /\ pc = "header"
  /\ pc' = "walk"
  /\ todo' = <<[z |-> 0, l |-> 0, g |-> image.order]>>
  /\ read' = RunContexts(0)
  /\ UNCHANGED <<image, splits, q, B, a, wrote, decoded, chunk>>

MustSplit(g) == g > 5
QuadsAlike(w) ==
  [k \in 1..4 |-> [z |-> w.z + ((k - 1) % 2) * Side(w.g - 1),
                   l |-> w.l + ((k - 1) % 2) * Side(w.g - 1), g |-> w.g - 1]]
Quads(w) ==
  [k \in 1..4 |-> [z |-> w.z + ((k - 1) % 2) * Side(w.g - 1),
                   l |-> w.l + ((k - 1) \div 2) * Side(w.g - 1), g |-> w.g - 1]]

(* W calls itself on the four quarters: the stack grows by them.           *)
Split ==
  /\ pc = "walk" /\ todo # <<>> /\ Tile.g > 2
  /\ \/ MustSplit(Tile.g) /\ UNCHANGED splits
     \/ ~MustSplit(Tile.g) /\ splits < image.splits /\ splits' = splits + 1
  /\ todo' = Quads(Tile) \o Tail(todo)
  /\ read' = SplitContext(Tile.g)
  /\ UNCHANGED <<pc, image, q, B, a, wrote, decoded, chunk>>
-----------------------------------------------------------------------------
(* The neighbours of a tile that its prediction reads, by the index into   *)
(* the column on its left or the row above it.                             *)
C(mode) == mode < 17
Slope(mode) == IF C(mode) THEN 9 - mode ELSE mode - 25
(* C's division, for the two negative operands it meets here.              *)
Quotient(h, w) == (-h) \div (-w)
Reflected(h, w) == Quotient(h * 8 - ((-w) \div 2), w) - 2
ClipNot(h, c) == h
Clip(h, c) == IF h < c THEN h ELSE c - 1

Directional(mode, g) ==
  LET c == Side(g)
      w == Slope(mode)
      Neighbour(i, j, nb) ==
        LET h == (i * w + w) \div 8 + j + nb
            k == h < 0
        IN  <<IF k # C(mode) THEN "left" ELSE "above",
              Clip(IF k THEN Reflected(h, w) ELSE h, c)>>
  IN  {Neighbour(i, j, nb) : i, j \in 0..(c - 1), nb \in {0, 1}}

(* One table for all tiles of a size. *)
Neighbours == [mode \in Modes |-> [g \in 2..5 |->
  IF mode = 0 THEN {"left", "above"} \X (0..(Side(g) - 1)) ELSE Directional(mode, g)]]

(* At the picture's border the missing side counts as 0 and is not read;   *)
(* only that side is looked at, whatever the index along it.               *)
PixelsRead ==
  {IF n[1] = "left" THEN <<Tile.z - 1, Tile.l + n[2]>> ELSE <<Tile.z + n[2], Tile.l - 1>> :
     n \in {m \in Neighbours[q][Tile.g] : IF m[1] = "left" THEN Tile.z > 0 ELSE Tile.l > 0}}

(* W on a tile that is not split: its mode, and an empty first plane.      *)
Leaf ==
  /\ pc = "walk" /\ todo # <<>> /\ ~MustSplit(Tile.g)
  /\ q' \in Modes
  /\ pc' = "coefficients" /\ B' = 0 /\ a' = 0
  /\ read' = SplitContext(Tile.g) \cup Golomb(<<"mode">>, 73)
  /\ wrote' = d - 1
  /\ UNCHANGED <<image, todo, splits, decoded, chunk>>

I == IF B > 0 THEN 1 ELSE 0

(* Runs that end at the first index and where the code compares a. *)
Run == {at - a : at \in {k \in {0, d \div 8 - 1, d \div 8, d - 1, d} : k >= a}}
InBlockAlways(k) == TRUE
InBlock(k) == k < d

(* A run of zeros, a sign, and, inside the block, a level. *)
Coefficient ==
  /\ pc = "coefficients" /\ a < d
  /\ \E run \in Run :
       LET at == a + run
           low == IF at < d \div 8 THEN 1 ELSE 0
       IN  /\ a' = at + 1
           /\ wrote' = IF InBlock(at) THEN at ELSE -1
           /\ read' = EndContext(Tile.g, I) \cup RunContexts(I) \cup {<<<<"sign">>, 3>>}
                      \cup (IF InBlock(at) THEN LevelContexts(I, low) ELSE {})
  /\ UNCHANGED <<pc, tree, q, B, chunk>>

(* The loop ends when it has passed the block or the stream says so.       *)
EndOfPlane ==
  /\ pc = "coefficients"
  /\ pc' = "predict"
  /\ read' = IF a < d THEN EndContext(Tile.g, I) ELSE {}
  /\ wrote' = -1
  /\ UNCHANGED <<tree, block, chunk>>

(* Both passes of R through i + d, the neighbours' contribution, and the   *)
(* next plane or the next tile.                                            *)
Predict ==
  /\ pc = "predict"
  /\ decoded' = [decoded EXCEPT ![B] = @ \cup Cells(Tile)]
  /\ read' = {}
  /\ a' = 0
  /\ IF B < 2
     THEN /\ pc' = "coefficients" /\ B' = B + 1
          /\ wrote' = 2 * d - 1
          /\ UNCHANGED <<q, todo>>
     ELSE /\ pc' = "walk" /\ B' = 0 /\ q' = 0
          /\ wrote' = 2 * d - 1
          /\ todo' = Tail(todo)
  /\ UNCHANGED <<image, splits, chunk>>
-----------------------------------------------------------------------------
pp == f * 3 + 1
IdatLengthUnended == 2 + N * (5 + pp)
IdatLength == 2 + N * (5 + pp) + 4

(* PO: the length goes out first, then the type.                           *)
Open(here, length, then) ==
  /\ pc = here /\ pc' = then
  /\ chunk' = [length |-> length, sent |-> 0, row |-> 0, last |-> FALSE]
  /\ read' = {} /\ wrote' = -1
  /\ UNCHANGED <<tree, block>>

Send(bytes) == chunk' = [chunk EXCEPT !.sent = @ + bytes]

(* PE: the CRC of what was sent. *)
Close(here, then) ==
  /\ pc = here /\ pc' = then
  /\ UNCHANGED <<tree, block, read, wrote, chunk>>

OpenIhdr == todo = <<>> /\ Open("walk", 13, "ihdr")
(* P4(f) P4(N), then depth, colour type, and three zeros. *)
Ihdr == /\ pc = "ihdr" /\ pc' = "ihdr_end" /\ Send(4 + 4 + 1 + 1 + 3)
        /\ UNCHANGED <<tree, block, read, wrote>>
OpenIdat == Open("idat", IdatLength, "zlib")
Zlib == /\ pc = "zlib" /\ pc' = "rows" /\ Send(1 + 1)
        /\ UNCHANGED <<tree, block, read, wrote>>
(* A row is one stored block: last flag, LEN, its complement, pp bytes.    *)
Row == /\ pc = "rows" /\ chunk.row < N
       /\ chunk' = [chunk EXCEPT !.sent = @ + 1 + 2 + 2 + 1 + 3 * f,
                                 !.row = @ + 1, !.last = (chunk.row = N - 1)]
       /\ UNCHANGED <<pc, tree, block, read, wrote>>
Adler == /\ pc = "rows" /\ chunk.row = N
         /\ pc' = "idat_end" /\ Send(4)
         /\ UNCHANGED <<tree, block, read, wrote>>
OpenIend == Open("iend", 0, "iend_end")

Png == \/ OpenIhdr \/ Ihdr \/ Close("ihdr_end", "idat")
       \/ OpenIdat \/ Zlib \/ Row \/ Adler \/ Close("idat_end", "iend")
       \/ OpenIend \/ Close("iend_end", "done")

Init ==
  /\ pc = "header" /\ image \in Images /\ todo = <<>> /\ splits = 0
  /\ q = 0 /\ B = 0 /\ a = 0 /\ read = {} /\ wrote = -1
  /\ decoded = [plane \in Planes |-> {}]
  /\ chunk = [length |-> 0, sent |-> 0, row |-> 0, last |-> FALSE]

Next == Header \/ Split \/ Leaf \/ Coefficient \/ EndOfPlane \/ Predict \/ Png
Spec == Init /\ [][Next]_vars
-----------------------------------------------------------------------------
(* The layout the literals in W add up to: every context belongs to one    *)
(* part of the syntax of one size and plane, as two that shared one would  *)
(* spoil each other's statistics, and none is past the 83 that X holds.    *)
(* (The header shares the contexts of luma runs.)                          *)
Owner == [c \in 0..82 |->
  CASE c \in 0..2 -> <<"split", c + 3>> [] c = 3 -> <<"sign">> [] c = 4 -> <<"suffix">>
    [] c \in 5..14 -> <<"run", 0>>       [] c \in 15..24 -> <<"run", 1>>
    [] c \in 25..34 -> <<"level", 0, 0>> [] c \in 35..44 -> <<"level", 1, 0>>
    [] c \in 45..54 -> <<"level", 0, 1>> [] c \in 55..64 -> <<"level", 1, 1>>
    [] c \in 65..72 -> <<"end", (c - 61) \div 2, (c - 61) % 2>>
    [] OTHER -> <<"mode">>]
ContextsApart ==
  \A x \in read : x[2] \in DOMAIN Owner /\ Owner[x[2]] = x[1]

(* The quadtree's tiles and the decoded ones cover each plane without      *)
(* gap or overlap at every moment of the recursion, and a done picture is  *)
(* whole.                                                                  *)
Pending(plane) ==
  IF todo # <<>> /\ pc \in {"coefficients", "predict"} /\ plane < B THEN Tail(todo) ELSE todo
EachSampleOnce ==
  pc # "header" => \A plane \in Planes :
    LET tiles == Pending(plane)
        waiting == UNION {Cells(tiles[k]) : k \in DOMAIN tiles}
        area[k \in 0..Len(tiles)] ==
          IF k = 0 THEN 0 ELSE area[k - 1] + Cardinality(Cells(tiles[k]))
    IN  /\ waiting \cup decoded[plane] = Cells([z |-> 0, l |-> 0, g |-> image.order])
        /\ area[Len(tiles)] + Cardinality(decoded[plane]) = Side(image.order - 2) * Side(image.order - 2)

(* What a tile is predicted from lies in the picture and is decoded in the *)
(* same plane: the recursion's order and the clipping of the index never   *)
(* reach ahead.  The one exception is the sample diagonally above the      *)
(* tile's corner, which the steep modes read as the index -1 of a side     *)
(* that is there, whether or not the other one is: 15 and 16 in the        *)
(* picture's first column, 17 to 19 in its first row.                      *)
CornerMissing(px) ==
  \/ q \in 15..16 /\ Tile.z = 0 /\ px = <<-1, Tile.l - 1>>
  \/ q \in 17..19 /\ Tile.l = 0 /\ px = <<Tile.z - 1, -1>>
NeighboursDecoded ==
  pc = "predict" =>
    \A px \in PixelsRead :
      \/ px[1] \in 0..(f - 1) /\ px[2] \in 0..(f - 1) /\ CellOf(px) \in decoded[B]
      \/ CornerMissing(px)

(* A coefficient never lands in the half of i that R uses as its second    *)
(* buffer, and both halves are inside the array whatever tile is decoded.  *)
ScratchHolds ==
  /\ wrote < Scratch
  /\ pc = "coefficients" /\ a > 0 => wrote < d

(* When a chunk's CRC is written the chunk is as long as was announced;    *)
(* IDAT's stored blocks end with the one marked last.                      *)
ChunksAddUp ==
  /\ pc \in {"ihdr_end", "idat_end", "iend_end"} => chunk.sent = chunk.length
  /\ pc \in {"rows", "idat_end"} => (chunk.last <=> chunk.row = N)
=============================================================================
