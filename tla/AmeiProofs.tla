----------------------------- MODULE AmeiProofs -----------------------------
(***************************************************************************)
(* What Amei's runs check on a few pictures, for every picture: the tiles  *)
(* still to decode are in an order in which none reaches or borders a      *)
(* later one, and together with what is decoded they make up each plane.   *)
(* From that follow that every sample is decoded once and that prediction  *)
(* reads decoded samples only; the scratch array, the contexts and the PNG *)
(* chunks need nothing of it.                                              *)
(*                                                                         *)
(* Last the range decoder whose bits the walk reads: it never loses its    *)
(* code, for every byte size and every halving limit below it.             *)
(* CodeInRange alone is not inductive: that the split is inside the range  *)
(* needs the sum of every context's counters to stay below the limit, and  *)
(* that r does not vanish (RangeInv).                                      *)
(***************************************************************************)
EXTENDS Amei, RangeDecoder, Facts, FiniteSetTheorems

(* The sides of the tiles, down to the smallest cell. *)
LEMMA SideIs ==
  /\ Side(0) = 1 /\ Side(1) = 2 /\ Side(2) = 4 /\ Side(3) = 8 /\ Side(4) = 16 /\ Side(5) = 32
  /\ Side(6) = 64 /\ Side(7) = 128 /\ Side(8) = 256 /\ Side(9) = 512 /\ Side(10) = 1024
BY DEF Side

LEMMA SidesDouble ==
  /\ \A g \in 0 .. 10 : Side(g) \in Nat \ {0}
  /\ \A g \in 1 .. 10 : Side(g) = 2 * Side(g - 1)
  /\ \A g \in 2 .. 10 : Side(g) = 4 * Side(g - 2)
<1>1. ASSUME NEW g \in 0 .. 10 PROVE Side(g) \in Nat \ {0}
  <2>1. g \in {0, 1, 2, 3, 4, 5, 6, 7, 8, 9, 10}
    OBVIOUS
  <2> QED BY <2>1, SideIs
<1>2. ASSUME NEW g \in 1 .. 10 PROVE Side(g) = 2 * Side(g - 1)
  <2>1. g \in {1, 2, 3, 4, 5, 6, 7, 8, 9, 10}
    OBVIOUS
  <2>2. /\ Side(1) = 2 * Side(1 - 1) /\ Side(2) = 2 * Side(2 - 1) /\ Side(3) = 2 * Side(3 - 1)
        /\ Side(4) = 2 * Side(4 - 1) /\ Side(5) = 2 * Side(5 - 1) /\ Side(6) = 2 * Side(6 - 1)
        /\ Side(7) = 2 * Side(7 - 1) /\ Side(8) = 2 * Side(8 - 1) /\ Side(9) = 2 * Side(9 - 1)
        /\ Side(10) = 2 * Side(10 - 1)
    BY SideIs
  <2> QED BY <2>1, <2>2
<1>3. ASSUME NEW g \in 2 .. 10 PROVE Side(g) = 4 * Side(g - 2)
  <2>1. g - 1 \in 1 .. 10 /\ (g - 1) - 1 = g - 2 /\ g \in 1 .. 10 /\ g - 2 \in 0 .. 10
    OBVIOUS
  <2>2. Side(g) = 2 * Side(g - 1) /\ Side(g - 1) = 2 * Side(g - 2) /\ Side(g - 2) \in Nat
    BY <1>1, <1>2, <2>1
  <2> QED BY <2>2
<1> QED BY <1>1, <1>2, <1>3

----------------------------------------------------------------------------
(* The walk.                                                               *)

Tiles == [z : Nat, l : Nat, g : 2 .. 10]
InTile == pc \in {"coefficients", "predict"}

Flow ==
  /\ image \in Images /\ todo \in Seq(Tiles) /\ B \in 0 .. 2 /\ a \in Nat
  /\ InTile => todo # <<>> /\ Tile.g \in 2 .. 5 /\ q \in Modes

LEMMA ImageIs ==
  ASSUME image \in Images
  PROVE  /\ image.order \in 2 .. 10 /\ f = Side(image.order) /\ f \in Nat \ {0} /\ N \in Nat \ {0}
<1>1. image.order \in 2 .. 10 /\ image.height \in 1 .. 2^image.order
  BY StreamAssumption
<1>2. f = Side(image.order)
  BY DEF f, Side
<1>3. f \in Nat \ {0}
  BY <1>1, <1>2, SidesDouble
<1>4. 2^image.order = f
  BY DEF f
<1>5. N \in Nat \ {0}
  BY <1>1, <1>3, <1>4 DEF N
<1> QED BY <1>1, <1>2, <1>3, <1>5

LEMMA HeadIs ==
  ASSUME todo \in Seq(Tiles), todo # <<>>
  PROVE  /\ Tile \in Tiles /\ Tail(todo) \in Seq(Tiles) /\ Len(todo) \in Nat \ {0}
         /\ Tile = todo[1] /\ Len(Tail(todo)) = Len(todo) - 1
         /\ \A k \in 1 .. Len(todo) - 1 : Tail(todo)[k] = todo[k + 1]
<1>1. /\ Head(todo) \in Tiles /\ Tail(todo) \in Seq(Tiles) /\ Len(Tail(todo)) = Len(todo) - 1
      /\ \A k \in 1 .. Len(Tail(todo)) : Tail(todo)[k] = todo[k + 1]
  BY HeadTailProperties
<1>2. Len(todo) \in Nat \ {0} /\ Head(todo) = todo[1]
  OBVIOUS
<1> QED BY <1>1, <1>2 DEF Tile

LEMMA IsSequence ==
  ASSUME NEW S, NEW L \in Nat, NEW s \in [1 .. L -> S]
  PROVE  s \in Seq(S) /\ Len(s) = L
OBVIOUS

(* The four quarters of a tile. *)
LEMMA QuadsAre ==
  ASSUME NEW w \in Tiles, w.g > 2
  PROVE  /\ Quads(w) \in Seq(Tiles) /\ Len(Quads(w)) = 4 /\ Side(w.g - 1) \in Nat
         /\ \A k \in 1 .. 4 :
              /\ Quads(w)[k] \in Tiles /\ Quads(w)[k].g = w.g - 1
              /\ Quads(w)[k].z = w.z + (IF k \in {2, 4} THEN Side(w.g - 1) ELSE 0)
              /\ Quads(w)[k].l = w.l + (IF k \in {3, 4} THEN Side(w.g - 1) ELSE 0)
<1>1. w.g \in 3 .. 10 /\ w.g - 1 \in 0 .. 10 /\ w.g - 1 \in 2 .. 10 /\ w.z \in Nat /\ w.l \in Nat
  BY DEF Tiles
<1>2. PICK h : h = Side(w.g - 1) /\ h \in Nat
  BY <1>1, SidesDouble
<1>3. ASSUME NEW k \in 1 .. 4
      PROVE  /\ w.z + ((k - 1) % 2) * h = w.z + (IF k \in {2, 4} THEN h ELSE 0)
             /\ w.l + ((k - 1) \div 2) * h = w.l + (IF k \in {3, 4} THEN h ELSE 0)
  <2>1. k \in {1, 2, 3, 4}
    OBVIOUS
  <2> QED BY <1>1, <1>2, <2>1
<1>4. ASSUME NEW k \in 1 .. 4
      PROVE  Quads(w)[k] = [z |-> w.z + (IF k \in {2, 4} THEN h ELSE 0),
                            l |-> w.l + (IF k \in {3, 4} THEN h ELSE 0), g |-> w.g - 1]
  BY <1>2, <1>3 DEF Quads
<1>5. \A k \in 1 .. 4 : Quads(w)[k] \in Tiles
  BY <1>1, <1>2, <1>4 DEF Tiles
<1>6. Quads(w) \in Seq(Tiles) /\ Len(Quads(w)) = 4
  <2>1. Quads(w) \in [1 .. 4 -> Tiles] /\ 4 \in Nat
    BY <1>5 DEF Quads
  <2> QED BY <2>1, IsSequence
<1> QED BY <1>2, <1>4, <1>5, <1>6

(* The calls after a split. *)
LEMMA SplitIs ==
  ASSUME todo \in Seq(Tiles), todo # <<>>, Tile.g > 2
  PROVE  LET s == Quads(Tile) \o Tail(todo)
         IN  /\ s \in Seq(Tiles) /\ Len(s) = Len(todo) + 3
             /\ \A k \in 1 .. 4 : s[k] = Quads(Tile)[k]
             /\ \A k \in 5 .. Len(todo) + 3 : s[k] = todo[k - 3] /\ k - 3 \in 2 .. Len(todo)
<1> DEFINE s == Quads(Tile) \o Tail(todo)
<1>1. /\ Tile \in Tiles /\ Tail(todo) \in Seq(Tiles) /\ Len(todo) \in Nat \ {0}
      /\ Len(Tail(todo)) = Len(todo) - 1
      /\ \A k \in 1 .. Len(todo) - 1 : Tail(todo)[k] = todo[k + 1]
  BY HeadIs
<1>2. Quads(Tile) \in Seq(Tiles) /\ Len(Quads(Tile)) = 4
  BY <1>1, QuadsAre
<1>3. /\ s \in Seq(Tiles) /\ Len(s) = 4 + (Len(todo) - 1)
      /\ \A k \in 1 .. 4 + (Len(todo) - 1) : s[k] = IF k <= 4 THEN Quads(Tile)[k] ELSE Tail(todo)[k - 4]
  <2>1. /\ s \in Seq(Tiles) /\ Len(s) = Len(Quads(Tile)) + Len(Tail(todo))
        /\ \A k \in 1 .. Len(Quads(Tile)) + Len(Tail(todo)) :
             s[k] = IF k <= Len(Quads(Tile)) THEN Quads(Tile)[k] ELSE Tail(todo)[k - Len(Quads(Tile))]
    BY <1>1, <1>2, ConcatProperties
  <2> HIDE DEF s
  <2> QED BY <1>1, <1>2, <2>1
<1> HIDE DEF s
<1>4. ASSUME NEW k \in 1 .. 4 PROVE s[k] = Quads(Tile)[k]
  BY <1>1, <1>3
<1>5. ASSUME NEW k \in 5 .. Len(todo) + 3 PROVE s[k] = todo[k - 3] /\ k - 3 \in 2 .. Len(todo)
  <2>1. k - 4 \in 1 .. Len(todo) - 1 /\ k \in 1 .. 4 + (Len(todo) - 1) /\ ~(k <= 4) /\ (k - 4) + 1 = k - 3
    BY <1>1
  <2> QED BY <1>1, <1>3, <2>1
<1> QED BY <1>1, <1>3, <1>4, <1>5 DEF s

LEMMA FlowInit == Init => Flow
<1> SUFFICES ASSUME Init PROVE Flow
  OBVIOUS
<1>1. todo \in Seq(Tiles)
  BY DEF Init
<1> QED BY <1>1 DEF Init, Flow, InTile

LEMMA FlowKept ==
  ASSUME Flow, [Next]_vars PROVE Flow'
<1>0. /\ image \in Images /\ todo \in Seq(Tiles) /\ B \in 0 .. 2 /\ a \in Nat
  BY DEF Flow
<1>1. CASE Header
  <2>1. [z |-> 0, l |-> 0, g |-> image.order] \in Tiles
    BY <1>0, ImageIs DEF Tiles
  <2>2. todo' \in Seq(Tiles)
    BY <1>1, <2>1 DEF Header
  <2> QED BY <1>0, <1>1, <2>2 DEF Header, Flow, InTile
<1>2. CASE Split
  <2>1. todo' \in Seq(Tiles)
    BY <1>0, <1>2, SplitIs DEF Split
  <2> QED BY <1>0, <1>2, <2>1 DEF Split, Flow, InTile
<1>3. CASE Leaf
  <2>1. q' \in Modes
    BY <1>3 DEF Leaf
  <2>2. Tile' = Tile /\ todo' # <<>> /\ todo' \in Seq(Tiles) /\ image' \in Images
    BY <1>0, <1>3 DEF Leaf, Tile
  <2>3. Tile.g \in 2 .. 5
    BY <1>0, <1>3, HeadIs DEF Leaf, MustSplit, Tiles
  <2>4. B' \in 0 .. 2 /\ a' \in Nat
    BY <1>3 DEF Leaf
  <2> QED BY <2>1, <2>2, <2>3, <2>4 DEF Flow
<1>4. CASE Coefficient
  <2>1. Tile' = Tile /\ todo' = todo /\ q' = q /\ B' = B /\ image' = image /\ InTile /\ InTile'
    BY <1>4 DEF Coefficient, Tile, tree, InTile
  <2>2. a' \in Nat
    <3>1. PICK run \in Run : a' = (a + run) + 1
      BY <1>4 DEF Coefficient
    <3>2. d \in Nat
      <4>1. Tile.g \in 0 .. 10
        BY <2>1 DEF Flow
      <4>2. Side(Tile.g) \in Nat
        BY <4>1, SidesDouble
      <4> QED BY <4>2 DEF d
    <3>3. run \in Nat
      BY <1>0, <3>2 DEF Run
    <3> QED BY <1>0, <3>1, <3>3
  <2>3. q' \in Modes
    BY <2>1 DEF Flow
  <2> QED BY <1>0, <2>1, <2>2, <2>3 DEF Flow
<1>5. CASE EndOfPlane
  <2>1. Tile' = Tile /\ UNCHANGED <<image, todo, q, B, a>> /\ InTile
    BY <1>5 DEF EndOfPlane, Tile, tree, block, InTile
  <2>2. InTile => q' \in Modes
    BY <2>1 DEF Flow
  <2> QED BY <1>0, <2>1, <2>2 DEF Flow
<1>6. CASE Predict
  <2>0. InTile /\ todo # <<>> /\ image' = image
    BY <1>6 DEF Predict, InTile, Flow
  <2>1. CASE B < 2
    <3>1. Tile' = Tile /\ todo' = todo /\ q' = q /\ B' = B + 1 /\ a' = 0
      BY <1>6, <2>1 DEF Predict, Tile
    <3>2. q' \in Modes
      BY <2>0, <3>1 DEF Flow
    <3> QED BY <1>0, <2>0, <2>1, <3>1, <3>2 DEF Flow
  <2>2. CASE ~(B < 2)
    <3>1. pc' = "walk" /\ B' = 0 /\ a' = 0 /\ todo' = Tail(todo)
      BY <1>6, <2>2 DEF Predict
    <3>2. todo' \in Seq(Tiles)
      BY <1>0, <2>0, <3>1, HeadIs
    <3> QED BY <1>0, <2>0, <3>1, <3>2 DEF Flow, InTile
  <2> QED BY <2>1, <2>2
<1>7. CASE Png
  <2>1. UNCHANGED <<image, todo, q, B, a>> /\ ~(InTile')
    BY <1>7 DEF Png, OpenIhdr, Ihdr, Close, OpenIdat, Zlib, Row, Adler, OpenIend, Open, tree, block, InTile
  <2> QED BY <1>0, <2>1 DEF Flow
<1>8. CASE UNCHANGED vars
  <2>1. UNCHANGED <<image, todo, q, B, a>> /\ Tile' = Tile /\ InTile' = InTile
    BY <1>8 DEF vars, Tile, InTile
  <2>2. InTile => q' \in Modes
    BY <2>1 DEF Flow
  <2> QED BY <1>0, <2>1, <2>2 DEF Flow
<1> QED BY <1>1, <1>2, <1>3, <1>4, <1>5, <1>6, <1>7, <1>8 DEF Next

LEMMA AlwaysFlow == Spec => []Flow
BY FlowInit, FlowKept, PTL DEF Spec

----------------------------------------------------------------------------
(* The scratch array.                                                      *)

LEMMA AreaIs ==
  ASSUME Tile.g \in 2 .. 5
  PROVE  d \in 16 .. 1024
<1>1. Tile.g \in {2, 3, 4, 5}
  OBVIOUS
<1>2. Side(Tile.g) \in {4, 8, 16, 32}
  BY <1>1, SideIs
<1> QED BY <1>2 DEF d

ScratchInv == wrote \in Int /\ ScratchHolds

LEMMA ScratchKept ==
  ASSUME Flow, ScratchInv, [Next]_vars PROVE ScratchInv'
<1>0. wrote \in Int /\ wrote < 2048
  BY DEF ScratchInv, ScratchHolds, Scratch
<1>1. CASE Header
  BY <1>0, <1>1 DEF Header, ScratchInv, ScratchHolds, Scratch
<1>2. CASE Split
  BY <1>0, <1>2 DEF Split, ScratchInv, ScratchHolds, Scratch
<1>3. CASE Leaf
  <2>1. Tile.g \in 2 .. 5
    BY <1>3, HeadIs DEF Flow, Leaf, MustSplit, Tiles
  <2>2. wrote' = d - 1 /\ a' = 0
    BY <1>3 DEF Leaf
  <2>3. wrote' \in Int /\ wrote' < 2048
    BY <2>1, <2>2, AreaIs
  <2> QED BY <2>2, <2>3 DEF ScratchInv, ScratchHolds, Scratch
<1>4. CASE Coefficient
  <2>1. Tile.g \in 2 .. 5 /\ d' = d
    BY <1>4 DEF Flow, InTile, Coefficient, tree, d, Tile
  <2>2. PICK run \in Run : wrote' = IF InBlock(a + run) THEN a + run ELSE -1
    BY <1>4 DEF Coefficient
  <2>3. d \in 16 .. 1024
    BY <2>1, AreaIs
  <2>4. a \in Nat /\ a + run \in Int
    BY <2>3 DEF Flow, Run
  <2>5. wrote' \in Int /\ wrote' < d
    BY <2>2, <2>3, <2>4 DEF InBlock
  <2> QED BY <2>1, <2>3, <2>5 DEF ScratchInv, ScratchHolds, Scratch
<1>5. CASE EndOfPlane
  BY <1>5 DEF EndOfPlane, ScratchInv, ScratchHolds, Scratch
<1>6. CASE Predict
  <2>1. Tile.g \in 2 .. 5
    BY <1>6 DEF Flow, InTile, Predict
  <2>2. wrote' = 2 * d - 1 /\ a' = 0
    BY <1>6 DEF Predict
  <2>3. d \in 16 .. 1024
    BY <2>1, AreaIs
  <2>4. wrote' \in Int /\ wrote' < 2048
    BY <2>2, <2>3
  <2> QED BY <2>2, <2>4 DEF ScratchInv, ScratchHolds, Scratch
<1>7. CASE Png
  <2>1. pc' # "coefficients" /\ wrote' \in {wrote, -1}
    BY <1>7 DEF Png, OpenIhdr, Ihdr, Close, OpenIdat, Zlib, Row, Adler, OpenIend, Open
  <2> QED BY <1>0, <2>1 DEF ScratchInv, ScratchHolds, Scratch
<1>8. CASE UNCHANGED vars
  BY <1>8 DEF vars, ScratchInv, ScratchHolds, Scratch, d, Tile
<1> QED BY <1>1, <1>2, <1>3, <1>4, <1>5, <1>6, <1>7, <1>8 DEF Next

(* static int i[2048] (amei.original.c): whatever the stream says, no step    *)
(* writes past it, and no coefficient of a tile is written into the half R    *)
(* uses as its second buffer.                                                 *)
THEOREM ScratchIsEnough == Spec => []ScratchHolds
<1>1. Init => ScratchInv
  BY DEF Init, ScratchInv, ScratchHolds, Scratch
<1>2. Flow /\ Flow' /\ ScratchInv /\ [Next]_vars => ScratchInv'
  BY ScratchKept
<1>3. ScratchInv => ScratchHolds
  BY DEF ScratchInv
<1> QED BY <1>1, <1>2, <1>3, AlwaysFlow, PTL DEF Spec

----------------------------------------------------------------------------
(* The PNG chunks.                                                         *)

(* What was announced, and what has been sent of it so far. *)
ChunkInv ==
  /\ chunk \in [length : Int, sent : Int, row : Int, last : BOOLEAN]
  /\ pc = "ihdr" => chunk.length = 13 /\ chunk.sent = 0
  /\ pc = "zlib" => chunk.length = IdatLength /\ chunk.sent = 0 /\ chunk.row = 0 /\ ~chunk.last
  /\ pc = "rows" => chunk.length = IdatLength /\ chunk.row \in 0 .. N
                    /\ chunk.sent = 2 + chunk.row * (5 + pp)
  /\ ChunksAddUp

LEMMA ChunksKept ==
  ASSUME Flow, ChunkInv, [Next]_vars PROVE ChunkInv'
<1>0. /\ chunk \in [length : Int, sent : Int, row : Int, last : BOOLEAN]
      /\ N \in Nat \ {0} /\ f \in Nat /\ pp \in Nat /\ N * (5 + pp) \in Nat /\ IdatLength \in Nat
      /\ IdatLength = 2 + N * (5 + pp) + 4
  <2>1. N \in Nat \ {0} /\ f \in Nat
    BY ImageIs DEF Flow
  <2>2. pp \in Nat
    BY <2>1 DEF pp
  <2>3. N * (5 + pp) \in Nat
    BY <2>1, <2>2
  <2> QED BY <2>1, <2>2, <2>3 DEF IdatLength, ChunkInv
<1>1. CASE Png
  <2>1. image' = image
    BY <1>1 DEF Png, OpenIhdr, Ihdr, Close, OpenIdat, Zlib, Row, Adler, OpenIend, Open, tree
  <2>2. N' = N /\ f' = f /\ pp' = pp /\ IdatLength' = IdatLength
    BY <2>1 DEF N, f, pp, IdatLength
  <2>3. CASE OpenIhdr
    BY <2>3 DEF OpenIhdr, Open, ChunkInv, ChunksAddUp
  <2>4. CASE Ihdr
    BY <1>0, <2>4 DEF Ihdr, Send, ChunkInv, ChunksAddUp
  <2>5. CASE Close("ihdr_end", "idat")
    BY <1>0, <2>5 DEF Close, ChunkInv, ChunksAddUp
  <2>6. CASE OpenIdat
    BY <1>0, <2>2, <2>6 DEF OpenIdat, Open, ChunkInv, ChunksAddUp
  <2>7. CASE Zlib
    <3>1. /\ chunk' = [chunk EXCEPT !.sent = 0 + 2] /\ pc' = "rows" /\ pc = "zlib"
          /\ chunk.length = IdatLength /\ chunk.row = 0 /\ ~chunk.last
      BY <2>7 DEF Zlib, Send, ChunkInv
    <3>2. /\ chunk' \in [length : Int, sent : Int, row : Int, last : BOOLEAN]
          /\ chunk'.length = IdatLength /\ chunk'.row = 0 /\ ~chunk'.last /\ chunk'.sent = 2
      BY <1>0, <3>1
    <3>3. 2 = 2 + 0 * (5 + pp) /\ 0 \in 0 .. N /\ 0 # N
      BY <1>0
    <3> QED BY <2>2, <3>1, <3>2, <3>3 DEF ChunkInv, ChunksAddUp
  <2>8. CASE Row
    <3>1. /\ pc = "rows" /\ pc' = "rows" /\ chunk.row < N
          /\ chunk' = [chunk EXCEPT !.sent = @ + 1 + 2 + 2 + 1 + 3 * f,
                                    !.row = @ + 1, !.last = (chunk.row = N - 1)]
          /\ chunk.length = IdatLength /\ chunk.row \in 0 .. N
          /\ chunk.sent = 2 + chunk.row * (5 + pp)
      BY <2>8 DEF Row, ChunkInv
    <3>2. /\ chunk' \in [length : Int, sent : Int, row : Int, last : BOOLEAN]
          /\ chunk'.length = IdatLength /\ chunk'.row = chunk.row + 1
          /\ chunk'.last = (chunk.row = N - 1)
          /\ chunk'.sent = chunk.sent + 1 + 2 + 2 + 1 + 3 * f
      <4>1. PICK x \in Int : x = chunk.sent + 1 + 2 + 2 + 1 + 3 * f
        BY <1>0
      <4>2. PICK y \in BOOLEAN : y = (chunk.row = N - 1)
        OBVIOUS
      <4>3. chunk' = [chunk EXCEPT !.sent = x, !.row = chunk.row + 1, !.last = y]
        BY <3>1, <4>1, <4>2, Zenon
      <4>4. chunk.row + 1 \in Int
        BY <1>0
      <4>5. /\ chunk' \in [length : Int, sent : Int, row : Int, last : BOOLEAN]
            /\ chunk'.length = chunk.length /\ chunk'.row = chunk.row + 1
            /\ chunk'.last = y /\ chunk'.sent = x
        BY <1>0, <4>3, <4>4
      <4> QED BY <3>1, <4>1, <4>2, <4>5, Zenon
    <3>3. chunk.row \in Nat /\ chunk.row + 1 \in 0 .. N /\ (chunk.row = N - 1 <=> chunk.row + 1 = N)
      BY <1>0, <3>1
    <3>4. chunk'.sent = 2 + (chunk.row + 1) * (5 + pp)
      <4>1. PICK row \in Nat : row = chunk.row
        BY <3>3
      <4>2. PICK b \in Nat : b = 5 + pp
        BY <1>0
      <4>3. row * b \in Nat /\ (row + 1) * b = row * b + b
        BY <4>1, <4>2
      <4>4. 1 + 2 + 2 + 1 + 3 * f = b
        BY <1>0, <4>2 DEF pp
      <4>5. chunk'.sent = 2 + row * b + b
        BY <1>0, <3>1, <3>2, <4>1, <4>2, <4>3, <4>4
      <4> QED BY <4>1, <4>2, <4>3, <4>5
    <3> QED BY <2>2, <3>1, <3>2, <3>3, <3>4 DEF ChunkInv, ChunksAddUp
  <2>9. CASE Adler
    <3>1. /\ pc = "rows" /\ pc' = "idat_end" /\ chunk.row = N
          /\ chunk' = [chunk EXCEPT !.sent = @ + 4]
          /\ chunk.length = IdatLength /\ chunk.sent = 2 + N * (5 + pp) /\ chunk.last
      BY <2>9 DEF Adler, Send, ChunkInv, ChunksAddUp
    <3>2. /\ chunk' \in [length : Int, sent : Int, row : Int, last : BOOLEAN]
          /\ chunk'.length = IdatLength /\ chunk'.row = N /\ chunk'.last
          /\ chunk'.sent = (2 + N * (5 + pp)) + 4
      BY <1>0, <3>1
    <3> QED BY <1>0, <2>2, <3>1, <3>2 DEF ChunkInv, ChunksAddUp
  <2>10. CASE Close("idat_end", "iend")
    BY <1>0, <2>10 DEF Close, ChunkInv, ChunksAddUp
  <2>11. CASE OpenIend
    BY <2>11 DEF OpenIend, Open, ChunkInv, ChunksAddUp
  <2>12. CASE Close("iend_end", "done")
    BY <1>0, <2>12 DEF Close, ChunkInv, ChunksAddUp
  <2> QED BY <1>1, <2>3, <2>4, <2>5, <2>6, <2>7, <2>8, <2>9, <2>10, <2>11, <2>12 DEF Png
<1>2. CASE Header \/ Split \/ Leaf \/ Coefficient \/ EndOfPlane \/ Predict
  <2>1. chunk' = chunk /\ pc' \in {"walk", "coefficients", "predict"}
    BY <1>2 DEF Header, Split, Leaf, Coefficient, EndOfPlane, Predict
  <2> QED BY <1>0, <2>1 DEF ChunkInv, ChunksAddUp
<1>3. CASE UNCHANGED vars
  <2>1. UNCHANGED <<image, pc, chunk>>
    BY <1>3 DEF vars
  <2> QED BY <2>1 DEF ChunkInv, ChunksAddUp, IdatLength, N, pp, f
<1> QED BY <1>1, <1>2, <1>3 DEF Next

(* The streaming PNG writer (amei.original.c, main): for a picture of any size *)
(* every chunk is as long as the length written before it, and IDAT's last     *)
(* stored block, and no other, is marked as the last.                          *)
THEOREM ChunksAreWhole == Spec => []ChunksAddUp
<1>1. Init => ChunkInv
  BY DEF Init, ChunkInv, ChunksAddUp
<1>2. Flow /\ Flow' /\ ChunkInv /\ [Next]_vars => ChunkInv'
  BY ChunksKept
<1>3. ChunkInv => ChunksAddUp
  BY DEF ChunkInv
<1> QED BY <1>1, <1>2, <1>3, AlwaysFlow, PTL DEF Spec

----------------------------------------------------------------------------
(* The contexts.                                                           *)

Apart(reads) == \A x \in reads : x[2] \in 0 .. 82 /\ Owner[x[2]] = x[1]

LEMMA OwnersAre ==
  /\ \A c \in 0 .. 2 : Owner[c] = <<"split", c + 3>>
  /\ Owner[3] = <<"sign">> /\ Owner[4] = <<"suffix">>
  /\ \A c \in 5 .. 14 : Owner[c] = <<"run", 0>>
  /\ \A c \in 15 .. 24 : Owner[c] = <<"run", 1>>
  /\ \A c \in 25 .. 34 : Owner[c] = <<"level", 0, 0>>
  /\ \A c \in 35 .. 44 : Owner[c] = <<"level", 1, 0>>
  /\ \A c \in 45 .. 54 : Owner[c] = <<"level", 0, 1>>
  /\ \A c \in 55 .. 64 : Owner[c] = <<"level", 1, 1>>
  /\ \A c \in 65 .. 72 : Owner[c] = <<"end", (c - 61) \div 2, (c - 61) % 2>>
  /\ \A c \in 73 .. 82 : Owner[c] = <<"mode">>
<1>1. ASSUME NEW c \in 0 .. 2 PROVE Owner[c] = <<"split", c + 3>>
  BY DEF Owner
<1>2. Owner[3] = <<"sign">> /\ Owner[4] = <<"suffix">>
  BY DEF Owner
<1>3. ASSUME NEW c \in 5 .. 14 PROVE Owner[c] = <<"run", 0>>
  BY DEF Owner
<1>4. ASSUME NEW c \in 15 .. 24 PROVE Owner[c] = <<"run", 1>>
  BY DEF Owner
<1>5. ASSUME NEW c \in 25 .. 34 PROVE Owner[c] = <<"level", 0, 0>>
  BY DEF Owner
<1>6. ASSUME NEW c \in 35 .. 44 PROVE Owner[c] = <<"level", 1, 0>>
  BY DEF Owner
<1>7. ASSUME NEW c \in 45 .. 54 PROVE Owner[c] = <<"level", 0, 1>>
  BY DEF Owner
<1>8. ASSUME NEW c \in 55 .. 64 PROVE Owner[c] = <<"level", 1, 1>>
  BY DEF Owner
<1>9. ASSUME NEW c \in 65 .. 72 PROVE Owner[c] = <<"end", (c - 61) \div 2, (c - 61) % 2>>
  BY DEF Owner
<1>10. ASSUME NEW c \in 73 .. 82 PROVE Owner[c] = <<"mode">>
  BY SMTT(30) DEF Owner
<1> QED BY <1>1, <1>2, <1>3, <1>4, <1>5, <1>6, <1>7, <1>8, <1>9, <1>10

(* A code whose prefix has ten contexts of its own from c on. *)
LEMMA GolombApart ==
  ASSUME MaxPrefix <= 9, NEW what, NEW c \in 5 .. 73, \A at \in c .. c + 9 : Owner[at] = what
  PROVE  Apart(Golomb(what, c))
<1>1. MaxPrefix \in Nat
  BY StreamAssumption
<1>2. ASSUME NEW k \in 0 .. MaxPrefix PROVE Apart({<<what, c + k>>})
  <2>1. c + k \in c .. c + 9 /\ c + k \in 0 .. 82
    BY <1>1
  <2> QED BY <2>1 DEF Apart
<1>3. Apart({<<<<"suffix">>, 4>>})
  BY OwnersAre, SMTT(30) DEF Apart
<1> QED BY <1>2, <1>3 DEF Apart, Golomb

LEMMA ContextsAre ==
  ASSUME MaxPrefix <= 9
  PROVE  /\ Apart({}) /\ Apart({<<<<"sign">>, 3>>}) /\ Apart(Golomb(<<"mode">>, 73))
         /\ \A g \in 0 .. 10 : Apart(SplitContext(g))
         /\ \A g \in 2 .. 5, c \in {0, 1} : Apart(EndContext(g, c))
         /\ \A c \in {0, 1} : Apart(RunContexts(c))
         /\ \A c, low \in {0, 1} : Apart(LevelContexts(c, low))
<1>1. Apart({}) /\ Apart({<<<<"sign">>, 3>>})
  BY OwnersAre DEF Apart
<1>2. Apart(Golomb(<<"mode">>, 73))
  <2>1. \A at \in 73 .. 73 + 9 : Owner[at] = <<"mode">>
    BY OwnersAre
  <2> QED BY <2>1, GolombApart
<1>3. ASSUME NEW g \in 0 .. 10 PROVE Apart(SplitContext(g))
  <2>1. CASE g > 2 /\ g <= 5
    <3>1. g - 3 \in 0 .. 2 /\ (g - 3) + 3 = g /\ g - 3 \in 0 .. 82
      BY <2>1
    <3>2. Owner[g - 3] = <<"split", g>>
      BY <3>1, OwnersAre
    <3> QED BY <2>1, <3>1, <3>2 DEF Apart, SplitContext
  <2>2. CASE ~(g > 2 /\ g <= 5)
    BY <2>2 DEF Apart, SplitContext
  <2> QED BY <2>1, <2>2
<1>4. ASSUME NEW g \in 2 .. 5, NEW c \in {0, 1} PROVE Apart(EndContext(g, c))
  <2>1. PICK at : at = 61 + g * 2 + c
    OBVIOUS
  <2>2. at \in 65 .. 72 /\ at \in 0 .. 82 /\ (at - 61) \div 2 = g /\ (at - 61) % 2 = c
    BY <2>1
  <2>3. Owner[at] = <<"end", g, c>>
    BY <2>2, OwnersAre
  <2> QED BY <2>1, <2>2, <2>3 DEF Apart, EndContext
<1>5. ASSUME NEW c \in {0, 1} PROVE Apart(RunContexts(c))
  <2>0. Apart(Golomb(<<"run", 0>>, 5))
    <3>1. \A at \in 5 .. 5 + 9 : Owner[at] = <<"run", 0>>
      BY OwnersAre
    <3> QED BY <3>1, GolombApart
  <2>1. Apart(Golomb(<<"run", 1>>, 15))
    <3>1. \A at \in 15 .. 15 + 9 : Owner[at] = <<"run", 1>>
      BY OwnersAre
    <3> QED BY <3>1, GolombApart
  <2>2. RunContexts(0) = Golomb(<<"run", 0>>, 5) /\ RunContexts(1) = Golomb(<<"run", 1>>, 15)
    BY DEF RunContexts
  <2> QED BY <2>0, <2>1, <2>2
<1>6. ASSUME NEW c \in {0, 1}, NEW low \in {0, 1} PROVE Apart(LevelContexts(c, low))
  <2>1. Apart(Golomb(<<"level", 0, 0>>, 25))
    <3>1. \A at \in 25 .. 25 + 9 : Owner[at] = <<"level", 0, 0>>
      BY OwnersAre
    <3> QED BY <3>1, GolombApart
  <2>2. Apart(Golomb(<<"level", 1, 0>>, 35))
    <3>1. \A at \in 35 .. 35 + 9 : Owner[at] = <<"level", 1, 0>>
      BY OwnersAre
    <3> QED BY <3>1, GolombApart
  <2>3. Apart(Golomb(<<"level", 0, 1>>, 45))
    <3>1. \A at \in 45 .. 45 + 9 : Owner[at] = <<"level", 0, 1>>
      BY OwnersAre
    <3> QED BY <3>1, GolombApart
  <2>4. Apart(Golomb(<<"level", 1, 1>>, 55))
    <3>1. \A at \in 55 .. 55 + 9 : Owner[at] = <<"level", 1, 1>>
      BY OwnersAre
    <3> QED BY <3>1, GolombApart
  <2>5. /\ LevelContexts(0, 0) = Golomb(<<"level", 0, 0>>, 25)
        /\ LevelContexts(1, 0) = Golomb(<<"level", 1, 0>>, 35)
        /\ LevelContexts(0, 1) = Golomb(<<"level", 0, 1>>, 45)
        /\ LevelContexts(1, 1) = Golomb(<<"level", 1, 1>>, 55)
    BY DEF LevelContexts
  <2> QED BY <2>1, <2>2, <2>3, <2>4, <2>5
<1> QED BY <1>1, <1>2, <1>3, <1>4, <1>5, <1>6

LEMMA ApartUnion ==
  ASSUME NEW ctx, NEW s, Apart(ctx), Apart(s)
  PROVE  Apart(ctx \cup s)
BY DEF Apart

LEMMA ContextsKept ==
  ASSUME MaxPrefix <= 9, Flow, Apart(read), [Next]_vars PROVE Apart(read')
<1>0. I \in {0, 1}
  BY DEF I
<1>1. CASE Header
  BY <1>1, ContextsAre DEF Header
<1>2. CASE Split
  <2>1. Tile.g \in 0 .. 10
    BY <1>2, HeadIs DEF Flow, Split, Tiles
  <2> QED BY <1>2, <2>1, ContextsAre DEF Split
<1>3. CASE Leaf
  <2>1. Tile.g \in 0 .. 10
    BY <1>3, HeadIs DEF Flow, Leaf, Tiles
  <2>2. Apart(SplitContext(Tile.g)) /\ Apart(Golomb(<<"mode">>, 73))
    BY <2>1, ContextsAre
  <2>3. read' = SplitContext(Tile.g) \cup Golomb(<<"mode">>, 73)
    BY <1>3 DEF Leaf
  <2> QED BY <2>2, <2>3, ApartUnion
<1>4. CASE Coefficient
  <2>1. Tile.g \in 2 .. 5
    BY <1>4 DEF Flow, InTile, Coefficient
  <2>2. PICK at : \E low \in {0, 1} :
               read' = EndContext(Tile.g, I) \cup RunContexts(I) \cup {<<<<"sign">>, 3>>}
                       \cup (IF InBlock(at) THEN LevelContexts(I, low) ELSE {})
    BY <1>4 DEF Coefficient
  <2>3. PICK low \in {0, 1} :
               read' = EndContext(Tile.g, I) \cup RunContexts(I) \cup {<<<<"sign">>, 3>>}
                       \cup (IF InBlock(at) THEN LevelContexts(I, low) ELSE {})
    BY <2>2
  <2>4. Apart(EndContext(Tile.g, I)) /\ Apart(RunContexts(I)) /\ Apart({<<<<"sign">>, 3>>})
    BY <1>0, <2>1, ContextsAre
  <2>5. Apart(IF InBlock(at) THEN LevelContexts(I, low) ELSE {})
    BY <1>0, ContextsAre
  <2>6. Apart(EndContext(Tile.g, I) \cup RunContexts(I))
    BY <2>4, ApartUnion
  <2>7. Apart(EndContext(Tile.g, I) \cup RunContexts(I) \cup {<<<<"sign">>, 3>>})
    BY <2>4, <2>6, ApartUnion
  <2> QED BY <2>3, <2>5, <2>7, ApartUnion
<1>5. CASE EndOfPlane
  <2>1. Tile.g \in 2 .. 5
    BY <1>5 DEF Flow, InTile, EndOfPlane
  <2>2. Apart(EndContext(Tile.g, I)) /\ Apart({})
    BY <1>0, <2>1, ContextsAre
  <2> QED BY <1>5, <2>2 DEF EndOfPlane
<1>6. CASE Predict
  BY <1>6, ContextsAre DEF Predict
<1>7. CASE Png
  <2>1. read' \in {read, {}}
    BY <1>7 DEF Png, OpenIhdr, Ihdr, Close, OpenIdat, Zlib, Row, Adler, OpenIend, Open
  <2> QED BY <2>1, ContextsAre
<1>8. CASE UNCHANGED vars
  BY <1>8 DEF vars
<1> QED BY <1>1, <1>2, <1>3, <1>4, <1>5, <1>6, <1>7, <1>8 DEF Next

(* The literals in W and n (amei.original.c): as long as no code of the stream *)
(* starts with ten zeros, two parts of the syntax never share a context, and   *)
(* none is past the 83 that X holds.                                           *)
THEOREM ContextsAreApart ==
  ASSUME MaxPrefix <= 9
  PROVE  Spec => []ContextsApart
<1>1. Init => Apart(read)
  BY ContextsAre DEF Init
<1>2. Flow /\ Flow' /\ Apart(read) /\ [Next]_vars => Apart(read)'
  BY ContextsKept
<1>3. Apart(read) => ContextsApart
  BY DEF Apart, ContextsApart, Owner
<1> QED BY <1>1, <1>2, <1>3, AlwaysFlow, PTL DEF Spec

----------------------------------------------------------------------------
(* The tiles in the plane.                                                 *)

(* In units of a cell: a tile's corner and side; the cell x, y is in it, or *)
(* in it or next to it on the left, above, or diagonally above the corner.  *)
Left(w) == w.z \div 4
Top(w)  == w.l \div 4
Span(w) == Side(w.g - 2)
In(x, y, w)     == x >= Left(w) /\ x < Left(w) + Span(w) /\ y >= Top(w) /\ y < Top(w) + Span(w)
Around(x, y, w) == x >= Left(w) - 1 /\ x < Left(w) + Span(w) /\ y >= Top(w) - 1 /\ y < Top(w) + Span(w)

Placed(w, side) == w.z = 4 * Left(w) /\ w.l = 4 * Top(w) /\ w.z + Side(w.g) <= side /\ w.l + Side(w.g) <= side
Whole(order) == [z |-> 0, l |-> 0, g |-> order]

(* Of the tiles of s: all are in the picture; none reaches into a later one, *)
(* nor is next to it on its left or above; x, y is in one from the n-th on.  *)
AllPlaced(s, side) == \A k \in 1 .. Len(s) : Placed(s[k], side)
Ordered(s) == \A k \in 1 .. Len(s), j \in 1 .. Len(s) : j < k =>
                \A x, y \in Int : ~(Around(x, y, s[j]) /\ In(x, y, s[k]))
Waits(s, n, x, y) == \E k \in n .. Len(s) : In(x, y, s[k])

(* D is what the tiles from the n-th on leave of the picture. *)
Covers(D, s, n, order) ==
  /\ D \in SUBSET (Int \X Int)
  /\ \A x, y \in Int : <<x, y>> \in D <=> In(x, y, Whole(order)) /\ ~Waits(s, n, x, y)

LEMMA TileIs ==
  ASSUME NEW w \in Tiles
  PROVE  /\ Left(w) \in Nat /\ Top(w) \in Nat /\ Span(w) \in Nat \ {0} /\ Side(w.g) = 4 * Span(w)
         /\ w.z \in Nat /\ w.l \in Nat
<1>1. w.z \in Nat /\ w.l \in Nat /\ w.g \in 2 .. 10 /\ w.g - 2 \in 0 .. 10
  BY DEF Tiles
<1>2. Left(w) \in Nat /\ Top(w) \in Nat
  BY <1>1 DEF Left, Top
<1>3. Span(w) \in Nat \ {0} /\ Side(w.g) = 4 * Span(w)
  BY <1>1, SidesDouble DEF Span
<1> QED BY <1>1, <1>2, <1>3

LEMMA CellsAre ==
  ASSUME NEW w \in Tiles
  PROVE  /\ Cells(w) = (Left(w) .. Left(w) + Span(w) - 1) \X (Top(w) .. Top(w) + Span(w) - 1)
         /\ Cells(w) \in SUBSET (Int \X Int)
         /\ \A x, y \in Int : <<x, y>> \in Cells(w) <=> In(x, y, w)
<1> DEFINE S == (Left(w) .. Left(w) + Span(w) - 1) \X (Top(w) .. Top(w) + Span(w) - 1)
<1>1. PICK zc \in Nat, lc \in Nat, side \in Nat : zc = Left(w) /\ lc = Top(w) /\ side = Span(w)
  BY TileIs
<1>2. Cells(w) = {<<zc + x, lc + y>> : x, y \in 0 .. (side - 1)}
  BY <1>1 DEF Cells, Left, Top, Span
<1>3. S = (zc .. zc + side - 1) \X (lc .. lc + side - 1)
  BY <1>1
<1>4. ASSUME NEW px \in S PROVE px \in Cells(w)
  <2>1. PICK x \in zc .. zc + side - 1, y \in lc .. lc + side - 1 : px = <<x, y>>
    BY <1>3
  <2>2. PICK u \in 0 .. (side - 1), v \in 0 .. (side - 1) : u = x - zc /\ v = y - lc
    OBVIOUS
  <2>3. zc + u = x /\ lc + v = y
    BY <2>2
  <2>4. px = <<zc + u, lc + v>>
    BY <2>1, <2>3
  <2> QED BY <1>2, <2>4
<1>5. ASSUME NEW px \in Cells(w) PROVE px \in S
  <2>1. PICK x \in 0 .. (side - 1), y \in 0 .. (side - 1) : px = <<zc + x, lc + y>>
    BY <1>2
  <2>2. zc + x \in zc .. zc + side - 1 /\ lc + y \in lc .. lc + side - 1
    OBVIOUS
  <2> QED BY <1>3, <2>1, <2>2
<1> HIDE DEF S
<1>6. Cells(w) = S
  BY <1>4, <1>5
<1>7. Cells(w) \in SUBSET (Int \X Int)
  BY <1>3, <1>6
<1>8. ASSUME NEW x \in Int, NEW y \in Int PROVE <<x, y>> \in Cells(w) <=> In(x, y, w)
  <2>1. <<x, y>> \in S <=> x \in zc .. zc + side - 1 /\ y \in lc .. lc + side - 1
    BY <1>3
  <2> QED BY <1>1, <1>6, <2>1 DEF In
<1> QED BY <1>6, <1>7, <1>8 DEF S

(* The quarters of a tile in the plane. *)
LEMMA QuartersAre ==
  ASSUME NEW w \in Tiles, w.g > 2, NEW side \in Nat, Placed(w, side)
  PROVE  \E h \in Nat \ {0} :
           /\ Span(w) = 2 * h
           /\ \A k \in 1 .. 4 :
                /\ Quads(w)[k] \in Tiles /\ Placed(Quads(w)[k], side)
                /\ Span(Quads(w)[k]) = h
                /\ Left(Quads(w)[k]) = Left(w) + (IF k \in {2, 4} THEN h ELSE 0)
                /\ Top(Quads(w)[k]) = Top(w) + (IF k \in {3, 4} THEN h ELSE 0)
<1>1. w.g \in 3 .. 10 /\ w.g - 3 \in 0 .. 10 /\ w.g - 1 \in 2 .. 10 /\ (w.g - 1) - 2 = w.g - 3
      /\ (w.g - 2) - 1 = w.g - 3 /\ w.g - 2 \in 1 .. 10
  BY DEF Tiles
<1>2. PICK h : h = Side(w.g - 3) /\ h \in Nat \ {0}
  BY <1>1, SidesDouble
<1>3. Span(w) = 2 * h /\ Side(w.g - 1) = 4 * h
  <2>1. Side(w.g - 2) = 2 * Side((w.g - 2) - 1) /\ Side(w.g - 1) = 4 * Side((w.g - 1) - 2)
    BY <1>1, SidesDouble
  <2> QED BY <1>1, <1>2, <2>1 DEF Span
<1>4. /\ Left(w) \in Nat /\ Top(w) \in Nat /\ Side(w.g) = 4 * Span(w)
  BY TileIs
<1>5. w.z = 4 * Left(w) /\ w.l = 4 * Top(w) /\ w.z + 8 * h <= side /\ w.l + 8 * h <= side
  BY <1>2, <1>3, <1>4 DEF Placed
<1>6. ASSUME NEW k \in 1 .. 4
      PROVE  /\ Quads(w)[k] \in Tiles /\ Placed(Quads(w)[k], side)
             /\ Span(Quads(w)[k]) = h
             /\ Left(Quads(w)[k]) = Left(w) + (IF k \in {2, 4} THEN h ELSE 0)
             /\ Top(Quads(w)[k]) = Top(w) + (IF k \in {3, 4} THEN h ELSE 0)
  <2>1. PICK v \in Tiles : v = Quads(w)[k]
    BY QuadsAre
  <2>2. PICK c \in Nat, b \in Nat : c = (IF k \in {2, 4} THEN h ELSE 0) /\ b = (IF k \in {3, 4} THEN h ELSE 0)
    BY <1>2
  <2>3. /\ v.g = w.g - 1 /\ v.z = w.z + 4 * c /\ v.l = w.l + 4 * b /\ c <= h /\ b <= h
    <3>1. /\ Quads(w)[k].g = w.g - 1
          /\ Quads(w)[k].z = w.z + (IF k \in {2, 4} THEN Side(w.g - 1) ELSE 0)
          /\ Quads(w)[k].l = w.l + (IF k \in {3, 4} THEN Side(w.g - 1) ELSE 0)
      BY QuadsAre
    <3> QED BY <1>2, <1>3, <2>1, <2>2, <3>1
  <2>4. Span(v) = h /\ Side(v.g) = 4 * h
    BY <1>1, <1>2, <1>3, <2>3 DEF Span
  <2>5. Left(v) = Left(w) + c /\ Top(v) = Top(w) + b
    <3>1. v.z = 4 * (Left(w) + c) /\ v.l = 4 * (Top(w) + b)
      BY <1>4, <1>5, <2>3
    <3>2. PICK lc \in Nat, tc \in Nat : lc = Left(w) + c /\ tc = Top(w) + b
      BY <1>4
    <3>3. (4 * lc) \div 4 = lc /\ (4 * tc) \div 4 = tc
      OBVIOUS
    <3>4. v.z \div 4 = lc /\ v.l \div 4 = tc
      BY <3>1, <3>2, <3>3
    <3> QED BY <3>2, <3>4 DEF Left, Top
  <2>6. Placed(v, side)
    BY <1>2, <1>4, <1>5, <2>3, <2>4, <2>5 DEF Placed
  <2> QED BY <2>1, <2>2, <2>4, <2>5, <2>6
<1> QED BY <1>2, <1>3, <1>6

(* Splitting the first tile. *)
LEMMA SplitCovers ==
  ASSUME NEW s \in Seq(Tiles), Len(s) >= 1, s[1].g > 2, NEW side \in Nat,
         AllPlaced(s, side), Ordered(s),
         NEW after \in Seq(Tiles), Len(after) = Len(s) + 3,
         \A k \in 1 .. 4 : after[k] = Quads(s[1])[k],
         \A k \in 5 .. Len(s) + 3 : after[k] = s[k - 3] /\ k - 3 \in 2 .. Len(s)
  PROVE  /\ AllPlaced(after, side) /\ Ordered(after)
         /\ \A x, y \in Int : Waits(after, 1, x, y) <=> Waits(s, 1, x, y)
<1>1. Len(s) \in Nat /\ 1 \in 1 .. Len(s) /\ s[1] \in Tiles /\ Placed(s[1], side)
  BY DEF AllPlaced
<1>2. PICK h \in Nat \ {0} :
           /\ Span(s[1]) = 2 * h
           /\ \A k \in 1 .. 4 :
                /\ after[k] \in Tiles /\ Placed(after[k], side) /\ Span(after[k]) = h
                /\ Left(after[k]) = Left(s[1]) + (IF k \in {2, 4} THEN h ELSE 0)
                /\ Top(after[k]) = Top(s[1]) + (IF k \in {3, 4} THEN h ELSE 0)
  BY <1>1, QuartersAre
<1>3. PICK L \in Nat, T \in Nat : L = Left(s[1]) /\ T = Top(s[1])
  BY <1>1, TileIs
<1>8. /\ Left(after[1]) = L /\ Left(after[2]) = L + h /\ Left(after[3]) = L /\ Left(after[4]) = L + h
       /\ Top(after[1]) = T /\ Top(after[2]) = T /\ Top(after[3]) = T + h /\ Top(after[4]) = T + h
       /\ Span(after[1]) = h /\ Span(after[2]) = h /\ Span(after[3]) = h /\ Span(after[4]) = h
       /\ Left(s[1]) = L /\ Top(s[1]) = T /\ Span(s[1]) = 2 * h
  <2>1. 1 \in 1 .. 4 /\ 2 \in 1 .. 4 /\ 3 \in 1 .. 4 /\ 4 \in 1 .. 4
    OBVIOUS
  <2> QED BY <1>2, <1>3, <2>1
<1>4. AllPlaced(after, side)
  <2>1. ASSUME NEW k \in 1 .. Len(after) PROVE Placed(after[k], side)
    <3>1. CASE k <= 4
      BY <1>1, <1>2, <3>1
    <3>2. CASE ~(k <= 4)
      <4>1. k \in 5 .. Len(s) + 3
        BY <1>1, <3>2
      <4>2. after[k] = s[k - 3] /\ k - 3 \in 1 .. Len(s)
        BY <1>1, <4>1
      <4> QED BY <4>2 DEF AllPlaced
    <3> QED BY <3>1, <3>2
  <2> QED BY <2>1 DEF AllPlaced
<1>5. ASSUME NEW x \in Int, NEW y \in Int
      PROVE  /\ \A k \in 1 .. 4 : (In(x, y, after[k]) => In(x, y, s[1])) /\ (Around(x, y, after[k]) => Around(x, y, s[1]))
             /\ \A k, j \in 1 .. 4 : j < k => ~(Around(x, y, after[j]) /\ In(x, y, after[k]))
             /\ In(x, y, s[1]) => \E k \in 1 .. 4 : In(x, y, after[k])
  <2>1. ASSUME NEW k \in 1 .. 4
        PROVE  (In(x, y, after[k]) => In(x, y, s[1])) /\ (Around(x, y, after[k]) => Around(x, y, s[1]))
    <3>1. Left(after[k]) \in {L, L + h} /\ Top(after[k]) \in {T, T + h} /\ Span(after[k]) = h
      <4>1. k = 1 \/ k = 2 \/ k = 3 \/ k = 4
        OBVIOUS
      <4> QED BY <1>8, <4>1
    <3>2. PICK u \in {L, L + h}, v \in {T, T + h} : u = Left(after[k]) /\ v = Top(after[k])
      BY <3>1
    <3>3. /\ In(x, y, after[k]) <=> x >= u /\ x < u + h /\ y >= v /\ y < v + h
          /\ Around(x, y, after[k]) <=> x >= u - 1 /\ x < u + h /\ y >= v - 1 /\ y < v + h
      BY <3>1, <3>2 DEF In, Around
    <3>4. /\ In(x, y, s[1]) <=> x >= L /\ x < L + 2 * h /\ y >= T /\ y < T + 2 * h
          /\ Around(x, y, s[1]) <=> x >= L - 1 /\ x < L + 2 * h /\ y >= T - 1 /\ y < T + 2 * h
      BY <1>8 DEF In, Around
    <3>5. u >= L /\ u + h <= L + 2 * h /\ v >= T /\ v + h <= T + 2 * h /\ u \in Int /\ v \in Int
      OBVIOUS
    <3>6. (x >= u => x >= L) /\ (x >= u - 1 => x >= L - 1) /\ (x < u + h => x < L + 2 * h)
      BY <3>5
    <3>7. (y >= v => y >= T) /\ (y >= v - 1 => y >= T - 1) /\ (y < v + h => y < T + 2 * h)
      BY <3>5
    <3> QED BY <3>3, <3>4, <3>6, <3>7, Zenon
  <2>2. ASSUME NEW k \in 1 .. 4, NEW j \in 1 .. 4, j < k PROVE ~(Around(x, y, after[j]) /\ In(x, y, after[k]))
    <3>1. CASE j \in {1, 3} /\ k \in {2, 4}
      <4>1. Left(after[k]) = L + h /\ Left(after[j]) = L /\ Span(after[j]) = h
        BY <1>8, <3>1
      <4> QED BY <4>1 DEF In, Around
    <3>2. CASE j \in {1, 2} /\ k \in {3, 4}
      <4>1. Top(after[k]) = T + h /\ Top(after[j]) = T /\ Span(after[j]) = h
        BY <1>8, <3>2
      <4> QED BY <4>1 DEF In, Around
    <3> QED BY <2>2, <3>1, <3>2
  <2>3. ASSUME In(x, y, s[1]) PROVE \E k \in 1 .. 4 : In(x, y, after[k])
    <3>1. PICK k \in 1 .. 4 : k = (IF x < L + h THEN 1 ELSE 2) + (IF y < T + h THEN 0 ELSE 2)
      OBVIOUS
    <3>2. In(x, y, after[k])
      BY <1>8, <2>3, <3>1, SMTT(30) DEF In
    <3> QED BY <3>2
  <2> QED BY <2>1, <2>2, <2>3
<1>6. Ordered(after)
  <2>1. ASSUME NEW k \in 1 .. Len(after), NEW j \in 1 .. Len(after), j < k, NEW x \in Int, NEW y \in Int
        PROVE  ~(Around(x, y, after[j]) /\ In(x, y, after[k]))
    <3>1. CASE k <= 4
      <4>1. k \in 1 .. 4 /\ j \in 1 .. 4
        BY <1>1, <2>1, <3>1
      <4> QED BY <1>5, <2>1, <4>1
    <3>2. CASE ~(k <= 4)
      <4>1. k \in 5 .. Len(s) + 3
        BY <1>1, <3>2
      <4>2. after[k] = s[k - 3] /\ k - 3 \in 2 .. Len(s) /\ k - 3 \in 1 .. Len(s)
        BY <1>1, <4>1
      <4>3. CASE j <= 4
        <5>1. j \in 1 .. 4
          BY <4>3
        <5>2. Around(x, y, after[j]) => Around(x, y, s[1])
          BY <1>5, <5>1
        <5>3. 1 \in 1 .. Len(s) /\ 1 < k - 3
          BY <1>1, <4>2
        <5>4. ~(Around(x, y, s[1]) /\ In(x, y, s[k - 3]))
          BY <4>2, <5>3 DEF Ordered
        <5> QED BY <4>2, <5>2, <5>4
      <4>4. CASE ~(j <= 4)
        <5>1. j \in 5 .. Len(s) + 3
          BY <1>1, <4>4
        <5>2. after[j] = s[j - 3] /\ j - 3 \in 1 .. Len(s) /\ j - 3 < k - 3
          BY <1>1, <2>1, <5>1
        <5>3. ~(Around(x, y, s[j - 3]) /\ In(x, y, s[k - 3]))
          BY <4>2, <5>2 DEF Ordered
        <5> QED BY <4>2, <5>2, <5>3
      <4> QED BY <4>3, <4>4
    <3> QED BY <3>1, <3>2
  <2> QED BY <2>1 DEF Ordered
<1>7. ASSUME NEW x \in Int, NEW y \in Int PROVE Waits(after, 1, x, y) <=> Waits(s, 1, x, y)
  <2>1. ASSUME NEW k \in 1 .. Len(after), In(x, y, after[k]) PROVE \E m \in 1 .. Len(s) : In(x, y, s[m])
    <3>1. CASE k <= 4
      <4>1. k \in 1 .. 4
        BY <3>1
      <4> QED BY <1>1, <1>5, <2>1, <4>1
    <3>2. CASE ~(k <= 4)
      <4>1. k \in 5 .. Len(s) + 3
        BY <1>1, <3>2
      <4>2. after[k] = s[k - 3] /\ k - 3 \in 1 .. Len(s)
        BY <1>1, <4>1
      <4> QED BY <2>1, <4>2
    <3> QED BY <3>1, <3>2
  <2>2. ASSUME NEW m \in 1 .. Len(s), In(x, y, s[m]) PROVE \E k \in 1 .. Len(after) : In(x, y, after[k])
    <3>1. CASE m = 1
      <4>1. PICK k \in 1 .. 4 : In(x, y, after[k])
        BY <1>5, <2>2, <3>1
      <4>2. k \in 1 .. Len(after)
        BY <1>1
      <4> QED BY <4>1, <4>2
    <3>2. CASE m # 1
      <4>1. PICK k \in 5 .. Len(s) + 3 : k = m + 3
        BY <1>1, <3>2
      <4>2. after[k] = s[k - 3] /\ k - 3 = m /\ k \in 1 .. Len(after)
        BY <1>1, <4>1
      <4> QED BY <2>2, <4>2
    <3> QED BY <3>1, <3>2
  <2> QED BY <2>1, <2>2 DEF Waits
<1> QED BY <1>4, <1>6, <1>7

(* Leaving the first tile behind. *)
LEMMA TailCovers ==
  ASSUME NEW s \in Seq(Tiles), Len(s) >= 1, NEW side \in Nat, AllPlaced(s, side), Ordered(s),
         NEW after \in Seq(Tiles), Len(after) = Len(s) - 1, \A k \in 1 .. Len(s) - 1 : after[k] = s[k + 1]
  PROVE  /\ AllPlaced(after, side) /\ Ordered(after)
         /\ \A x, y \in Int : Waits(after, 1, x, y) <=> Waits(s, 2, x, y)
<1>1. Len(s) \in Nat
  OBVIOUS
<1>2. ASSUME NEW k \in 1 .. Len(after) PROVE after[k] = s[k + 1] /\ k + 1 \in 2 .. Len(s) /\ k + 1 \in 1 .. Len(s)
  BY <1>1
<1>3. AllPlaced(after, side)
  BY <1>2 DEF AllPlaced
<1>4. Ordered(after)
  <2>1. ASSUME NEW k \in 1 .. Len(after), NEW j \in 1 .. Len(after), j < k, NEW x \in Int, NEW y \in Int
        PROVE  ~(Around(x, y, after[j]) /\ In(x, y, after[k]))
    <3>1. j + 1 < k + 1 /\ after[k] = s[k + 1] /\ after[j] = s[j + 1] /\ k + 1 \in 1 .. Len(s) /\ j + 1 \in 1 .. Len(s)
      BY <1>1, <1>2, <2>1
    <3> QED BY <3>1 DEF Ordered
  <2> QED BY <2>1 DEF Ordered
<1>5. ASSUME NEW x \in Int, NEW y \in Int PROVE Waits(after, 1, x, y) <=> Waits(s, 2, x, y)
  <2>1. ASSUME NEW k \in 1 .. Len(after), In(x, y, after[k]) PROVE \E m \in 2 .. Len(s) : In(x, y, s[m])
    BY <1>2, <2>1
  <2>2. ASSUME NEW m \in 2 .. Len(s), In(x, y, s[m]) PROVE \E k \in 1 .. Len(after) : In(x, y, after[k])
    <3>1. PICK k \in 1 .. Len(after) : k + 1 = m
      <4>1. m - 1 \in 1 .. Len(after) /\ (m - 1) + 1 = m
        BY <1>1
      <4> QED BY <4>1
    <3> QED BY <1>2, <2>2, <3>1
  <2> QED BY <2>1, <2>2 DEF Waits
<1> QED BY <1>3, <1>4, <1>5

(* A tile in the picture has no cell outside it. *)
LEMMA PlacedIsInside ==
  ASSUME NEW w \in Tiles, NEW order \in 2 .. 10, Placed(w, Side(order)),
         NEW x \in Int, NEW y \in Int, In(x, y, w)
  PROVE  In(x, y, Whole(order))
<1>1. Whole(order) \in Tiles /\ Left(Whole(order)) = 0 /\ Top(Whole(order)) = 0 /\ Whole(order).g = order
  BY DEF Whole, Tiles, Left, Top
<1>2. Side(order) = 4 * Span(Whole(order)) /\ Span(Whole(order)) \in Nat
  BY <1>1, TileIs
<1>3. /\ Left(w) \in Nat /\ Top(w) \in Nat /\ Span(w) \in Nat /\ Side(w.g) = 4 * Span(w)
  BY TileIs
<1>4. Left(w) + Span(w) <= Span(Whole(order)) /\ Top(w) + Span(w) <= Span(Whole(order))
  BY <1>2, <1>3 DEF Placed
<1> QED BY <1>1, <1>2, <1>3, <1>4 DEF In

(* Decoding the first tile. *)
LEMMA TileCovers ==
  ASSUME NEW s \in Seq(Tiles), Len(s) >= 1, NEW order \in 2 .. 10, AllPlaced(s, Side(order)), Ordered(s),
         NEW D, Covers(D, s, 1, order)
  PROVE  Covers(D \cup Cells(s[1]), s, 2, order)
<1>1. Len(s) \in Nat /\ 1 \in 1 .. Len(s) /\ s[1] \in Tiles
  OBVIOUS
<1>2. D \cup Cells(s[1]) \in SUBSET (Int \X Int)
  BY <1>1, CellsAre DEF Covers
<1>3. ASSUME NEW x \in Int, NEW y \in Int
      PROVE  <<x, y>> \in D \cup Cells(s[1]) <=> In(x, y, Whole(order)) /\ ~Waits(s, 2, x, y)
  <2>1. Waits(s, 1, x, y) <=> In(x, y, s[1]) \/ Waits(s, 2, x, y)
    BY <1>1 DEF Waits
  <2>2. In(x, y, s[1]) => ~Waits(s, 2, x, y)
    <3>1. ASSUME NEW k \in 2 .. Len(s) PROVE ~(Around(x, y, s[1]) /\ In(x, y, s[k]))
      BY <1>1 DEF Ordered
    <3>2. In(x, y, s[1]) => Around(x, y, s[1])
      BY <1>1, TileIs DEF In, Around
    <3> QED BY <3>1, <3>2 DEF Waits
  <2>3. In(x, y, s[1]) => In(x, y, Whole(order))
    BY <1>1, PlacedIsInside DEF AllPlaced
  <2>4. <<x, y>> \in D <=> In(x, y, Whole(order)) /\ ~Waits(s, 1, x, y)
    BY DEF Covers
  <2>5. <<x, y>> \in Cells(s[1]) <=> In(x, y, s[1])
    BY <1>1, CellsAre
  <2> QED BY <2>1, <2>2, <2>3, <2>4, <2>5
<1> QED BY <1>2, <1>3 DEF Covers

(* What the walk keeps: the calls still to make are in the picture and in an  *)
(* order in which no tile reaches or borders a later one, and with what is    *)
(* decoded of a plane they make up the picture.                               *)
First == [plane \in Planes |-> IF InTile /\ plane < B THEN 2 ELSE 1]

Walk ==
  /\ AllPlaced(todo, f) /\ Ordered(todo)
  /\ \A plane \in Planes : Covers(decoded[plane], todo, First[plane], image.order)

WalkInv ==
  /\ decoded \in [Planes -> SUBSET (Int \X Int)]
  /\ pc = "header" => todo = <<>> /\ \A plane \in Planes : decoded[plane] = {}
  /\ pc # "header" => Walk

(* Where neither the calls nor what is decoded changes. *)
LEMMA WalkStays ==
  ASSUME WalkInv, pc # "header", pc' # "header", UNCHANGED tree,
         \A plane \in Planes : First'[plane] = First[plane]
  PROVE  WalkInv'
<1>1. todo' = todo /\ image' = image /\ f' = f /\ decoded' = decoded
  BY DEF tree, f
<1>2. Walk'
  <2>1. (AllPlaced(todo, f) /\ Ordered(todo))'
    BY <1>1 DEF WalkInv, Walk
  <2>2. ASSUME NEW plane \in Planes PROVE Covers(decoded'[plane], todo', First'[plane], image'.order)
    BY <1>1 DEF WalkInv, Walk
  <2> QED BY <2>1, <2>2 DEF Walk
<1> QED BY <1>1, <1>2 DEF WalkInv

LEMMA HeaderWalks ==
  ASSUME Flow, WalkInv, Header PROVE WalkInv'
<1>1. /\ todo' = <<Whole(image.order)>> /\ pc' = "walk" /\ image' = image /\ f' = f /\ decoded' = decoded
      /\ \A plane \in Planes : decoded[plane] = {}
  BY DEF Header, WalkInv, Whole, f
<1>2. image.order \in 2 .. 10 /\ f = Side(image.order)
  BY ImageIs DEF Flow
<1>3. PICK w \in Tiles : w = Whole(image.order) /\ w.z = 0 /\ w.l = 0 /\ w.g = image.order
  <2>1. PICK order \in 2 .. 10 : order = image.order
    BY <1>2
  <2>2. Whole(order) \in Tiles /\ Whole(order).z = 0 /\ Whole(order).l = 0 /\ Whole(order).g = order
    BY DEF Whole, Tiles
  <2> QED BY <2>1, <2>2
<1>4. Len(todo') = 1 /\ todo'[1] = w
  BY <1>1, <1>3
<1>5. Placed(w, f)
  <2>1. Left(w) = 0 /\ Top(w) = 0 /\ Side(w.g) \in Nat
    BY <1>3, TileIs DEF Left, Top
  <2> QED BY <1>2, <1>3, <2>1 DEF Placed
<1>6. AllPlaced(todo', f') /\ Ordered(todo')
  BY <1>1, <1>4, <1>5 DEF AllPlaced, Ordered
<1>7. ASSUME NEW plane \in Planes PROVE Covers(decoded'[plane], todo', First'[plane], image'.order)
  <2>1. First'[plane] = 1 /\ decoded'[plane] = {}
    BY <1>1 DEF First, InTile
  <2>2. ASSUME NEW x \in Int, NEW y \in Int PROVE In(x, y, Whole(image.order)) => Waits(todo', 1, x, y)
    BY <1>3, <1>4 DEF Waits
  <2> QED BY <1>1, <2>1, <2>2 DEF Covers
<1>8. Walk'
  BY <1>6, <1>7 DEF Walk
<1> QED BY <1>1, <1>8 DEF WalkInv

LEMMA SplitWalks ==
  ASSUME Flow, WalkInv, Split PROVE WalkInv'
<1>1. /\ todo \in Seq(Tiles) /\ todo # <<>> /\ Tile.g > 2 /\ todo' = Quads(Tile) \o Tail(todo)
      /\ pc = "walk" /\ pc' = "walk" /\ image' = image /\ f' = f /\ decoded' = decoded /\ Walk
  BY DEF Split, Flow, WalkInv, f
<1>2. Len(todo) >= 1 /\ Tile = todo[1]
  BY <1>1, HeadIs
<1>3. /\ todo' \in Seq(Tiles) /\ Len(todo') = Len(todo) + 3
      /\ \A k \in 1 .. 4 : todo'[k] = Quads(todo[1])[k]
      /\ \A k \in 5 .. Len(todo) + 3 : todo'[k] = todo[k - 3] /\ k - 3 \in 2 .. Len(todo)
  BY <1>1, <1>2, SplitIs
<1>4. f \in Nat /\ AllPlaced(todo, f) /\ Ordered(todo)
  BY <1>1, ImageIs DEF Flow, Walk
<1>5. /\ AllPlaced(todo', f) /\ Ordered(todo')
      /\ \A x, y \in Int : Waits(todo', 1, x, y) <=> Waits(todo, 1, x, y)
  BY <1>1, <1>2, <1>3, <1>4, SplitCovers
<1>6. ASSUME NEW plane \in Planes PROVE Covers(decoded'[plane], todo', First'[plane], image'.order)
  <2>1. First'[plane] = 1 /\ First[plane] = 1
    BY <1>1 DEF First, InTile
  <2>2. Covers(decoded[plane], todo, 1, image.order)
    BY <1>1, <2>1 DEF Walk
  <2> QED BY <1>1, <1>5, <2>1, <2>2 DEF Covers
<1>7. Walk'
  BY <1>1, <1>5, <1>6 DEF Walk
<1> QED BY <1>1, <1>7 DEF WalkInv

LEMMA PredictWalks ==
  ASSUME Flow, WalkInv, Predict PROVE WalkInv'
<1>1. /\ todo \in Seq(Tiles) /\ todo # <<>> /\ pc = "predict" /\ InTile /\ B \in 0 .. 2
      /\ image' = image /\ f' = f /\ pc' # "header"
      /\ decoded' = [decoded EXCEPT ![B] = @ \cup Cells(Tile)]
      /\ decoded \in [Planes -> SUBSET (Int \X Int)] /\ Walk
  BY DEF Predict, Flow, WalkInv, InTile, f
<1>2. /\ Tile \in Tiles /\ Tail(todo) \in Seq(Tiles) /\ Len(todo) >= 1 /\ Tile = todo[1]
      /\ Len(Tail(todo)) = Len(todo) - 1
      /\ \A k \in 1 .. Len(todo) - 1 : Tail(todo)[k] = todo[k + 1]
  BY <1>1, HeadIs
<1>3. /\ image.order \in 2 .. 10 /\ f = Side(image.order) /\ f \in Nat
      /\ AllPlaced(todo, f) /\ AllPlaced(todo, Side(image.order)) /\ Ordered(todo)
  BY <1>1, ImageIs DEF Flow, Walk
<1>4. B \in Planes /\ First[B] = 1
  BY <1>1 DEF Planes, First
<1>5. Covers(decoded[B] \cup Cells(todo[1]), todo, 2, image.order)
  <2>1. Covers(decoded[B], todo, 1, image.order)
    BY <1>1, <1>4 DEF Walk
  <2> QED BY <1>1, <1>2, <1>3, <2>1, TileCovers
<1>6. decoded' \in [Planes -> SUBSET (Int \X Int)]
  BY <1>1, <1>2, CellsAre
<1>7. ASSUME NEW plane \in Planes PROVE decoded'[plane] = IF plane = B THEN decoded[B] \cup Cells(todo[1]) ELSE decoded[plane]
  BY <1>1, <1>2
<1>8. CASE B < 2
  <2>1. todo' = todo /\ B' = B + 1 /\ InTile'
    BY <1>1, <1>8 DEF Predict, InTile
  <2>2. ASSUME NEW plane \in Planes PROVE Covers(decoded'[plane], todo', First'[plane], image'.order)
    <3>1. CASE plane = B
      <4>1. First'[plane] = 2
        BY <1>1, <2>1, <3>1 DEF First
      <4> QED BY <1>1, <1>5, <1>7, <2>1, <3>1, <4>1
    <3>2. CASE plane # B
      <4>1. First'[plane] = First[plane]
        BY <1>1, <2>1, <3>2 DEF First, Planes
      <4> QED BY <1>1, <1>7, <2>1, <3>2, <4>1 DEF Walk
    <3> QED BY <3>1, <3>2
  <2>3. Walk'
    BY <1>1, <1>3, <2>1, <2>2 DEF Walk
  <2> QED BY <1>1, <1>6, <2>3 DEF WalkInv
<1>9. CASE ~(B < 2)
  <2>1. todo' = Tail(todo) /\ ~(InTile')
    BY <1>1, <1>9 DEF Predict, InTile
  <2>2. /\ AllPlaced(todo', f) /\ Ordered(todo')
        /\ \A x, y \in Int : Waits(todo', 1, x, y) <=> Waits(todo, 2, x, y)
    BY <1>1, <1>2, <1>3, <2>1, TailCovers
  <2>3. ASSUME NEW plane \in Planes PROVE Covers(decoded'[plane], todo', First'[plane], image'.order)
    <3>1. First'[plane] = 1
      BY <2>1 DEF First
    <3>2. Covers(decoded'[plane], todo, 2, image.order)
      <4>1. CASE plane = B
        BY <1>5, <1>7, <4>1
      <4>2. CASE plane # B
        <5>1. First[plane] = 2
          BY <1>1, <1>9, <4>2 DEF First, Planes
        <5> QED BY <1>1, <1>7, <4>2, <5>1 DEF Walk
      <4> QED BY <4>1, <4>2
    <3> QED BY <1>1, <2>2, <3>1, <3>2 DEF Covers
  <2>4. Walk'
    BY <1>1, <2>2, <2>3 DEF Walk
  <2> QED BY <1>1, <1>6, <2>4 DEF WalkInv
<1> QED BY <1>8, <1>9

LEMMA WalkKept ==
  ASSUME Flow, WalkInv, [Next]_vars PROVE WalkInv'
<1>1. CASE Header
  BY <1>1, HeaderWalks
<1>2. CASE Split
  BY <1>2, SplitWalks
<1>3. CASE Leaf
  <2>1. pc # "header" /\ pc' # "header" /\ UNCHANGED tree
    <3>1. UNCHANGED <<image, todo, decoded>> /\ splits' = splits
      BY <1>3 DEF Leaf
    <3> QED BY <1>3, <3>1 DEF Leaf, tree
  <2>2. ASSUME NEW plane \in Planes PROVE First'[plane] = First[plane]
    BY <1>3 DEF Leaf, First, InTile, Planes
  <2> QED BY <2>1, <2>2, WalkStays
<1>4. CASE Coefficient
  <2>1. pc # "header" /\ pc' # "header" /\ UNCHANGED tree /\ First' = First
    BY <1>4 DEF Coefficient, First, InTile
  <2> QED BY <2>1, WalkStays
<1>5. CASE EndOfPlane
  <2>1. pc # "header" /\ pc' # "header" /\ UNCHANGED tree /\ B' = B /\ InTile /\ InTile'
    BY <1>5 DEF EndOfPlane, block, InTile
  <2>2. First' = First
    BY <2>1 DEF First
  <2> QED BY <2>1, <2>2, WalkStays
<1>6. CASE Predict
  BY <1>6, PredictWalks
<1>7. CASE Png
  <2>1. pc # "header" /\ pc' # "header" /\ UNCHANGED tree /\ ~InTile /\ ~(InTile')
    BY <1>7 DEF Png, OpenIhdr, Ihdr, Close, OpenIdat, Zlib, Row, Adler, OpenIend, Open, InTile
  <2>2. First' = First
    BY <2>1 DEF First
  <2> QED BY <2>1, <2>2, WalkStays
<1>8. CASE UNCHANGED vars
  <2>1. UNCHANGED <<todo, image, decoded, pc, f, First>>
    BY <1>8 DEF vars, f, First, InTile
  <2>2. Walk => Walk'
    BY <2>1 DEF Walk
  <2> QED BY <2>1, <2>2 DEF WalkInv
<1> QED BY <1>1, <1>2, <1>3, <1>4, <1>5, <1>6, <1>7, <1>8 DEF Next

LEMMA AlwaysWalk == Spec => []WalkInv
<1>1. Init => WalkInv
  BY DEF Init, WalkInv
<1>2. Flow /\ Flow' /\ WalkInv /\ [Next]_vars => WalkInv'
  BY WalkKept
<1> QED BY <1>1, <1>2, AlwaysFlow, PTL DEF Spec

----------------------------------------------------------------------------
(* The neighbours.                                                         *)

(* Where a reflected index ends up: on the side, and for the three steepest *)
(* slopes perhaps one step before it.                                       *)
LEMMA ReflectedIs ==
  ASSUME NEW h \in Int, h < 0, NEW w \in -8 .. -1
  PROVE  /\ Reflected(h, w) \in Int /\ Reflected(h, w) >= -1
         /\ Reflected(h, w) < 0 => w \in -8 .. -6
<1>1. PICK m \in 1 .. 8 : m = -w
  <2>1. -w \in 1 .. 8
    OBVIOUS
  <2> QED BY <2>1
<1>2. PICK px \in Int : px = -(h * 8 - (m \div 2)) /\ px >= m
  <2>1. m \div 2 \in 0 .. 4 /\ m \div 2 \in Int
    <3>1. m \in {1, 2, 3, 4, 5, 6, 7, 8}
      OBVIOUS
    <3> QED BY <3>1
  <2> QED BY <2>1
<1>3. px = m * (px \div m) + (px % m) /\ px % m \in 0 .. m - 1 /\ px \div m \in Int
  BY Division
<1>4. px \div m >= 1
  <2>1. PICK e \in Int : e = px \div m
    BY <1>3
  <2>2. ASSUME e + 1 <= 1 PROVE FALSE
    <3>1. m * e + m <= m * 1
      BY <2>2, Multiples
    <3> QED BY <1>2, <1>3, <2>1, <3>1
  <2> QED BY <2>1, <2>2
<1>5. Reflected(h, w) = (px \div m) - 2
  BY <1>1, <1>2 DEF Reflected, Quotient
<1>6. ASSUME m <= 5 PROVE px \div m >= 2
  <2>1. m \in {1, 2, 3, 4, 5}
    BY <1>6
  <2>2. px >= 2 * m
    <3>1. px = (-h) * 8 + (m \div 2) /\ (-h) * 8 >= 8
      BY <1>1, <1>2
    <3> QED BY <1>2, <2>1, <3>1
  <2>3. PICK e \in Int : e = px \div m
    BY <1>3
  <2>4. ASSUME e + 1 <= 2 PROVE FALSE
    <3>1. m * e + m <= m * 2
      BY <2>1, <2>4
    <3> QED BY <1>2, <1>3, <2>2, <2>3, <3>1
  <2> QED BY <2>3, <2>4
<1>7. (px \div m) - 2 < 0 => m \in 6 .. 8
  BY <1>3, <1>6
<1>8. m \in 6 .. 8 => w \in -8 .. -6
  BY <1>1
<1> QED BY <1>3, <1>4, <1>5, <1>7, <1>8

(* The corner before the row above is read by modes 15 and 16, that before  *)
(* the column on the left by modes 17 to 19.                                *)
Before(side, mode) ==
  \/ side = "above" /\ mode \in 15 .. 16
  \/ side = "left" /\ mode \in 17 .. 19

(* A neighbour is on the left or above, never past the tile's side, and     *)
(* before it only where Before says.                                        *)
LEMMA NeighboursAre ==
  ASSUME NEW mode \in Modes, NEW g \in 2 .. 5
  PROVE  /\ Side(g) \in Nat \ {0}
         /\ \A n \in Neighbours[mode][g] :
              /\ n[1] \in {"left", "above"} /\ n[2] \in Int /\ n[2] >= -1 /\ n[2] < Side(g)
              /\ n[2] < 0 => Before(n[1], mode)
<1>1. PICK c \in Nat \ {0} : c = Side(g)
  BY SidesDouble
<1>2. mode \in Nat
  BY StreamAssumption
<1>3. CASE mode = 0
  <2>1. Neighbours[mode][g] = {"left", "above"} \X (0 .. c - 1)
    BY <1>1, <1>3 DEF Neighbours
  <2> QED BY <1>1, <2>1
<1>4. CASE mode # 0
  <2>1. Neighbours[mode][g] = Directional(mode, g)
    BY <1>4 DEF Neighbours
  <2>2. ASSUME NEW n \in Directional(mode, g)
        PROVE  /\ n[1] \in {"left", "above"} /\ n[2] \in Int /\ n[2] >= -1 /\ n[2] < c
               /\ n[2] < 0 => Before(n[1], mode)
    <3>1. PICK w : w = Slope(mode)
      OBVIOUS
    <3>2. w \in Int /\ w >= -8
      BY <1>2, <3>1 DEF Slope, C
    <3>3. PICK i \in 0 .. (c - 1), j \in 0 .. (c - 1), nb \in {0, 1} :
            LET h == (i * w + w) \div 8 + j + nb
                k == h < 0
            IN  n = <<IF k # C(mode) THEN "left" ELSE "above",
                      Clip(IF k THEN Reflected(h, w) ELSE h, c)>>
      BY <1>1, <3>1 DEF Directional
    <3>4. PICK e \in Int : e = i * w + w
      BY <3>2
    <3>5. PICK h \in Int : h = (i * w + w) \div 8 + j + nb
      <4>1. e \div 8 \in Int
        OBVIOUS
      <4> QED BY <3>4, <4>1
    <3>6. n = <<IF (h < 0) # C(mode) THEN "left" ELSE "above",
                Clip(IF h < 0 THEN Reflected(h, w) ELSE h, c)>>
      BY <3>3, <3>5
    <3>7. n[1] = (IF (h < 0) # C(mode) THEN "left" ELSE "above") /\ n[2] = Clip(IF h < 0 THEN Reflected(h, w) ELSE h, c)
      BY <3>6
    <3>8. PICK at \in Int : /\ at = IF h < 0 THEN Reflected(h, w) ELSE h
                            /\ at >= -1
                            /\ at < 0 => h < 0 /\ w \in -8 .. -6
      <4>1. CASE h >= 0
        BY <4>1
      <4>2. CASE h < 0
        <5>1. w < 0
          <6>1. ASSUME w >= 0 PROVE FALSE
            <7>1. i * w >= 0 /\ i * w \in Int
              BY <3>2, <6>1
            <7>2. e >= 0
              BY <3>2, <3>4, <6>1, <7>1
            <7>3. e \div 8 >= 0
              BY <7>2
            <7> QED BY <3>4, <3>5, <4>2, <7>3
          <6> QED BY <3>2, <6>1
        <5>2. w \in -8 .. -1
          BY <3>2, <5>1
        <5> QED BY <4>2, <5>2, ReflectedIs
      <4> QED BY <4>1, <4>2
    <3>9. n[2] \in Int /\ n[2] >= -1 /\ n[2] < c /\ (n[2] < 0 => at < 0)
      BY <1>1, <3>7, <3>8 DEF Clip
    <3>10. ASSUME n[2] < 0 PROVE Before(n[1], mode)
      <4>1. h < 0 /\ w \in -8 .. -6
        BY <3>8, <3>9, <3>10
      <4>2. CASE mode < 17
        <5>1. w = 9 - mode /\ C(mode)
          BY <3>1, <4>2 DEF Slope, C
        <5>2. mode \in 15 .. 16
          BY <1>2, <4>1, <4>2, <5>1
        <5>3. n[1] = "above"
          BY <3>7, <4>1, <5>1
        <5> QED BY <5>2, <5>3 DEF Before
      <4>3. CASE ~(mode < 17)
        <5>1. w = mode - 25 /\ C(mode) = FALSE
          BY <3>1, <4>3 DEF Slope, C
        <5>2. mode \in 17 .. 19
          BY <1>2, <4>1, <5>1
        <5>3. n[1] = "left"
          BY <3>7, <4>1, <5>1
        <5> QED BY <5>2, <5>3 DEF Before
      <4> QED BY <4>2, <4>3
    <3> QED BY <3>7, <3>9, <3>10
  <2> QED BY <1>1, <2>1, <2>2
<1> QED BY <1>3, <1>4

(* The cells around a tile that the tiles from it on do not hold. *)
LEMMA AroundIsDecoded ==
  ASSUME Flow, WalkInv, pc = "predict", NEW x \in Int, NEW y \in Int,
         Around(x, y, Tile), ~In(x, y, Tile), x >= 0, y >= 0
  PROVE  <<x, y>> \in decoded[B] /\ x < Side(image.order - 2) /\ y < Side(image.order - 2)
<1>1. /\ Tile \in Tiles /\ Tile = todo[1] /\ Len(todo) \in Nat \ {0} /\ image.order \in 2 .. 10
      /\ f = Side(image.order) /\ Walk /\ B \in Planes /\ First[B] = 1
  BY HeadIs, ImageIs DEF Flow, InTile, WalkInv, First, Planes
<1>2. Placed(Tile, Side(image.order)) /\ 1 \in 1 .. Len(todo)
  BY <1>1 DEF Walk, AllPlaced
<1>3. ~Waits(todo, 1, x, y)
  <2>1. ASSUME NEW k \in 1 .. Len(todo) PROVE ~In(x, y, todo[k])
    <3>1. CASE k = 1
      BY <1>1, <3>1
    <3>2. CASE k # 1
      <4>1. 1 < k
        BY <1>1, <3>2
      <4>2. ~(Around(x, y, todo[1]) /\ In(x, y, todo[k]))
        BY <1>1, <1>2, <4>1 DEF Walk, Ordered
      <4> QED BY <1>1, <4>2
    <3> QED BY <3>1, <3>2
  <2> QED BY <2>1 DEF Waits
<1>4. PICK s \in Nat : s = Side(image.order - 2) /\ Side(image.order) = 4 * s
  <2>1. image.order - 2 \in 0 .. 10
    BY <1>1
  <2> QED BY <1>1, <2>1, SidesDouble
<1>5. x < s /\ y < s
  <2>1. /\ Left(Tile) \in Nat /\ Top(Tile) \in Nat /\ Span(Tile) \in Nat /\ Side(Tile.g) = 4 * Span(Tile)
    BY <1>1, TileIs
  <2>2. 4 * Left(Tile) + 4 * Span(Tile) <= 4 * s /\ 4 * Top(Tile) + 4 * Span(Tile) <= 4 * s
    BY <1>2, <1>4, <2>1 DEF Placed
  <2> QED BY <2>1, <2>2 DEF Around
<1>6. In(x, y, Whole(image.order))
  <2>1. Left(Whole(image.order)) = 0 /\ Top(Whole(image.order)) = 0 /\ Span(Whole(image.order)) = s
    BY <1>4 DEF Whole, Left, Top, Span
  <2> QED BY <1>5, <2>1 DEF In
<1>7. <<x, y>> \in decoded[B]
  BY <1>1, <1>3, <1>6 DEF Walk, Covers
<1> QED BY <1>4, <1>5, <1>7

(* W's prediction (amei.original.c, the branch !q and the loop over i and j):  *)
(* for every picture, every mode and every order the stream splits in, each    *)
(* sample read is in the picture and already decoded in the same plane, or it  *)
(* is the missing corner that modes 15 and 16 read in the picture's first      *)
(* column and 17 to 19 in its first row.                                       *)
THEOREM NeighboursAreDecoded == Spec => []NeighboursDecoded
<1>1. ASSUME Flow, WalkInv, pc = "predict", NEW px \in PixelsRead, ~CornerMissing(px)
      PROVE  px[1] \in 0 .. (f - 1) /\ px[2] \in 0 .. (f - 1) /\ CellOf(px) \in decoded[B]
  <2>1. PICK n \in Neighbours[q][Tile.g] :
          /\ IF n[1] = "left" THEN Tile.z > 0 ELSE Tile.l > 0
          /\ px = IF n[1] = "left" THEN <<Tile.z - 1, Tile.l + n[2]>> ELSE <<Tile.z + n[2], Tile.l - 1>>
    BY <1>1 DEF PixelsRead
  <2>2. /\ Tile \in Tiles /\ Tile.g \in 2 .. 5 /\ q \in Modes /\ todo # <<>>
        /\ todo \in Seq(Tiles) /\ Tile = todo[1] /\ 1 \in 1 .. Len(todo)
    BY <1>1, HeadIs DEF Flow, InTile
  <2>3. /\ n[1] \in {"left", "above"} /\ n[2] \in Int /\ n[2] >= -1 /\ n[2] < Side(Tile.g)
        /\ n[2] < 0 => Before(n[1], q)
    BY <2>1, <2>2, NeighboursAre
  <2>4. /\ Left(Tile) \in Nat /\ Top(Tile) \in Nat /\ Span(Tile) \in Nat \ {0}
        /\ Side(Tile.g) = 4 * Span(Tile) /\ Tile.z \in Nat /\ Tile.l \in Nat
    BY <2>2, TileIs
  <2>5. Tile.z = 4 * Left(Tile) /\ Tile.l = 4 * Top(Tile)
    BY <1>1, <2>2 DEF WalkInv, Walk, AllPlaced, Placed
  <2>6. n[2] < 0 => Tile.z > 0 /\ Tile.l > 0
    <3>1. ASSUME n[2] < 0, n[1] = "left" PROVE Tile.z > 0 /\ Tile.l > 0
      <4>1. n[2] = -1 /\ Tile.z > 0 /\ px = <<Tile.z - 1, Tile.l + n[2]>> /\ q \in 17 .. 19
        BY <2>1, <2>3, <3>1 DEF Before
      <4>2. Tile.l = 0 => px = <<Tile.z - 1, -1>>
        BY <2>4, <4>1
      <4> QED BY <1>1, <2>4, <4>1, <4>2 DEF CornerMissing
    <3>2. ASSUME n[2] < 0, n[1] = "above" PROVE Tile.z > 0 /\ Tile.l > 0
      <4>1. n[2] = -1 /\ Tile.l > 0 /\ px = <<Tile.z + n[2], Tile.l - 1>> /\ q \in 15 .. 16
        BY <2>1, <2>3, <3>2 DEF Before
      <4>2. Tile.z = 0 => px = <<-1, Tile.l - 1>>
        BY <2>4, <4>1
      <4> QED BY <1>1, <2>4, <4>1, <4>2 DEF CornerMissing
    <3> QED BY <2>3, <3>1, <3>2
  <2>7. PICK L \in Nat, T \in Nat, S \in Nat \ {0}, e \in Int :
               L = Left(Tile) /\ T = Top(Tile) /\ S = Span(Tile) /\ e = n[2]
    BY <2>3, <2>4
  <2>8. e >= -1 /\ e < 4 * S /\ (e < 0 => L > 0 /\ T > 0)
    BY <2>3, <2>4, <2>5, <2>6, <2>7
  <2>9. PICK x \in Int, y \in Int : /\ px = <<x, y>>
                                  /\ \/ x = 4 * L - 1 /\ y = 4 * T + e /\ L > 0
                                     \/ x = 4 * L + e /\ y = 4 * T - 1 /\ T > 0
    BY <2>1, <2>3, <2>4, <2>5, <2>7
  <2>10. x >= 0 /\ y >= 0
    BY <2>8, <2>9
  <2>11. PICK cx \in Int, cy \in Int : cx = x \div 4 /\ cy = y \div 4
    OBVIOUS
  <2>12. /\ cx >= 0 /\ cy >= 0 /\ 4 * cx <= x /\ x < 4 * cx + 4 /\ 4 * cy <= y /\ y < 4 * cy + 4
    BY <2>10, <2>11
  <2>13. Around(cx, cy, Tile) /\ ~In(cx, cy, Tile)
    BY <2>7, <2>8, <2>9, <2>12 DEF Around, In
  <2>14. <<cx, cy>> \in decoded[B] /\ cx < Side(image.order - 2) /\ cy < Side(image.order - 2)
    BY <1>1, <2>12, <2>13, AroundIsDecoded
  <2>15. f = 4 * Side(image.order - 2) /\ Side(image.order - 2) \in Nat
    <3>1. image.order \in 2 .. 10 /\ f = Side(image.order)
      BY <1>1, ImageIs DEF Flow
    <3>2. image.order - 2 \in 0 .. 10
      BY <3>1
    <3> QED BY <3>1, <3>2, SidesDouble
  <2>16. px[1] = x /\ px[2] = y /\ CellOf(px) = <<cx, cy>>
    BY <2>9, <2>11 DEF CellOf
  <2> QED BY <2>10, <2>12, <2>14, <2>15, <2>16
<1>2. Flow /\ WalkInv => NeighboursDecoded
  BY <1>1 DEF NeighboursDecoded
<1> QED BY <1>2, AlwaysFlow, AlwaysWalk, PTL
----------------------------------------------------------------------------
(* The area of the tiles.                                                  *)

(* The cells of the first k tiles, and how many there are. *)
Under(s, k)    == UNION {Cells(s[j]) : j \in 1 .. k}
AreaRule(h, s) == h = [k \in 0 .. Len(s) |-> IF k = 0 THEN 0 ELSE h[k - 1] + Cardinality(Cells(s[k]))]

LEMMA CellsCounted ==
  ASSUME NEW w \in Tiles
  PROVE  IsFiniteSet(Cells(w)) /\ Cardinality(Cells(w)) = Span(w) * Span(w)
<1>1. PICK x \in Int, y \in Int, n \in Nat \ {0} : x = Left(w) /\ y = Top(w) /\ n = Span(w)
  BY TileIs
<1> DEFINE Xs == x .. x + n - 1
           Y == y .. y + n - 1
<1>2. IsFiniteSet(Xs) /\ IsFiniteSet(Y) /\ Cardinality(Xs) = n /\ Cardinality(Y) = n
  <2>1. x + n - 1 \in Int /\ y + n - 1 \in Int /\ ~(x > x + n - 1) /\ ~(y > y + n - 1)
    OBVIOUS
  <2>2. /\ IsFiniteSet(Xs) /\ Cardinality(Xs) = (x + n - 1) - x + 1
        /\ IsFiniteSet(Y) /\ Cardinality(Y) = (y + n - 1) - y + 1
    BY <2>1, FS_Interval
  <2> QED BY <2>2
<1>3. Cells(w) = Xs \X Y
  BY <1>1, CellsAre
<1> HIDE DEF Xs, Y
<1>4. IsFiniteSet(Xs \X Y) /\ Cardinality(Xs \X Y) = Cardinality(Xs) * Cardinality(Y)
  BY <1>2, FS_Product
<1> QED BY <1>1, <1>2, <1>3, <1>4

(* One tile more: none of its cells was there. *)
LEMMA UnderGrows ==
  ASSUME NEW s \in Seq(Tiles), Ordered(s), NEW k \in 1 .. Len(s)
  PROVE  /\ Under(s, 0) = {}
         /\ Under(s, k) = Under(s, k - 1) \cup Cells(s[k])
         /\ Under(s, k - 1) \cap Cells(s[k]) = {}
<1>1. Len(s) \in Nat /\ \A j \in 1 .. Len(s) : s[j] \in Tiles
  OBVIOUS
<1>2. Under(s, 0) = {}
  <2>1. 1 .. 0 = {}
    OBVIOUS
  <2> QED BY <2>1 DEF Under
<1>3. Under(s, k) = Under(s, k - 1) \cup Cells(s[k])
  <2>1. 1 .. k = (1 .. (k - 1)) \cup {k}
    BY <1>1
  <2> QED BY <2>1, Zenon DEF Under
<1>4. ASSUME NEW j \in 1 .. (k - 1), NEW c, c \in Cells(s[j]), c \in Cells(s[k]) PROVE FALSE
  <2>1. j \in 1 .. Len(s) /\ j < k /\ s[j] \in Tiles /\ s[k] \in Tiles
    BY <1>1
  <2>2. PICK x \in Int, y \in Int : c = <<x, y>>
    BY <1>4, <2>1, CellsAre
  <2>3. In(x, y, s[j]) /\ In(x, y, s[k])
    BY <1>4, <2>1, <2>2, CellsAre
  <2>4. Left(s[j]) \in Nat /\ Top(s[j]) \in Nat /\ Span(s[j]) \in Nat
    BY <2>1, TileIs
  <2>5. Around(x, y, s[j])
    BY <2>3, <2>4 DEF In, Around
  <2> QED BY <2>1, <2>3, <2>5 DEF Ordered
<1>5. Under(s, k - 1) \cap Cells(s[k]) = {}
  BY <1>4, Zenon DEF Under
<1> QED BY <1>2, <1>3, <1>5

LEMMA UnderFinite ==
  ASSUME NEW s \in Seq(Tiles), Ordered(s)
  PROVE  \A k \in 0 .. Len(s) : IsFiniteSet(Under(s, k))
<1> DEFINE T == {k \in 0 .. Len(s) : ~IsFiniteSet(Under(s, k))}
<1>1. Len(s) \in Nat
  OBVIOUS
<1>2. ASSUME T # {} PROVE FALSE
  <2>1. PICK k \in T : \A j \in T : k <= j
    <3>1. T \in SUBSET Nat
      BY <1>1
    <3> HIDE DEF T
    <3> QED BY <1>2, <3>1, LeastNumber
  <2>2. k # 0
    <3>1. 1 .. 0 = {}
      OBVIOUS
    <3>2. Under(s, 0) = {}
      BY <3>1 DEF Under
    <3> QED BY <2>1, <3>2, FS_EmptySet
  <2>3. k \in 1 .. Len(s) /\ k - 1 \in 0 .. Len(s) /\ ~(k <= k - 1) /\ s[k] \in Tiles
    BY <1>1, <2>1, <2>2
  <2>4. IsFiniteSet(Under(s, k - 1))
    BY <2>1, <2>3
  <2>5. IsFiniteSet(Cells(s[k]))
    BY <2>3, CellsCounted
  <2>6. IsFiniteSet(Under(s, k - 1) \cup Cells(s[k]))
    BY <2>4, <2>5, FS_Union
  <2>7. IsFiniteSet(Under(s, k))
    BY <2>3, <2>6, UnderGrows
  <2> QED BY <2>1, <2>7
<1> QED BY <1>2

LEMMA UnderCounted ==
  ASSUME NEW s \in Seq(Tiles), Ordered(s), NEW k \in 1 .. Len(s)
  PROVE  /\ Cardinality(Under(s, k)) = Cardinality(Under(s, k - 1)) + Cardinality(Cells(s[k]))
         /\ Cardinality(Under(s, k - 1)) \in Nat /\ Cardinality(Cells(s[k])) \in Nat
<1>1. k - 1 \in 0 .. Len(s) /\ s[k] \in Tiles
  OBVIOUS
<1>2. IsFiniteSet(Under(s, k - 1)) /\ IsFiniteSet(Cells(s[k]))
  BY <1>1, UnderFinite, CellsCounted
<1>3. Cardinality(Under(s, k - 1) \cup Cells(s[k])) =
        Cardinality(Under(s, k - 1)) + Cardinality(Cells(s[k])) - Cardinality(Under(s, k - 1) \cap Cells(s[k]))
  BY <1>2, FS_Union
<1>4. Cardinality(Under(s, k - 1) \cap Cells(s[k])) = 0
  BY UnderGrows, FS_EmptySet
<1>5. Cardinality(Under(s, k - 1)) \in Nat /\ Cardinality(Cells(s[k])) \in Nat
  BY <1>2, FS_CardinalityType
<1>6. Under(s, k) = Under(s, k - 1) \cup Cells(s[k])
  BY UnderGrows
<1> QED BY <1>3, <1>4, <1>5, <1>6

(* What EachSampleOnce adds up is the number of cells of all the tiles. *)
LEMMA AreaIsCounted ==
  ASSUME NEW s \in Seq(Tiles), Ordered(s)
  PROVE  (CHOOSE h : AreaRule(h, s))[Len(s)] = Cardinality(Under(s, Len(s)))
<1> DEFINE g == [k \in 0 .. Len(s) |-> Cardinality(Under(s, k))]
           h == CHOOSE x : AreaRule(x, s)
<1>1. Len(s) \in Nat
  OBVIOUS
<1>2. Cardinality(Under(s, 0)) = 0
  <2>1. 1 .. 0 = {}
    OBVIOUS
  <2>2. Under(s, 0) = {}
    BY <2>1 DEF Under
  <2> QED BY <2>2, FS_EmptySet
<1>3. AreaRule(g, s)
  <2>1. ASSUME NEW k \in 0 .. Len(s)
        PROVE  Cardinality(Under(s, k)) = IF k = 0 THEN 0 ELSE g[k - 1] + Cardinality(Cells(s[k]))
    <3>1. CASE k = 0
      BY <1>2, <3>1
    <3>2. CASE k # 0
      <4>1. k \in 1 .. Len(s) /\ k - 1 \in 0 .. Len(s)
        BY <1>1, <3>2
      <4>2. g[k - 1] = Cardinality(Under(s, k - 1))
        BY <4>1
      <4>3. Cardinality(Under(s, k)) = Cardinality(Under(s, k - 1)) + Cardinality(Cells(s[k]))
        BY <4>1, UnderCounted
      <4> QED BY <3>2, <4>2, <4>3
    <3> QED BY <3>1, <3>2
  <2> QED BY <2>1, Zenon DEF AreaRule
<1>4. AreaRule(h, s)
  <2> HIDE DEF g
  <2> QED BY <1>3, Zenon
<1> HIDE DEF g, h
<1>5. \A k \in 0 .. Len(s) : h[k] = IF k = 0 THEN 0 ELSE h[k - 1] + Cardinality(Cells(s[k]))
  BY <1>4, Zenon DEF AreaRule
<1> DEFINE T == {k \in 0 .. Len(s) : h[k] # Cardinality(Under(s, k))}
<1>6. ASSUME T # {} PROVE FALSE
  <2>1. PICK k \in T : \A j \in T : k <= j
    <3>1. T \in SUBSET Nat
      BY <1>1
    <3> HIDE DEF T
    <3> QED BY <1>6, <3>1, LeastNumber
  <2>2. k # 0
    BY <1>2, <1>5, <2>1
  <2>3. k \in 1 .. Len(s) /\ k - 1 \in 0 .. Len(s) /\ ~(k <= k - 1) /\ k \in 0 .. Len(s)
    BY <1>1, <2>1, <2>2
  <2>4. h[k - 1] = Cardinality(Under(s, k - 1))
    BY <2>1, <2>3
  <2>5. h[k] = h[k - 1] + Cardinality(Cells(s[k]))
    BY <1>5, <2>2, <2>3
  <2>6. Cardinality(Under(s, k)) = Cardinality(Under(s, k - 1)) + Cardinality(Cells(s[k]))
    BY <2>3, UnderCounted
  <2> QED BY <2>1, <2>4, <2>5, <2>6
<1>7. Len(s) \in 0 .. Len(s)
  BY <1>1
<1>8. h[Len(s)] = Cardinality(Under(s, Len(s)))
  BY <1>6, <1>7
<1> QED BY <1>8, Zenon DEF h

(* Tiles that leave D of the picture make it up with D, cell by cell and in number. *)
LEMMA PictureIsMadeUp ==
  ASSUME NEW s \in Seq(Tiles), Ordered(s), NEW order \in 2 .. 10, AllPlaced(s, Side(order)),
         NEW D, Covers(D, s, 1, order)
  PROVE  /\ Under(s, Len(s)) \cup D = Cells(Whole(order))
         /\ Cardinality(Under(s, Len(s))) + Cardinality(D) = Side(order - 2) * Side(order - 2)
<1>1. Len(s) \in Nat /\ \A j \in 1 .. Len(s) : s[j] \in Tiles
  OBVIOUS
<1> DEFINE W == Under(s, Len(s))
<1>2. Whole(order) \in Tiles /\ Span(Whole(order)) = Side(order - 2)
  BY DEF Whole, Tiles, Span
<1>3. ASSUME NEW x \in Int, NEW y \in Int PROVE <<x, y>> \in W <=> Waits(s, 1, x, y)
  <2>1. <<x, y>> \in W <=> \E j \in 1 .. Len(s) : <<x, y>> \in Cells(s[j])
    BY Zenon DEF Under
  <2>2. \A j \in 1 .. Len(s) : <<x, y>> \in Cells(s[j]) <=> In(x, y, s[j])
    BY <1>1, CellsAre
  <2> QED BY <2>1, <2>2 DEF Waits
<1>4. W \in SUBSET (Int \X Int)
  <2>1. \A j \in 1 .. Len(s) : Cells(s[j]) \subseteq Int \X Int
    BY <1>1, CellsAre
  <2> QED BY <2>1, Zenon DEF Under
<1>5. ASSUME NEW x \in Int, NEW y \in Int, Waits(s, 1, x, y) PROVE In(x, y, Whole(order))
  <2>1. PICK j \in 1 .. Len(s) : In(x, y, s[j])
    BY <1>5 DEF Waits
  <2> QED BY <1>1, <2>1, PlacedIsInside DEF AllPlaced
<1>6. D \in SUBSET (Int \X Int) /\ Cells(Whole(order)) \in SUBSET (Int \X Int)
  BY <1>2, CellsAre DEF Covers
<1>7. ASSUME NEW x \in Int, NEW y \in Int
      PROVE  /\ <<x, y>> \in W \cup D <=> <<x, y>> \in Cells(Whole(order))
             /\ ~(<<x, y>> \in W /\ <<x, y>> \in D)
  <2>1. <<x, y>> \in Cells(Whole(order)) <=> In(x, y, Whole(order))
    BY <1>2, CellsAre
  <2>2. <<x, y>> \in D <=> In(x, y, Whole(order)) /\ ~Waits(s, 1, x, y)
    BY DEF Covers
  <2> QED BY <1>3, <1>5, <2>1, <2>2
<1> HIDE DEF W
<1>8. W \cup D = Cells(Whole(order)) /\ W \cap D = {}
  <2>1. ASSUME NEW c PROVE (c \in W \cup D <=> c \in Cells(Whole(order))) /\ ~(c \in W /\ c \in D)
    <3>1. CASE c \in Int \X Int
      <4>1. PICK x \in Int, y \in Int : c = <<x, y>>
        BY <3>1
      <4> QED BY <1>7, <4>1
    <3>2. CASE c \notin Int \X Int
      BY <1>4, <1>6, <3>2
    <3> QED BY <3>1, <3>2
  <2> QED BY <2>1
<1>9. IsFiniteSet(Cells(Whole(order))) /\ Cardinality(Cells(Whole(order))) = Side(order - 2) * Side(order - 2)
  BY <1>2, CellsCounted
<1>10. IsFiniteSet(W) /\ IsFiniteSet(D)
  <2>1. W \in SUBSET Cells(Whole(order)) /\ D \in SUBSET Cells(Whole(order))
    BY <1>8
  <2> QED BY <1>9, <2>1, FS_Subset
<1>11. Cardinality(W \cup D) = Cardinality(W) + Cardinality(D) - Cardinality(W \cap D)
  BY <1>10, FS_Union
<1>12. Cardinality(W \cap D) = 0 /\ Cardinality(W) \in Nat /\ Cardinality(D) \in Nat
  BY <1>8, <1>10, FS_EmptySet, FS_CardinalityType
<1>13. Cardinality(W) + Cardinality(D) = Cardinality(Cells(Whole(order)))
  <2>1. Cardinality(W \cup D) = Cardinality(Cells(Whole(order)))
    BY <1>8
  <2>2. Cardinality(W \cup D) = Cardinality(W) + Cardinality(D)
    BY <1>11, <1>12
  <2> QED BY <2>1, <2>2
<1> QED BY <1>8, <1>9, <1>13 DEF W

(* The tiles a plane still waits for: all of them, or all but the one being    *)
(* decoded when the plane has it.                                              *)
LEMMA PendingIs ==
  ASSUME Flow, Walk, NEW plane \in Planes
  PROVE  /\ Pending(plane) \in Seq(Tiles) /\ Ordered(Pending(plane)) /\ AllPlaced(Pending(plane), f)
         /\ Covers(decoded[plane], Pending(plane), 1, image.order)
<1>1. todo \in Seq(Tiles) /\ (InTile => todo # <<>>) /\ AllPlaced(todo, f) /\ Ordered(todo) /\ f \in Nat
      /\ Covers(decoded[plane], todo, First[plane], image.order)
  BY ImageIs DEF Flow, Walk
<1>2. CASE InTile /\ plane < B
  <2>1. Pending(plane) = Tail(todo) /\ First[plane] = 2 /\ todo # <<>>
    BY <1>1, <1>2 DEF Pending, InTile, First
  <2>2. /\ Tail(todo) \in Seq(Tiles) /\ Len(todo) >= 1 /\ Len(Tail(todo)) = Len(todo) - 1
        /\ \A k \in 1 .. Len(todo) - 1 : Tail(todo)[k] = todo[k + 1]
    BY <1>1, <2>1, HeadIs
  <2>3. PICK after \in Seq(Tiles) : after = Tail(todo)
    BY <2>2
  <2>4. Len(after) = Len(todo) - 1 /\ \A k \in 1 .. Len(todo) - 1 : after[k] = todo[k + 1]
    BY <2>2, <2>3
  <2>5. /\ AllPlaced(after, f) /\ Ordered(after)
        /\ \A x, y \in Int : Waits(after, 1, x, y) <=> Waits(todo, 2, x, y)
    BY <1>1, <2>2, <2>4, TailCovers
  <2>6. Covers(decoded[plane], after, 1, image.order)
    BY <1>1, <2>1, <2>5 DEF Covers
  <2> QED BY <2>1, <2>3, <2>5, <2>6
<1>3. CASE ~(InTile /\ plane < B)
  <2>1. Pending(plane) = todo /\ First[plane] = 1
    BY <1>3 DEF Pending, InTile, First
  <2> QED BY <1>1, <2>1
<1> QED BY <1>2, <1>3

(* W over a whole picture (amei.original.c): at every moment of the recursion *)
(* each sample of each plane is decoded or belongs to exactly one tile still  *)
(* to come, for pictures of every order and every way the stream splits them. *)
THEOREM EachIsDecodedOnce == Spec => []EachSampleOnce
<1>1. ASSUME Flow, WalkInv, pc # "header", NEW plane \in Planes
      PROVE  LET tiles == Pending(plane)
                 waiting == UNION {Cells(tiles[k]) : k \in DOMAIN tiles}
                 area[k \in 0..Len(tiles)] ==
                   IF k = 0 THEN 0 ELSE area[k - 1] + Cardinality(Cells(tiles[k]))
             IN  /\ waiting \cup decoded[plane] = Cells([z |-> 0, l |-> 0, g |-> image.order])
                 /\ area[Len(tiles)] + Cardinality(decoded[plane]) = Side(image.order - 2) * Side(image.order - 2)
  <2> DEFINE s == Pending(plane)
             h == CHOOSE x : x = [k \in 0 .. Len(s) |-> IF k = 0 THEN 0 ELSE x[k - 1] + Cardinality(Cells(s[k]))]
  <2>1. /\ s \in Seq(Tiles) /\ Ordered(s) /\ AllPlaced(s, f)
        /\ Covers(decoded[plane], s, 1, image.order)
    BY <1>1, PendingIs DEF WalkInv
  <2>2. image.order \in 2 .. 10 /\ f = Side(image.order)
    BY <1>1, ImageIs DEF Flow
  <2>3. h = CHOOSE x : AreaRule(x, s)
    BY Zenon DEF AreaRule
  <2> HIDE DEF s, h
  <2>4. h[Len(s)] = Cardinality(Under(s, Len(s)))
    BY <2>1, <2>3, AreaIsCounted
  <2>5. AllPlaced(s, Side(image.order))
    BY <2>1, <2>2
  <2>6. /\ Under(s, Len(s)) \cup decoded[plane] = Cells(Whole(image.order))
        /\ Cardinality(Under(s, Len(s))) + Cardinality(decoded[plane]) = Side(image.order - 2) * Side(image.order - 2)
    BY <2>1, <2>2, <2>5, PictureIsMadeUp
  <2>7. UNION {Cells(s[k]) : k \in DOMAIN s} = Under(s, Len(s))
    <3>1. DOMAIN s = 1 .. Len(s)
      BY <2>1
    <3> QED BY <3>1, Zenon DEF Under
  <2>8. /\ (UNION {Cells(s[k]) : k \in DOMAIN s}) \cup decoded[plane] = Cells([z |-> 0, l |-> 0, g |-> image.order])
        /\ h[Len(s)] + Cardinality(decoded[plane]) = Side(image.order - 2) * Side(image.order - 2)
    BY <2>4, <2>6, <2>7 DEF Whole
  <2> QED BY <2>8, Zenon DEF s, h
<1>2. Flow /\ WalkInv => EachSampleOnce
  BY <1>1, Zenon DEF EachSampleOnce
<1> QED BY <1>2, AlwaysFlow, AlwaysWalk, PTL

-----------------------------------------------------------------------------
(* The range decoder. *)

(* Division of naturals, as the solver is given it. *)
LEMMA DivBounds ==
  ASSUME NEW n \in Nat, NEW w \in Nat, w > 0
  PROVE  /\ n \div w \in Nat
         /\ w * (n \div w) <= n
         /\ n < w * (n \div w) + w
BY Z3

(* A part w of F shares of a range of at least F: neither nothing nor all. *)
LEMMA ShareInside ==
  ASSUME NEW R \in Nat, NEW w \in Nat, NEW total \in Nat,
         0 < w, w < total, total <= R
  PROVE  (R * w) \div total \in 1..(R - 1)
PROOF
<1> DEFINE n == R * w
           u == n \div total
<1>1. n \in Nat /\ n >= R
  BY Z3
<1>2. u \in Nat /\ total * u <= n /\ n < total * u + total
  BY <1>1, DivBounds
<1> HIDE DEF u
<1>3. u >= 1
  <2>1. SUFFICES ASSUME u = 0 PROVE FALSE
    BY <1>2
  <2>2. total * u = 0
    BY <2>1
  <2> QED BY <1>1, <1>2, <2>2
<1>4. u < R
  <2>1. SUFFICES ASSUME u >= R PROVE FALSE
    BY <1>2
  <2>2. total * u >= total * R
    BY <2>1, <1>2, Z3
  <2>3. total * R > n
    BY Z3
  <2>4. n \in Nat /\ total * u \in Nat /\ total * R \in Nat
    BY <1>1, <1>2
  <2> HIDE DEF n
  <2> QED BY <1>2, <2>2, <2>3, <2>4
<1> QED BY <1>2, <1>3, <1>4 DEF u

(* Between two bits a context's counters add up to less than the limit. *)
Counters == {m \in [Bits -> Nat] : m[0] + m[1] <= Limit - 1}

(* The strengthening of CodeInRange. *)
RangeInv == /\ r \in Nat /\ r >= 1
        /\ p \in Nat /\ p < r
        /\ X \in [Contexts -> Counters]

(* Halving keeps a sum that has just reached the limit below it. *)
LEMMA HalfBounds ==
  ASSUME NEW n \in Nat
  PROVE  n \div 2 \in Nat /\ 2 * (n \div 2) <= n
BY DivBounds

LEMMA CountersStayBounded ==
  ASSUME NEW m \in Counters, NEW k \in Bits
  PROVE  Count(m, k) \in Counters
PROOF
<1> USE SizesAssumption
<1> DEFINE more == [m EXCEPT ![k] = @ + 1]
<1>1. m[0] \in Nat /\ m[1] \in Nat /\ m[0] + m[1] <= Limit - 1
  BY DEF Counters, Bits
<1>2. more \in [Bits -> Nat] /\ more[0] + more[1] = m[0] + m[1] + 1
  BY <1>1 DEF Counters, Bits
<1>3. CASE F(m) > Limit
  <2>1. Halved(more) \in [Bits -> Nat]
    BY <1>2, HalfBounds DEF Halved
  <2>2. /\ Halved(more)[0] = more[0] \div 2
        /\ Halved(more)[1] = more[1] \div 2
    BY DEF Halved, Bits
  <2>3. more[0] \in Nat /\ more[1] \in Nat
    BY <1>2 DEF Bits
  <2>4. /\ more[0] \div 2 \in Nat /\ 2 * (more[0] \div 2) <= more[0]
        /\ more[1] \div 2 \in Nat /\ 2 * (more[1] \div 2) <= more[1]
    BY <2>3, HalfBounds
  <2> HIDE DEF more
  <2>5. Halved(more)[0] + Halved(more)[1] <= Limit - 1
    BY <1>1, <1>2, <2>2, <2>3, <2>4
  <2>6. Count(m, k) = Halved(more)
    BY <1>3 DEF Count, more
  <2> QED BY <2>1, <2>5, <2>6 DEF Counters
<1>4. CASE ~(F(m) > Limit)
  <2>1. Count(m, k) = more
    BY <1>4 DEF Count
  <2>2. more[0] + more[1] <= Limit - 1
    BY <1>1, <1>2, <1>4 DEF F
  <2> QED BY <1>2, <2>1, <2>2 DEF Counters
<1> QED BY <1>3, <1>4

(* After the refill the range holds at least one byte, more than any sum.  *)
LEMMA RangeIsWide ==
  ASSUME RangeInv
  PROVE  Refilled \in Nat /\ Refilled >= Base
PROOF
<1> USE SizesAssumption
<1>1. CASE Refills
  BY <1>1, Z3 DEF RangeInv, Refills, Refilled
<1>2. CASE ~Refills
  BY <1>2 DEF RangeInv, Refills, Refilled
<1> QED BY <1>1, <1>2

(* Whatever context is read, its split is strictly inside the range.       *)
LEMMA ShareOfRange ==
  ASSUME RangeInv, NEW c \in Contexts
  PROVE  ZeroShare(X[c]) \in 1..(Refilled - 1)
PROOF
<1> USE SizesAssumption
<1>1. X[c] \in Counters
  BY DEF RangeInv
<1>2. X[c][0] \in Nat /\ X[c][1] \in Nat /\ X[c][0] + X[c][1] <= Limit - 1
  BY <1>1 DEF Counters, Bits
<1>3. /\ X[c][0] + 1 \in Nat /\ 0 < X[c][0] + 1
      /\ F(X[c]) \in Nat /\ X[c][0] + 1 < F(X[c]) /\ F(X[c]) <= Limit + 1
  BY <1>2 DEF F
<1>4. Refilled \in Nat /\ F(X[c]) <= Refilled
  BY <1>3, RangeIsWide
<1> QED BY <1>3, <1>4, ShareInside DEF ZeroShare

(* Narrowing by one bit, for a code P that lies in the refilled range.     *)
LEMMA NarrowInside ==
  ASSUME RangeInv, NEW c \in Contexts, NEW P \in Nat, P < Refilled, Narrow(c, P)
  PROVE  RangeInv' /\ r' < Refilled
PROOF
<1> DEFINE u == ZeroShare(X[c])
<1>1. u \in Nat /\ 1 <= u /\ u < Refilled
  BY ShareOfRange, RangeIsWide
<1>2. Refilled \in Nat
  BY RangeIsWide
<1>3. \E k \in Bits : X' = [X EXCEPT ![c] = Count(@, k)]
  BY DEF Narrow, Bits
<1>4. X' \in [Contexts -> Counters]
  BY <1>3, CountersStayBounded DEF RangeInv
<1>5. \/ P >= u /\ p' = P - u /\ r' = Refilled - u
      \/ P < u /\ p' = P /\ r' = u
  <2>1. u \in Nat /\ P \in Nat
    BY <1>1
  <2>2. CASE P >= u
    BY <2>2 DEF Narrow
  <2>3. CASE ~(P >= u)
    BY <2>1, <2>3 DEF Narrow
  <2> QED BY <2>2, <2>3
<1> HIDE DEF u
<1>6. r' \in Nat /\ r' >= 1 /\ p' \in Nat /\ p' < r' /\ r' < Refilled
  BY <1>1, <1>2, <1>5
<1> QED BY <1>4, <1>6 DEF RangeInv

(* One bit read, with or without a refill.                                 *)
LEMMA StepInside ==
  ASSUME RangeInv, NEW c \in Contexts, t(c)
  PROVE  RangeInv' /\ r' < Refilled
PROOF
<1> USE SizesAssumption
<1>1. CASE ~Refills /\ Narrow(c, p)
  <2>1. p \in Nat /\ p < Refilled
    BY <1>1 DEF RangeInv, Refilled
  <2> QED BY <1>1, <2>1, NarrowInside
<1>2. CASE Refills /\ \E byte \in 0..(Base - 1) : Narrow(c, p * Base + byte)
  <2>1. PICK byte \in 0..(Base - 1) : Narrow(c, p * Base + byte)
    BY <1>2
  <2> DEFINE P == p * Base + byte
  <2>2. p \in Nat /\ r \in Nat /\ p + 1 <= r /\ Base \in Nat
    BY DEF RangeInv
  <2>3. (p + 1) * Base <= r * Base
    BY <2>2, Z3
  <2>4. (p + 1) * Base = p * Base + Base
    BY <2>2, Z3
  <2>5. Refilled = r * Base
    BY <1>2 DEF Refilled
  <2>6. p * Base \in Nat /\ r * Base \in Nat
    BY <2>2
  <2>7. P \in Nat /\ P < Refilled
    BY <2>2, <2>3, <2>4, <2>5, <2>6
  <2> HIDE DEF P
  <2>8. Narrow(c, P)
    BY <2>1 DEF P
  <2> QED BY <2>7, <2>8, NarrowInside
<1> QED BY <1>1, <1>2 DEF t

LEMMA RangeStarts == RangeInit => RangeInv
PROOF
<1> USE SizesAssumption
<1>1. [b \in Bits |-> 0] \in Counters
  BY DEF Counters, Bits
<1> QED BY <1>1 DEF RangeInit, RangeInv

LEMMA StepPreserves == RangeInv /\ [RangeNext]_rangeVars => RangeInv'
PROOF
<1> SUFFICES ASSUME RangeInv, [RangeNext]_rangeVars PROVE RangeInv'
  OBVIOUS
<1>1. CASE RangeNext
  BY <1>1, StepInside DEF RangeNext
<1>2. CASE UNCHANGED rangeVars
  BY <1>2 DEF rangeVars, RangeInv
<1> QED BY <1>1, <1>2

(* The strengthened invariant gives CodeInRange.                           *)
LEMMA InsideIsInRange == RangeInv => CodeInRange
PROOF
<1> SUFFICES ASSUME RangeInv PROVE CodeInRange
  OBVIOUS
<1>1. p \in 0..(r - 1)
  BY DEF RangeInv
<1> QED BY <1>1, ShareOfRange DEF CodeInRange

(* For every byte size, limit and set of contexts the code stays in the    *)
(* range and every split strictly inside it: t() never loses the stream.   *)
THEOREM RangeKept == RangeSpec => []CodeInRange
PROOF
<1>1. RangeInit => RangeInv
  BY RangeStarts
<1>2. RangeInv /\ [RangeNext]_rangeVars => RangeInv'
  BY StepPreserves
<1>3. RangeInv => CodeInRange
  BY InsideIsInRange
<1> QED BY <1>1, <1>2, <1>3, PTL DEF RangeSpec

(* Every bit read without a refill narrows the range, so a refill is never *)
(* more than r bits away and the decoder consumes its stream.              *)
THEOREM EveryBitNarrows == RangeSpec => RangeShrinks
PROOF
<1>1. RangeInv /\ [RangeNext]_rangeVars => [~Refills => r' < r]_rangeVars
  <2> SUFFICES ASSUME RangeInv, RangeNext, ~Refills PROVE r' < r
    BY DEF RangeNext
  <2>1. r' < Refilled
    BY StepInside DEF RangeNext
  <2> QED BY <2>1 DEF Refilled
<1>2. RangeInit => RangeInv
  BY RangeStarts
<1>3. RangeInv /\ [RangeNext]_rangeVars => RangeInv'
  BY StepPreserves
<1> QED BY <1>1, <1>2, <1>3, PTL DEF RangeSpec, RangeShrinks
=============================================================================
