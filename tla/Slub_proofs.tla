---------------------------- MODULE Slub_proofs ----------------------------
(* Theorems about Slub, for regions of every size and requests of every    *)
(* size that slub_alloc accepts, in every order.                           *)
EXTENDS Slub, FiniteSetTheorems, WellFoundedInduction, TLAPS

-----------------------------------------------------------------------------
(* Numbers *)

(* A set of natural numbers that is not empty has a least one.             *)
LEMMA LeastExists ==
  ASSUME NEW S \in SUBSET Nat, S # {}
  PROVE  \E m \in S : \A n \in S : m <= n
<1> DEFINE R == OpToRel(<, Nat)
<1>1. IsWellFoundedOn(R, Nat)
  BY NatLessThanWellFounded
<1>2. \A x, y \in Nat : x < y => <<x, y>> \in R
  BY DEF OpToRel
<1> HIDE DEF R
<1>3. PICK m \in S : \A n \in S : ~(<<n, m>> \in R)
  BY <1>1, WFMin
<1>4. ASSUME NEW n \in S PROVE m <= n
  <2>1. ~(n < m)
    BY <1>2, <1>3
  <2>. QED
    BY <2>1
<1>. QED
  BY <1>4

-----------------------------------------------------------------------------
(* The operators of the model *)

(* The sizes of the nine types and how many of each a block holds.         *)
LEMMA TypeTable ==
  /\ TypeSize(1) = 8    /\ Occupy(1) = 512 /\ Bytes(Occupy(1)) = 64
  /\ TypeSize(2) = 16   /\ Occupy(2) = 256 /\ Bytes(Occupy(2)) = 32
  /\ TypeSize(3) = 32   /\ Occupy(3) = 128 /\ Bytes(Occupy(3)) = 16
  /\ TypeSize(4) = 64   /\ Occupy(4) = 64  /\ Bytes(Occupy(4)) = 8
  /\ TypeSize(5) = 128  /\ Occupy(5) = 32  /\ Bytes(Occupy(5)) = 4
  /\ TypeSize(6) = 256  /\ Occupy(6) = 16  /\ Bytes(Occupy(6)) = 2
  /\ TypeSize(7) = 512  /\ Occupy(7) = 8   /\ Bytes(Occupy(7)) = 1
  /\ TypeSize(8) = 1024 /\ Occupy(8) = 4   /\ Bytes(Occupy(8)) = 1
  /\ TypeSize(9) = 2048 /\ Occupy(9) = 2   /\ Bytes(Occupy(9)) = 1
<1>1. /\ Shift[1] = 3 /\ Shift[2] = 4 /\ Shift[3] = 5
      /\ Shift[4] = 6 /\ Shift[5] = 7 /\ Shift[6] = 8
      /\ Shift[7] = 9 /\ Shift[8] = 10 /\ Shift[9] = 11
  BY DEF Shift, Types
<1>2. /\ TypeSize(1) = 8 /\ TypeSize(2) = 16 /\ TypeSize(3) = 32
      /\ TypeSize(4) = 64 /\ TypeSize(5) = 128 /\ TypeSize(6) = 256
      /\ TypeSize(7) = 512 /\ TypeSize(8) = 1024 /\ TypeSize(9) = 2048
  <2>1. /\ 2^3 = 8 /\ 2^4 = 16 /\ 2^5 = 32 /\ 2^6 = 64 /\ 2^7 = 128
        /\ 2^8 = 256 /\ 2^9 = 512 /\ 2^10 = 1024 /\ 2^11 = 2048
    OBVIOUS
  <2>. QED
    BY <1>1, <2>1 DEF TypeSize
<1>. QED
  BY <1>2 DEF Occupy, Bytes, BLOCK_SIZE

(* An object lies within its block, and two objects of a block and a type  *)
(* do not overlap.                                                         *)
LEMMA ObjectInBlock ==
  ASSUME NEW t \in Types, NEW i \in 0..(Occupy(t) - 1)
  PROVE  /\ TypeSize(t) \in Nat \ {0} /\ i * TypeSize(t) \in Nat
         /\ i * TypeSize(t) + TypeSize(t) <= BLOCK_SIZE
         /\ \A j \in 0..(Occupy(t) - 1) :
              i < j => i * TypeSize(t) + TypeSize(t) <= j * TypeSize(t)
<1>1. t \in {1, 2, 3, 4, 5, 6, 7, 8, 9}
  BY DEF Types
<1>. QED
  BY <1>1, TypeTable DEF BLOCK_SIZE

(* Objects fill the bytes of their use map, padding apart.                 *)
LEMMA OccupyType ==
  ASSUME NEW t \in Types
  PROVE  /\ Occupy(t) \in Nat \ {0}
         /\ Bytes(Occupy(t)) \in Nat \ {0}
         /\ Occupy(t) <= 8 * Bytes(Occupy(t))
<1>1. t \in {1, 2, 3, 4, 5, 6, 7, 8, 9}
  BY DEF Types
<1>. QED
  BY <1>1, TypeTable

(* The least element of a set of numbers that is not empty.                *)
LEMMA LeastIs ==
  ASSUME NEW S \in SUBSET Nat, S # {}
  PROVE  Least(S) \in S /\ \A y \in S : Least(S) <= y
  BY LeastExists DEF Least

(* The use maps of a block take 129 bytes.                                 *)
LEMMA UsemapSize == usemap_size = 129
<1> DEFINE f == [t \in 0..9 |-> IF t = 0 THEN 0 ELSE IF t = 1 THEN 64
                   ELSE IF t = 2 THEN 96 ELSE IF t = 3 THEN 112
                   ELSE IF t = 4 THEN 120 ELSE IF t = 5 THEN 124
                   ELSE IF t = 6 THEN 126 ELSE 120 + t]
<1>1. f = [t \in 0..9 |->
             IF t = 0 THEN 0 ELSE f[t - 1] + Bytes(Occupy(t))]
  <2>1. ASSUME NEW t \in 0..9
        PROVE  f[t] = IF t = 0 THEN 0 ELSE f[t - 1] + Bytes(Occupy(t))
    <3>1. t \in {0, 1, 2, 3, 4, 5, 6, 7, 8, 9}
      OBVIOUS
    <3>. QED
      BY <3>1, TypeTable
  <2>. QED
    BY <2>1
<1> HIDE DEF f
<1>2. \E g : g = [t \in 0..9 |->
                    IF t = 0 THEN 0 ELSE g[t - 1] + Bytes(Occupy(t))]
  BY <1>1
<1>3. usemap_offset = [t \in 0..9 |->
        IF t = 0 THEN 0 ELSE usemap_offset[t - 1] + Bytes(Occupy(t))]
  BY <1>2, Zenon DEF usemap_offset
<1> HIDE DEF usemap_offset
<1>4. /\ usemap_offset[0] = 0
      /\ usemap_offset[1] = usemap_offset[0] + 64
      /\ usemap_offset[2] = usemap_offset[1] + 32
      /\ usemap_offset[3] = usemap_offset[2] + 16
      /\ usemap_offset[4] = usemap_offset[3] + 8
      /\ usemap_offset[5] = usemap_offset[4] + 4
      /\ usemap_offset[6] = usemap_offset[5] + 2
      /\ usemap_offset[7] = usemap_offset[6] + 1
      /\ usemap_offset[8] = usemap_offset[7] + 1
      /\ usemap_offset[9] = usemap_offset[8] + 1
  BY <1>3, TypeTable
<1>. QED
  BY <1>4 DEF usemap_size

(* A request falls into one of the types.                                  *)
LEMMA TypeOfType ==
  ASSUME NEW r \in Requests
  PROVE  TypeOf(r) \in Types
<1> DEFINE T == {t \in Types : r <= TypeSize(t)}
<1>1. 9 \in T
  BY RequestsAssumption, TypeTable DEF Types
<1>2. T \in SUBSET Nat
  BY DEF Types
<1> HIDE DEF T
<1>3. Least(T) \in T
  BY <1>1, <1>2, LeastIs
<1>. QED
  BY <1>3 DEF TypeOf, T

(* Bit b of a bitmap is in its byte b / 8.                                 *)
LEMMA ByteOf ==
  ASSUME NEW b \in Nat, NEW k \in Nat
  PROVE  b \in Byte(k) <=> b \div 8 = k
  BY DEF Byte

(* The bitmaps of a region have a bit for every block.                     *)
LEMMA BitmapSize ==
  ASSUME nblocks \in 1..(BLOCKS_MAX - 1)
  PROVE  /\ bitmap_size \in 1..4
         /\ nblocks <= 8 * bitmap_size /\ 8 * bitmap_size <= nblocks + 7
         /\ \A b \in 0..(nblocks - 1) : b \div 8 \in 0..(bitmap_size - 1)
         /\ nblocks <= 8 => bitmap_size = 1
  BY DEF BLOCKS_MAX, bitmap_size, Bytes

(* The bits slub_format sets in the top bitmap: those behind the last      *)
(* block, and the last eight blocks if their number is a multiple of eight.*)
LEMMA TopFormatIs ==
  ASSUME NEW n \in 1..(BLOCKS_MAX - 1), NEW b \in 0..(8 * Bytes(n) - 1)
  PROVE  b \in TopFormat(n) <=> b >= n \/ (n % 8 = 0 /\ b >= n - 8)
  BY DEF TopFormat, Byte, Bytes, BLOCKS_MAX

-----------------------------------------------------------------------------
(* The objects a block holds *)

Obj(b, t, i) == [addr |-> block(b) + i * TypeSize(t), len |-> TypeSize(t)]

(* Where an object lies.                                                   *)
LEMMA ObjPlace ==
  ASSUME NEW b \in Nat, NEW t \in Types, NEW i \in 0..(Occupy(t) - 1)
  PROVE  /\ Obj(b, t, i).addr \in Nat /\ Obj(b, t, i).len = TypeSize(t)
         /\ Obj(b, t, i).len \in Nat \ {0}
         /\ Obj(b, t, i).addr >= block(b)
         /\ Obj(b, t, i).addr + Obj(b, t, i).len <= block(b + 1)
         /\ block(b) \in Nat
<1> DEFINE d == i * TypeSize(t)
           T == TypeSize(t)
<1>1. d \in Nat /\ T \in Nat \ {0} /\ d + T <= BLOCK_SIZE
  BY ObjectInBlock
<1>2. Obj(b, t, i).addr = block(b) + d /\ Obj(b, t, i).len = T
  BY DEF Obj
<1> HIDE DEF d, T
<1>. QED
  BY <1>1, <1>2 DEF block, BLOCK_SIZE, T

(* Objects of different blocks, or of the same block and type, do not      *)
(* overlap.                                                                *)
LEMMA ObjDisjoint ==
  ASSUME NEW b \in Nat, NEW t \in Types, NEW i \in 0..(Occupy(t) - 1),
         NEW c \in Nat, NEW u \in Types, NEW j \in 0..(Occupy(u) - 1),
         b # c \/ (t = u /\ i # j)
  PROVE  LET o == Obj(b, t, i)
             p == Obj(c, u, j)
         IN o.addr + o.len <= p.addr \/ p.addr + p.len <= o.addr
<1> DEFINE o == Obj(b, t, i)
           p == Obj(c, u, j)
<1>1. /\ o.addr \in Nat /\ o.len \in Nat
      /\ o.addr >= block(b) /\ o.addr + o.len <= block(b + 1)
  BY ObjPlace
<1>2. /\ p.addr \in Nat /\ p.len \in Nat
      /\ p.addr >= block(c) /\ p.addr + p.len <= block(c + 1)
  BY ObjPlace
<1>3. CASE b # c
  <2> HIDE DEF o, p
  <2>1. block(b + 1) <= block(c) \/ block(c + 1) <= block(b)
    BY <1>3 DEF block, BLOCK_SIZE
  <2>2. /\ block(b) \in Nat /\ block(c) \in Nat
        /\ block(b + 1) \in Nat /\ block(c + 1) \in Nat
    BY DEF block, BLOCK_SIZE
  <2>3. o.addr + o.len <= p.addr \/ p.addr + p.len <= o.addr
    BY <1>1, <1>2, <2>1, <2>2
  <2>. QED
    BY <2>3 DEF o, p
<1>4. CASE b = c /\ t = u /\ i # j
  <2>1. /\ i * TypeSize(t) \in Nat /\ j * TypeSize(t) \in Nat
        /\ TypeSize(t) \in Nat
        /\ \/ i * TypeSize(t) + TypeSize(t) <= j * TypeSize(t)
           \/ j * TypeSize(t) + TypeSize(t) <= i * TypeSize(t)
    <3>1. i < j \/ j < i
      BY <1>4, OccupyType
    <3>. QED
      BY <1>4, <3>1, ObjectInBlock
  <2>2. block(b) \in Nat
    BY DEF block, BLOCK_SIZE
  <2>3. /\ o.addr = block(b) + i * TypeSize(t) /\ o.len = TypeSize(t)
        /\ p.addr = block(b) + j * TypeSize(t) /\ p.len = TypeSize(t)
    BY <1>4 DEF Obj
  <2> HIDE DEF o, p
  <2>4. o.addr + o.len <= p.addr \/ p.addr + p.len <= o.addr
    BY <2>1, <2>2, <2>3
  <2>. QED
    BY <2>4 DEF o, p
<1>. QED
  BY <1>3, <1>4

(* Block, type and index can be read off an object.                        *)
LEMMA ObjUnique ==
  ASSUME NEW b \in Nat, NEW t \in Types, NEW i \in 0..(Occupy(t) - 1),
         NEW c \in Nat, NEW u \in Types, NEW j \in 0..(Occupy(u) - 1),
         Obj(b, t, i) = Obj(c, u, j)
  PROVE  b = c /\ t = u /\ i = j
<1>1. t = u
  <2>1. TypeSize(t) = TypeSize(u)
    BY DEF Obj
  <2>2. /\ t \in {1, 2, 3, 4, 5, 6, 7, 8, 9}
        /\ u \in {1, 2, 3, 4, 5, 6, 7, 8, 9}
    BY DEF Types
  <2>. QED
    BY <2>1, <2>2, TypeTable
<1>2. ASSUME b # c \/ i # j PROVE FALSE
  <2> DEFINE o == Obj(b, t, i)
  <2>1. o.addr + o.len <= o.addr
    BY <1>1, <1>2, ObjDisjoint
  <2>2. o.addr \in Nat /\ o.len \in Nat \ {0}
    BY ObjPlace
  <2> HIDE DEF o
  <2>. QED
    BY <2>1, <2>2
<1>. QED
  BY <1>1, <1>2

-----------------------------------------------------------------------------
(* The inductive invariant.  The parts that slub_alloc changes one after   *)
(* the other are stated of a bitmap, a use map and a set of objects.       *)

(* The region and its number of blocks. *)
FormatInv ==
  /\ size = 0 => nblocks = 0 /\ objs = {} /\ ~aborted /\ refused = {}
  /\ size # 0 => nblocks \in 1..(BLOCKS_MAX - 1) /\ nblocks = NBlocks(size)

(* A use map, with its padding set: a bit that pads is never handed out. *)
Padded(um) ==
  /\ um \in [0..(nblocks - 1) -> [Types -> SUBSET Nat]]
  /\ \A b \in 0..(nblocks - 1), t \in Types :
       /\ um[b][t] \subseteq 0..(8 * Bytes(Occupy(t)) - 1)
       /\ \A i \in Occupy(t)..(8 * Bytes(Occupy(t)) - 1) : i \in um[b][t]

(* UsemapExact, bit by bit. *)
Exact(bm, um, ob) ==
  \A b \in 0..(nblocks - 1), t \in Types : \A i \in 0..(Occupy(t) - 1) :
    i \in um[b][t] <=> b \in bm[t] /\ Obj(b, t, i) \in ob

(* What was handed out is an object of a block of its type. *)
Handed(bm, ob) ==
  \A o \in ob :
    \E b \in 0..(nblocks - 1), t \in Types : \E i \in 0..(Occupy(t) - 1) :
      b \in bm[t] /\ o = Obj(b, t, i)

Distinct(bm) ==
  /\ bm \in [Types -> SUBSET (0..(nblocks - 1))]
  /\ \A t, u \in Types : t # u => bm[t] \cap bm[u] = {}

Counted == IsFiniteSet(objs) /\ Cardinality(objs) = nalloc

(* The blocks of a type are all in one byte of its bitmap: the block that  *)
(* would be the first in a second byte is the one that aborts.             *)
OneByte(bm) == \A t \in Types : \A b, c \in bm[t] : b \div 8 = c \div 8

(* Blocks are taken from the lowest up, and none is given back. *)
Filled(bm, tp) == \A t \in Types : \A b \in bm[t] : 0..b \subseteq tp

TopExact ==
  size # 0 => top = TopFormat(nblocks) \cup UNION {bitmap[t] : t \in Types}

IInv ==
  /\ TypeOK
  /\ FormatInv
  /\ TopExact
  /\ Distinct(bitmap)
  /\ Padded(usemap)
  /\ Exact(bitmap, usemap, objs)
  /\ Handed(bitmap, objs)
  /\ Counted
  /\ ~aborted => OneByte(bitmap)
  /\ Filled(bitmap, top)
  /\ NoAbortUpToEight

-----------------------------------------------------------------------------
(* The two steps of slub_alloc: a block gets its type, an object is taken  *)

(* The block alloc_index_from_top_bitmap finds has no type yet, and all    *)
(* those before it are in use.                                             *)
LEMMA NewBlock ==
  ASSUME IInv, size # 0, NEW t \in Types,
         NEW n, n = alloc_index_from_top_bitmap(t), n # -1
  PROVE  /\ n \in 0..(nblocks - 1)
         /\ \A u \in Types : n \notin bitmap[u]
         /\ n \notin top /\ \A e \in 0..(n - 1) : e \in top
<1> DEFINE Free == 0..(8 * bitmap_size - 1) \ top
<1>1. nblocks \in 1..(BLOCKS_MAX - 1)
  BY DEF IInv, FormatInv
<1>2. Free \in SUBSET Nat
  BY <1>1, BitmapSize
<1>3. n \in Free /\ \A e \in Free : n <= e
  <2>1. Free # {} /\ n = Least(Free)
    BY DEF alloc_index_from_top_bitmap
  <2> HIDE DEF Free
  <2>. QED
    BY <1>2, <2>1, LeastIs
<1>4. n \notin TopFormat(nblocks) /\ \A u \in Types : n \notin bitmap[u]
  BY <1>3 DEF IInv, TopExact
<1>5. n < nblocks
  BY <1>1, <1>3, <1>4, BitmapSize
  DEF TopFormat, Byte, bitmap_size, Bytes, BLOCKS_MAX
<1>6. \A e \in 0..(n - 1) : e \in top
  BY <1>1, <1>3, BitmapSize
<1>. QED
  BY <1>1, <1>3, <1>4, <1>5, <1>6, BitmapSize

(* Giving it the type changes nothing in what the other maps say.          *)
LEMMA MarkBlock ==
  ASSUME IInv, NEW t \in Types, NEW n \in 0..(nblocks - 1),
         \A u \in Types : n \notin bitmap[u],
         NEW bm, bm = [bitmap EXCEPT ![t] = @ \cup {n}]
  PROVE  /\ Distinct(bm) /\ Exact(bm, usemap, objs) /\ Handed(bm, objs)
         /\ n \in bm[t] /\ FreeObjs(usemap, n, t) # {}
<1>1. Distinct(bm) /\ n \in bm[t]
  BY DEF IInv, Distinct
<1>2. Handed(bm, objs)
  BY DEF IInv, Handed, Distinct
<1>3. \A u \in Types : \A i \in 0..(Occupy(u) - 1) : Obj(n, u, i) \notin objs
  <2> SUFFICES ASSUME NEW u \in Types, NEW i \in 0..(Occupy(u) - 1),
                      Obj(n, u, i) \in objs
               PROVE  FALSE
    OBVIOUS
  <2>1. PICK c \in 0..(nblocks - 1), v \in Types : \E j \in 0..(Occupy(v) - 1) :
               c \in bitmap[v] /\ Obj(n, u, i) = Obj(c, v, j)
    BY DEF IInv, Handed
  <2>2. c = n
    BY <2>1, ObjUnique
  <2>. QED
    BY <2>1, <2>2
<1>4. Exact(bm, usemap, objs)
  <2> SUFFICES ASSUME NEW b \in 0..(nblocks - 1), NEW u \in Types,
                      NEW i \in 0..(Occupy(u) - 1)
               PROVE  i \in usemap[b][u]
                        <=> b \in bm[u] /\ Obj(b, u, i) \in objs
    BY DEF Exact
  <2>1. i \in usemap[b][u] <=> b \in bitmap[u] /\ Obj(b, u, i) \in objs
    BY DEF IInv, Exact
  <2>2. b # n => (b \in bm[u] <=> b \in bitmap[u])
    BY DEF IInv, Distinct
  <2>. QED
    BY <1>3, <2>1, <2>2
<1>5. 0 \in FreeObjs(usemap, n, t)
  <2>1. 0 \in 0..(Occupy(t) - 1) /\ 0 \in 0..(8 * Bytes(Occupy(t)) - 1)
    BY OccupyType
  <2>2. 0 \notin usemap[n][t]
    BY <2>1 DEF IInv, Exact
  <2>. QED
    BY <2>1, <2>2 DEF FreeObjs
<1>. QED
  BY <1>1, <1>2, <1>4, <1>5

(* Taking the first free object of a block of its type.                    *)
LEMMA TakeObject ==
  ASSUME IInv, NEW bm, Distinct(bm), Exact(bm, usemap, objs), Handed(bm, objs),
         NEW t \in Types, NEW b \in bm[t], FreeObjs(usemap, b, t) # {},
         Return(b, t)
  PROVE  /\ Padded(usemap') /\ Exact(bm, usemap', objs') /\ Handed(bm, objs')
         /\ Counted' /\ rslt' \in Nat /\ rslt' # NULL
         /\ objs' \subseteq [addr : Nat, len : {TypeSize(u) : u \in Types}]
<1> DEFINE i == Least(FreeObjs(usemap, b, t))
           o == Obj(b, t, i)
<1>0. b \in 0..(nblocks - 1) /\ nblocks \in Nat
  BY DEF IInv, Distinct, TypeOK
<1>1. i \in FreeObjs(usemap, b, t)
  <2>1. FreeObjs(usemap, b, t) \in SUBSET Nat
    BY DEF FreeObjs
  <2>. QED
    BY <2>1, LeastIs
<1>2. i \in 0..(Occupy(t) - 1) /\ i \notin usemap[b][t]
  <2>1. i \in 0..(8 * Bytes(Occupy(t)) - 1) /\ i \notin usemap[b][t]
    BY <1>1 DEF FreeObjs
  <2>2. i \notin Occupy(t)..(8 * Bytes(Occupy(t)) - 1)
    BY <1>0, <2>1 DEF IInv, Padded
  <2> HIDE DEF i
  <2>. QED
    BY <2>1, <2>2, OccupyType
<1>3. /\ usemap' = [usemap EXCEPT ![b][t] = @ \cup {i}]
      /\ rslt' = o.addr
      /\ objs' = objs \cup {o}
      /\ nalloc' = nalloc + 1
  BY DEF Return, Obj
<1> HIDE DEF i
<1>4. /\ usemap' \in [0..(nblocks - 1) -> [Types -> SUBSET Nat]]
      /\ usemap'[b][t] = usemap[b][t] \cup {i}
      /\ \A c \in 0..(nblocks - 1), u \in Types :
           c # b \/ u # t => usemap'[c][u] = usemap[c][u]
  BY <1>0, <1>2, <1>3 DEF IInv, Padded
<1>5. Padded(usemap')
  <2> SUFFICES ASSUME NEW c \in 0..(nblocks - 1), NEW u \in Types
               PROVE  /\ usemap'[c][u] \subseteq 0..(8 * Bytes(Occupy(u)) - 1)
                      /\ \A j \in Occupy(u)..(8 * Bytes(Occupy(u)) - 1) :
                           j \in usemap'[c][u]
    BY <1>4 DEF Padded
  <2>1. /\ usemap[c][u] \subseteq 0..(8 * Bytes(Occupy(u)) - 1)
        /\ \A j \in Occupy(u)..(8 * Bytes(Occupy(u)) - 1) : j \in usemap[c][u]
    BY DEF IInv, Padded
  <2>2. i \in 0..(8 * Bytes(Occupy(t)) - 1)
    BY <1>2, OccupyType
  <2>. QED
    BY <1>4, <2>1, <2>2
<1>6. Exact(bm, usemap', objs')
  <2> SUFFICES ASSUME NEW c \in 0..(nblocks - 1), NEW u \in Types,
                      NEW j \in 0..(Occupy(u) - 1)
               PROVE  j \in usemap'[c][u]
                        <=> c \in bm[u] /\ Obj(c, u, j) \in objs'
    BY DEF Exact
  <2>1. j \in usemap[c][u] <=> c \in bm[u] /\ Obj(c, u, j) \in objs
    BY DEF Exact
  <2>2. CASE c = b /\ u = t /\ j = i
    BY <1>3, <1>4, <2>2
  <2>3. CASE ~(c = b /\ u = t /\ j = i)
    <3>1. Obj(c, u, j) # o
      <4>1. b \in Nat /\ c \in Nat
        BY <1>0
      <4>2. ASSUME Obj(c, u, j) = Obj(b, t, i) PROVE FALSE
        BY <1>2, <2>3, <4>1, <4>2, ObjUnique
      <4>. QED
        BY <4>2
    <3>2. j \in usemap'[c][u] <=> j \in usemap[c][u]
      BY <1>4, <2>3
    <3>. QED
      BY <1>3, <2>1, <3>1, <3>2
  <2>. QED
    BY <2>2, <2>3
<1>7. Handed(bm, objs')
  BY <1>0, <1>2, <1>3 DEF Handed
<1>8. Counted'
  <2>1. o \notin objs
    BY <1>0, <1>2 DEF Exact
  <2>. QED
    BY <1>3, <2>1, FS_AddElement DEF IInv, Counted, TypeOK
<1>9. /\ o.addr \in Nat /\ o.addr # 0 /\ o.len = TypeSize(t)
      /\ o = [addr |-> o.addr, len |-> o.len]
  <2>1. b \in Nat /\ block(b) > 0 /\ block(b) \in Nat
    BY <1>0 DEF block, BLOCK_SIZE
  <2>2. o.addr \in Nat /\ o.addr >= block(b) /\ o.len = TypeSize(t)
    BY <1>2, <2>1, ObjPlace
  <2>3. o = [addr |-> o.addr, len |-> o.len]
    BY DEF Obj
  <2> HIDE DEF o
  <2>. QED
    BY <2>1, <2>2, <2>3
<1>10. objs' \subseteq [addr : Nat, len : {TypeSize(u) : u \in Types}]
  <2>1. o \in [addr : Nat, len : {TypeSize(u) : u \in Types}]
    BY <1>9
  <2> HIDE DEF o
  <2>. QED
    BY <1>3, <2>1 DEF IInv, TypeOK
<1>. QED
  BY <1>3, <1>5, <1>6, <1>7, <1>8, <1>9, <1>10 DEF NULL

(* slub_alloc_from_existed: the block it finds is of the type and has      *)
(* room; when it finds none, the blocks in the first byte are full.        *)
LEMMA FromExisted ==
  ASSUME nblocks \in 1..(BLOCKS_MAX - 1),
         NEW bm \in [Types -> SUBSET (0..(nblocks - 1))], NEW t \in Types,
         NEW b, b = slub_alloc_from_existed(bm, usemap, t)
  PROVE  /\ b # -1 => /\ b \in bm[t] /\ FreeObjs(usemap, b, t) # {}
                        /\ \A c \in bm[t] : b \div 8 <= c \div 8
         /\ b = -1 => bm[t] = {} \/ \E k \in bm[t] :
              /\ \A c \in bm[t] : k \div 8 <= c \div 8
              /\ \A c \in bm[t] : c \div 8 = k \div 8
                                    => FreeObjs(usemap, c, t) = {}
<1> DEFINE C == Candidates(bm, usemap, t)
           F == {i \in 0..(bitmap_size - 1) : bm[t] \cap Byte(i) # {}}
<1>1. C \in SUBSET bm[t] /\ \A c \in C : FreeObjs(usemap, c, t) # {}
  BY DEF Candidates
<1>2. C \in SUBSET Nat /\ bm[t] \in SUBSET (0..(nblocks - 1))
  BY <1>1
<1>3. b = IF C = {} THEN -1 ELSE Least(C)
  BY DEF slub_alloc_from_existed
<1>4. C # {} => b \in C
  <2> HIDE DEF C
  <2>. QED
    BY <1>2, <1>3, LeastIs
<1>5. ASSUME bm[t] # {}
      PROVE  \E k \in bm[t] : /\ k \div 8 = FirstByte(bm, t)
                              /\ \A c \in bm[t] : k \div 8 <= c \div 8
  <2>1. \A c \in bm[t] : c \div 8 \in F
    <3> SUFFICES ASSUME NEW c \in bm[t] PROVE c \div 8 \in F
      OBVIOUS
    <3>1. c \in 0..(nblocks - 1) /\ c \div 8 \in 0..(bitmap_size - 1)
      BY <1>2, BitmapSize
    <3>2. c \in Nat /\ c \div 8 \in Nat
      BY <3>1
    <3>3. c \in Byte(c \div 8)
      BY <3>2, ByteOf
    <3>. QED
      BY <3>1, <3>3
  <2>2. F \in SUBSET Nat /\ F # {}
    BY <1>5, <2>1
  <2>3. FirstByte(bm, t) = Least(F)
    BY DEF FirstByte
  <2>4. PICK m \in F : m = Least(F) /\ \A y \in F : m <= y
    <3> HIDE DEF F
    <3>. QED
      BY <2>2, LeastIs
  <2>5. PICK k \in bm[t] : k \in Byte(m)
    BY <2>4
  <2>6. k \div 8 = m
    BY <1>2, <2>2, <2>4, <2>5, ByteOf
  <2>. QED
    BY <2>1, <2>3, <2>4, <2>6
<1>6. \A c \in bm[t] : c \in Byte(FirstByte(bm, t))
                         <=> c \div 8 = FirstByte(bm, t)
  BY <1>2, <1>5, ByteOf
<1>7. C = {c \in bm[t] : /\ c \div 8 = FirstByte(bm, t)
                         /\ FreeObjs(usemap, c, t) # {}}
  BY <1>6 DEF Candidates
<1> HIDE DEF C, F
<1>8. CASE C = {}
  BY <1>3, <1>5, <1>7, <1>8
<1>9. CASE C # {}
  <2>1. b \in C /\ b # -1
    BY <1>2, <1>4, <1>9
  <2>. QED
    BY <1>5, <1>7, <2>1
<1>. QED
  BY <1>8, <1>9

-----------------------------------------------------------------------------
(* The invariant is inductive *)

(* Before slub_format there is no block, no object and no bit of a map.    *)
LEMMA IInvInit == Init => IInv
<1> SUFFICES ASSUME Init PROVE IInv
  OBVIOUS
<1>1. TypeOK
  <2>1. DOMAIN usemap = {} /\ 0..(nblocks - 1) = {}
    BY DEF Init
  <2>2. nblocks \in 0..(BLOCKS_MAX - 1)
    BY DEF Init, BLOCKS_MAX
  <2>. QED
    BY <2>1, <2>2 DEF Init, TypeOK, NULL
<1>2. FormatInv /\ TopExact
  BY DEF Init, FormatInv, TopExact
<1>3. Distinct(bitmap) /\ OneByte(bitmap) /\ Filled(bitmap, top)
  BY DEF Init, Distinct, OneByte, Filled
<1>4. Padded(usemap) /\ Exact(bitmap, usemap, objs) /\ Handed(bitmap, objs)
  BY DEF Init, Padded, Exact, Handed
<1>5. Counted /\ NoAbortUpToEight
  BY FS_EmptySet DEF Init, Counted, NoAbortUpToEight
<1>. QED
  BY <1>1, <1>2, <1>3, <1>4, <1>5 DEF IInv

(* mem_shift_left of a map of ones leaves the padding of a use map set.    *)
LEMMA ShiftOnes ==
  ASSUME NEW t \in Types
  PROVE  LET len == Bytes(Occupy(t))
         IN mem_shift_left(0..(8 * len - 1), len, Occupy(t))
              = Occupy(t)..(8 * len - 1)
<1> DEFINE len == Bytes(Occupy(t))
<1>1. /\ Occupy(t) \in Nat \ {0} /\ len \in Nat \ {0}
      /\ Occupy(t) <= 8 * len
  BY OccupyType
<1> HIDE DEF len
<1>2. ASSUME NEW i \in Occupy(t)..(8 * len - 1)
      PROVE  i \in mem_shift_left(0..(8 * len - 1), len, Occupy(t))
  <2>1. i - Occupy(t) \in 0..(8 * len - 1) /\ i = (i - Occupy(t)) + Occupy(t)
    BY <1>1
  <2>. QED
    BY <1>1, <2>1 DEF mem_shift_left
<1>3. ASSUME NEW i \in mem_shift_left(0..(8 * len - 1), len, Occupy(t))
      PROVE  i \in Occupy(t)..(8 * len - 1)
  BY <1>1 DEF mem_shift_left
<1>4. mem_shift_left(0..(8 * len - 1), len, Occupy(t))
        = Occupy(t)..(8 * len - 1)
  BY <1>2, <1>3
<1>. QED
  BY <1>4 DEF len

(* slub_format keeps the invariant.                                        *)
LEMMA FormatStep ==
  ASSUME IInv, NEW sz \in Sizes, slub_format(sz)
  PROVE  IInv'
<1>1. /\ size = 0 /\ objs = {} /\ refused = {} /\ ~aborted
      /\ size' = sz /\ nblocks' = NBlocks(sz) /\ top' = TopFormat(nblocks')
      /\ bitmap' = [t \in Types |-> {}]
      /\ UNCHANGED <<rslt, aborted, objs, nalloc, refused>>
  BY DEF slub_format, IInv, FormatInv
<1>2. /\ sz \in Nat /\ sz # 0 /\ nblocks' \in 1..(BLOCKS_MAX - 1)
      /\ nblocks' = NBlocks(sz)
  BY SizesAssumption DEF slub_format, NBlocks, BLOCK_SIZE, BLOCKS_MAX
<1>3. usemap' = [b \in 0..(nblocks' - 1) |-> [t \in Types |->
                   Occupy(t)..(8 * Bytes(Occupy(t)) - 1)]]
  BY ShiftOnes DEF slub_format
<1>4. ASSUME NEW t \in Types
      PROVE  /\ Occupy(t)..(8 * Bytes(Occupy(t)) - 1)
                  \subseteq 0..(8 * Bytes(Occupy(t)) - 1)
             /\ \A i \in 0..(Occupy(t) - 1) :
                  i \notin Occupy(t)..(8 * Bytes(Occupy(t)) - 1)
             /\ Occupy(t)..(8 * Bytes(Occupy(t)) - 1) \in SUBSET Nat
  BY OccupyType
<1>5. TypeOK'
  <2>1. top' \subseteq 0..(8 * bitmap_size' - 1)
    BY <1>1, <1>2 DEF TopFormat, Byte, bitmap_size, Bytes, BLOCKS_MAX
  <2>2. \A b \in DOMAIN usemap' : \A t \in Types :
          usemap'[b][t] \subseteq 0..(8 * Bytes(Occupy(t)) - 1)
    BY <1>3, <1>4
  <2>. QED
    BY <1>1, <1>2, <1>3, <2>1, <2>2 DEF IInv, TypeOK
<1>6. FormatInv' /\ TopExact'
  BY <1>1, <1>2 DEF FormatInv, TopExact
<1>7. Distinct(bitmap)' /\ OneByte(bitmap)' /\ Filled(bitmap, top)'
  BY <1>1 DEF Distinct, OneByte, Filled
<1>8. Padded(usemap)'
  BY <1>3, <1>4 DEF Padded
<1>9. Exact(bitmap, usemap, objs)'
  BY <1>1, <1>3, <1>4 DEF Exact
<1>10. Handed(bitmap, objs)' /\ Counted' /\ NoAbortUpToEight'
  BY <1>1 DEF IInv, Handed, Counted, NoAbortUpToEight
<1>. QED
  BY <1>5, <1>6, <1>7, <1>8, <1>9, <1>10 DEF IInv

(* The steps of slub_alloc that end with an object, from bitmap bm.        *)
LEMMA ReturnStep ==
  ASSUME IInv, size # 0, ~aborted,
         NEW bm, Distinct(bm), Exact(bm, usemap, objs), Handed(bm, objs),
         OneByte(bm), Filled(bm, top'),
         NEW t \in Types, NEW b \in bm[t], FreeObjs(usemap, b, t) # {},
         Return(b, t), bitmap' = bm,
         UNCHANGED <<size, nblocks, aborted, refused>>,
         top' = TopFormat(nblocks) \cup UNION {bm[u] : u \in Types},
         top' \subseteq 0..(8 * bitmap_size - 1)
  PROVE  IInv'
<1>1. /\ Padded(usemap') /\ Exact(bm, usemap', objs') /\ Handed(bm, objs')
      /\ Counted' /\ rslt' \in Nat
      /\ objs' \subseteq [addr : Nat, len : {TypeSize(u) : u \in Types}]
      /\ nalloc' = nalloc + 1
  BY TakeObject DEF Return
<1>2. TypeOK'
  <2>1. /\ DOMAIN usemap' = 0..(nblocks - 1)
        /\ \A c \in DOMAIN usemap' : \A u \in Types :
             usemap'[c][u] \subseteq 0..(8 * Bytes(Occupy(u)) - 1)
    BY <1>1 DEF Padded
  <2>2. bitmap_size' = bitmap_size
    BY DEF bitmap_size
  <2>. QED
    BY <1>1, <2>1, <2>2 DEF IInv, TypeOK, Distinct
<1>3. FormatInv' /\ TopExact' /\ NoAbortUpToEight'
  BY DEF IInv, FormatInv, TopExact, NoAbortUpToEight
<1>4. Distinct(bitmap)' /\ OneByte(bitmap)' /\ Filled(bitmap, top)'
  BY DEF Distinct, OneByte, Filled
<1>5. Padded(usemap)' /\ Exact(bitmap, usemap, objs)' /\ Handed(bitmap, objs)'
  BY <1>1 DEF Padded, Exact, Handed
<1>. QED
  BY <1>1, <1>2, <1>3, <1>4, <1>5 DEF IInv

(* An allocation keeps the invariant.                                      *)
LEMMA AllocStep ==
  ASSUME IInv, NEW r \in Requests, slub_alloc(r)
  PROVE  IInv'
<1> DEFINE t == TypeOf(r)
           b == slub_alloc_from_existed(bitmap, usemap, t)
           n == alloc_index_from_top_bitmap(t)
           bm == [bitmap EXCEPT ![t] = @ \cup {n}]
           c == slub_alloc_from_existed(bm, usemap, t)
<1>1. t \in Types
  BY TypeOfType
<1>2. /\ size # 0 /\ ~aborted /\ nblocks \in 1..(BLOCKS_MAX - 1)
      /\ UNCHANGED <<size, nblocks>> /\ Distinct(bitmap) /\ OneByte(bitmap)
      /\ bitmap \in [Types -> SUBSET (0..(nblocks - 1))]
      /\ top = TopFormat(nblocks) \cup UNION {bitmap[u] : u \in Types}
      /\ top \subseteq 0..(8 * bitmap_size - 1)
  BY DEF slub_alloc, IInv, FormatInv, Distinct, TopExact, TypeOK
<1>3. \/ b # -1 /\ Return(b, t) /\ UNCHANGED <<top, bitmap, aborted, refused>>
      \/ /\ b = -1 /\ n = -1 /\ rslt' = NULL /\ refused' = refused \cup {t}
         /\ UNCHANGED <<top, bitmap, usemap, aborted, objs, nalloc>>
      \/ /\ b = -1 /\ n # -1 /\ top' = top \cup {n} /\ bitmap' = bm
         /\ UNCHANGED refused
         /\ \/ c # -1 /\ Return(c, t) /\ UNCHANGED aborted
            \/ /\ c = -1 /\ aborted' = TRUE
               /\ UNCHANGED <<usemap, rslt, objs, nalloc>>
  BY DEF slub_alloc
<1> HIDE DEF t
<1>4. CASE b # -1 /\ Return(b, t) /\ UNCHANGED <<top, bitmap, aborted, refused>>
  <2>1. b \in bitmap[t] /\ FreeObjs(usemap, b, t) # {}
    BY <1>1, <1>2, <1>4, FromExisted
  <2> HIDE DEF b
  <2>. QED
    BY <1>1, <1>2, <1>4, <2>1, ReturnStep DEF IInv
<1>5. CASE /\ b = -1 /\ n = -1 /\ rslt' = NULL /\ refused' = refused \cup {t}
           /\ UNCHANGED <<top, bitmap, usemap, aborted, objs, nalloc>>
  <2>1. TypeOK'
    BY <1>1, <1>2, <1>5 DEF IInv, TypeOK, NULL, bitmap_size
  <2>2. FormatInv' /\ TopExact' /\ NoAbortUpToEight' /\ Counted'
    BY <1>2, <1>5 DEF IInv, FormatInv, TopExact, NoAbortUpToEight, Counted
  <2>3. /\ Distinct(bitmap)' /\ Padded(usemap)' /\ Exact(bitmap, usemap, objs)'
        /\ Handed(bitmap, objs)' /\ OneByte(bitmap)' /\ Filled(bitmap, top)'
    BY <1>2, <1>5 DEF IInv, Distinct, Padded, Exact, Handed, OneByte, Filled
  <2>. QED
    BY <2>1, <2>2, <2>3 DEF IInv
<1>6. ASSUME b = -1, n # -1, top' = top \cup {n}, bitmap' = bm,
             UNCHANGED refused,
             \/ c # -1 /\ Return(c, t) /\ UNCHANGED aborted
             \/ /\ c = -1 /\ aborted' = TRUE
                /\ UNCHANGED <<usemap, rslt, objs, nalloc>>
      PROVE  IInv'
  <2>1. /\ n \in 0..(nblocks - 1)
        /\ \A u \in Types : n \notin bitmap[u]
        /\ n \notin top /\ \A e \in 0..(n - 1) : e \in top
    BY <1>1, <1>2, <1>6, NewBlock
  <2>2. \A d \in bitmap[t] : FreeObjs(usemap, d, t) = {}
    BY <1>1, <1>2, <1>6, FromExisted DEF OneByte
  <2> HIDE DEF b, n
  <2>0. /\ bm = [bitmap EXCEPT ![t] = @ \cup {n}]
        /\ c = slub_alloc_from_existed(bm, usemap, t)
    OBVIOUS
  <2> HIDE DEF bm, c
  <2>3. /\ Distinct(bm) /\ Exact(bm, usemap, objs) /\ Handed(bm, objs)
        /\ n \in bm[t] /\ FreeObjs(usemap, n, t) # {}
        /\ bm \in [Types -> SUBSET (0..(nblocks - 1))]
    <3>1. /\ Distinct(bm) /\ Exact(bm, usemap, objs) /\ Handed(bm, objs)
          /\ n \in bm[t] /\ FreeObjs(usemap, n, t) # {}
      BY <1>1, <2>0, <2>1, MarkBlock
    <3>. QED
      BY <3>1 DEF Distinct
  <2>4. bm[t] = bitmap[t] \cup {n} /\ \A u \in Types \ {t} : bm[u] = bitmap[u]
    BY <1>1, <1>2, <2>0
  <2>5. top' = TopFormat(nblocks) \cup UNION {bm[u] : u \in Types}
    BY <1>1, <1>2, <1>6, <2>4
  <2>6. top' \subseteq 0..(8 * bitmap_size - 1)
    BY <1>2, <1>6, <2>1, BitmapSize
  <2>7. Filled(bm, top')
    <3> SUFFICES ASSUME NEW u \in Types, NEW d \in bm[u], NEW e \in 0..d
                 PROVE  e \in top'
      BY DEF Filled
    <3>1. CASE d \in bitmap[u]
      BY <1>6, <3>1 DEF IInv, Filled
    <3>2. CASE d = n
      BY <1>6, <2>1, <3>2
    <3>. QED
      BY <1>1, <2>4, <3>1, <3>2
  <2>8. CASE c # -1 /\ Return(c, t) /\ UNCHANGED aborted
    <3>1. /\ c \in bm[t] /\ FreeObjs(usemap, c, t) # {}
          /\ \A d \in bm[t] : c \div 8 <= d \div 8
      BY <1>1, <1>2, <2>0, <2>3, <2>8, FromExisted
    <3>2. c = n
      BY <2>2, <2>4, <3>1
    <3>3. \A d \in bitmap[t] : n \div 8 = d \div 8
      <4> SUFFICES ASSUME NEW d \in bitmap[t] PROVE n \div 8 = d \div 8
        OBVIOUS
      <4>1. d \in 0..(nblocks - 1) /\ n \div 8 <= d \div 8
        BY <1>1, <1>2, <2>4, <3>1, <3>2
      <4>2. n \notin 0..d
        BY <1>1, <2>1 DEF IInv, Filled
      <4>. QED
        BY <1>2, <2>1, <4>1, <4>2
    <3>4. OneByte(bm)
      BY <1>1, <1>2, <2>4, <3>3 DEF OneByte
    <3>. QED
      BY <1>1, <1>2, <1>6, <2>3, <2>5, <2>6, <2>7, <2>8, <3>1, <3>4, ReturnStep
  <2>9. CASE /\ c = -1 /\ aborted' = TRUE
             /\ UNCHANGED <<usemap, rslt, objs, nalloc>>
    <3>1. ~(nblocks <= 8)
      <4>1. PICK k \in bm[t] : \A d \in bm[t] : d \div 8 = k \div 8
                                 => FreeObjs(usemap, d, t) = {}
        BY <1>1, <1>2, <2>0, <2>3, <2>9, FromExisted
      <4>2. ASSUME nblocks <= 8 PROVE \A d \in 0..(nblocks - 1) : d \div 8 = 0
        BY <1>2, <4>2
      <4>3. bm[t] \subseteq 0..(nblocks - 1)
        BY <1>1, <2>3
      <4>. QED
        BY <2>3, <4>1, <4>2, <4>3
    <3>2. TypeOK'
      BY <1>2, <1>6, <2>3, <2>6, <2>9 DEF IInv, TypeOK, bitmap_size
    <3>3. FormatInv' /\ TopExact' /\ NoAbortUpToEight' /\ Counted'
      BY <1>2, <1>6, <2>5, <2>9, <3>1
      DEF IInv, FormatInv, TopExact, NoAbortUpToEight, Counted
    <3>4. bitmap' = bm /\ usemap' = usemap /\ objs' = objs /\ nblocks' = nblocks
      BY <1>2, <1>6, <2>9
    <3>5. Distinct(bitmap)' /\ Filled(bitmap, top)'
      BY <2>3, <2>7, <3>4 DEF Distinct, Filled
    <3>6. Padded(usemap)'
      BY <3>4 DEF IInv, Padded
    <3>7. Exact(bitmap, usemap, objs)'
      BY <2>3, <3>4 DEF Exact
    <3>8. Handed(bitmap, objs)'
      BY <2>3, <3>4 DEF Handed
    <3>. QED
      BY <2>9, <3>2, <3>3, <3>5, <3>6, <3>7, <3>8 DEF IInv
  <2>. QED
    BY <1>6, <2>8, <2>9
<1>. QED
  BY <1>3, <1>4, <1>5, <1>6

(* The invariant holds in every reachable state.                           *)
THEOREM Inductive == Spec => []IInv
<1>1. Init => IInv
  BY IInvInit
<1>2. IInv /\ [Next]_vars => IInv'
  <2> SUFFICES ASSUME IInv, [Next]_vars PROVE IInv'
    OBVIOUS
  <2>1. CASE UNCHANGED vars
    <3>1. TypeOK' /\ FormatInv' /\ TopExact' /\ NoAbortUpToEight' /\ Counted'
      BY <2>1 DEF vars, IInv, TypeOK, FormatInv, TopExact, NoAbortUpToEight,
                  Counted, bitmap_size
    <3>2. /\ Distinct(bitmap)' /\ Padded(usemap)' /\ Filled(bitmap, top)'
          /\ Exact(bitmap, usemap, objs)' /\ Handed(bitmap, objs)'
          /\ OneByte(bitmap)' <=> OneByte(bitmap)
      BY <2>1 DEF vars, IInv, Distinct, Padded, Exact, Handed, Filled, OneByte
    <3>. QED
      BY <2>1, <3>1, <3>2 DEF vars, IInv
  <2>2. ASSUME NEW sz \in Sizes, slub_format(sz) PROVE IInv'
    BY <2>2, FormatStep
  <2>3. ASSUME NEW r \in Requests, slub_alloc(r) PROVE IInv'
    BY <2>3, AllocStep
  <2>. QED
    BY <2>1, <2>2, <2>3 DEF Next, FormatFails, slub_free
<1>. QED
  BY <1>1, <1>2, PTL DEF Spec

-----------------------------------------------------------------------------
(* What follows from it *)

(* In a region of at most eight blocks no sequence of requests fails the   *)
(* assertion of slub_alloc.                                                *)
THEOREM NoAbort == Spec => []NoAbortUpToEight
<1>1. IInv => NoAbortUpToEight
  BY DEF IInv
<1>. QED
  BY <1>1, Inductive, PTL

(* Types, the owner of every block and the bits of every use map agree.    *)
THEOREM MapsCorrect == Spec => []MapsExact
<1>1. IInv => MapsExact
  <2> SUFFICES ASSUME IInv PROVE MapsExact
    OBVIOUS
  <2>1. TypeOK /\ BlocksOwned
    <3>1. ASSUME size # 0, NEW b \in 0..(8 * bitmap_size - 1)
          PROVE  b \in top <=> \/ \E t \in Types : b \in bitmap[t]
                               \/ b >= nblocks
                               \/ nblocks % 8 = 0 /\ b >= nblocks - 8
      <4>1. nblocks \in 1..(BLOCKS_MAX - 1)
        BY <3>1 DEF IInv, FormatInv
      <4>2. b \in TopFormat(nblocks)
              <=> b >= nblocks \/ (nblocks % 8 = 0 /\ b >= nblocks - 8)
        BY <3>1, <4>1, TopFormatIs DEF bitmap_size
      <4>3. b \in top <=> b \in TopFormat(nblocks)
                            \/ \E t \in Types : b \in bitmap[t]
        BY <3>1 DEF IInv, TopExact
      <4>. QED
        BY <4>2, <4>3
    <3>2. \A t, u \in Types : t # u => bitmap[t] \cap bitmap[u] = {}
      BY DEF IInv, Distinct
    <3>. QED
      BY <3>1, <3>2 DEF IInv, BlocksOwned
  <2>2. UsemapExact
    <3> SUFFICES ASSUME NEW b \in 0..(nblocks - 1), NEW t \in Types
                 PROVE  usemap[b][t] \cap 0..(Occupy(t) - 1) =
                          {i \in 0..(Occupy(t) - 1) : b \in bitmap[t] /\
                             Obj(b, t, i) \in objs}
      BY DEF UsemapExact, Obj
    <3>. QED
      BY DEF IInv, Exact
  <2>. QED
    BY <2>1, <2>2 DEF MapsExact
<1>. QED
  BY <1>1, Inductive, PTL

(* No memory is handed out twice, and none outside the blocks.             *)
THEOREM NoOverlap == Spec => []ObjectsDisjoint
<1>1. IInv => ObjectsDisjoint
  <2> SUFFICES ASSUME IInv PROVE ObjectsDisjoint
    OBVIOUS
  <2>0. \A b \in 0..(nblocks - 1) : b \in Nat /\ b + 1 <= nblocks
    BY DEF IInv, TypeOK
  <2>1. ASSUME NEW o \in objs, NEW p \in objs, o # p
        PROVE  o.addr + o.len <= p.addr \/ p.addr + p.len <= o.addr
    <3>1. PICK b \in 0..(nblocks - 1), t \in Types :
            \E i \in 0..(Occupy(t) - 1) : b \in bitmap[t] /\ o = Obj(b, t, i)
      BY DEF IInv, Handed
    <3>2. PICK i \in 0..(Occupy(t) - 1) : b \in bitmap[t] /\ o = Obj(b, t, i)
      BY <3>1
    <3>3. PICK c \in 0..(nblocks - 1), u \in Types :
            \E j \in 0..(Occupy(u) - 1) : c \in bitmap[u] /\ p = Obj(c, u, j)
      BY DEF IInv, Handed
    <3>4. PICK j \in 0..(Occupy(u) - 1) : c \in bitmap[u] /\ p = Obj(c, u, j)
      BY <3>3
    <3>5. b = c => t = u
      BY <3>2, <3>4 DEF IInv, Distinct
    <3>6. b # c \/ (t = u /\ i # j)
      BY <2>1, <3>2, <3>4, <3>5
    <3>. QED
      BY <2>0, <3>2, <3>4, <3>6, ObjDisjoint
  <2>2. ASSUME NEW o \in objs
        PROVE  \E b \in 0..(nblocks - 1) :
                 o.addr >= block(b) /\ o.addr + o.len <= block(b + 1)
    <3>1. PICK b \in 0..(nblocks - 1), t \in Types :
            \E i \in 0..(Occupy(t) - 1) : o = Obj(b, t, i)
      BY DEF IInv, Handed
    <3>2. o.addr >= block(b) /\ o.addr + o.len <= block(b + 1)
      BY <2>0, <3>1, ObjPlace
    <3>. QED
      BY <3>2
  <2>. QED
    BY <2>1, <2>2 DEF ObjectsDisjoint, IInv, Counted
<1>. QED
  BY <1>1, Inductive, PTL

(* Objects of all blocks but the last lie in the region, and the header    *)
(* of up to 30 blocks ends before the first of them.                       *)
THEOREM PlacementCorrect == Spec => []Placement
<1>1. IInv => Placement
  <2> SUFFICES ASSUME IInv PROVE Placement
    OBVIOUS
  <2>1. HeaderFits
    <3>1. nblocks \in 0..31
      BY DEF IInv, TypeOK, BLOCKS_MAX
    <3>2. bitmap_size \in 0..4 /\ bitmap_size = (nblocks + 7) \div 8
      BY <3>1 DEF bitmap_size, Bytes
    <3>. QED
      BY <3>1, <3>2, UsemapSize
      DEF HeaderFits, SizeofSlub, block, BLOCK_SIZE, BLOCKS_MAX
  <2>2. ASSUME NEW o \in objs
        PROVE  o.addr + o.len <= size \/ o.addr >= block(nblocks - 1)
    <3>1. PICK b \in 0..(nblocks - 1), t \in Types :
            \E i \in 0..(Occupy(t) - 1) : o = Obj(b, t, i)
      BY DEF IInv, Handed
    <3>2. /\ nblocks \in 1..31 /\ size \in Nat
          /\ nblocks * BLOCK_SIZE <= size
      <4>1. size # 0
        BY DEF IInv, FormatInv
      <4>2. nblocks = NBlocks(size) /\ nblocks \in 1..31
        BY <4>1 DEF IInv, FormatInv, BLOCKS_MAX
      <4>3. size \in Nat
        BY SizesAssumption DEF IInv, TypeOK
      <4>. QED
        BY <4>2, <4>3 DEF NBlocks, BLOCK_SIZE, BLOCKS_MAX
    <3>3. b \in Nat
      OBVIOUS
    <3>4. /\ o.addr \in Nat /\ o.len \in Nat
          /\ o.addr >= block(b) /\ o.addr + o.len <= block(b + 1)
      BY <3>1, <3>3, ObjPlace
    <3>. QED
      BY <3>2, <3>3, <3>4 DEF block, BLOCK_SIZE
  <2>. QED
    BY <2>1, <2>2 DEF Placement, InRegion
<1>. QED
  BY <1>1, Inductive, PTL

(* A type that was refused an object can never get one again: every block  *)
(* is in use and those of the type are full.                               *)
RefusedInv ==
  \A t \in refused :
    /\ 0..(8 * bitmap_size - 1) \subseteq top
    /\ \A d \in bitmap[t] : FreeObjs(usemap, d, t) = {}

(* The ways a call of slub_alloc ends.  Once every block is in use no type *)
(* gets another one; the answer is an object of a block the type has, or   *)
(* NULL, and then the blocks of the type are full.                         *)
LEMMA AllocEnds ==
  ASSUME IInv, NEW r \in Requests, slub_alloc(r)
  PROVE  \/ /\ refused' = refused /\ top \subseteq top'
            /\ ~(0..(8 * bitmap_size - 1) \subseteq top)
         \/ /\ refused' = refused /\ UNCHANGED <<top, bitmap>>
            /\ \A d \in 0..(nblocks - 1), u \in Types :
                 usemap[d][u] \subseteq usemap'[d][u]
         \/ /\ refused' = refused \cup {TypeOf(r)}
            /\ UNCHANGED <<top, bitmap, usemap>>
            /\ 0..(8 * bitmap_size - 1) \subseteq top
            /\ \A d \in bitmap[TypeOf(r)] : FreeObjs(usemap, d, TypeOf(r)) = {}
<1> DEFINE t == TypeOf(r)
           b == slub_alloc_from_existed(bitmap, usemap, t)
           n == alloc_index_from_top_bitmap(t)
           bm == [bitmap EXCEPT ![t] = @ \cup {n}]
           c == slub_alloc_from_existed(bm, usemap, t)
<1>1. t \in Types
  BY TypeOfType
<1>2. /\ size # 0 /\ ~aborted /\ nblocks \in 1..(BLOCKS_MAX - 1)
      /\ UNCHANGED <<size, nblocks>> /\ Distinct(bitmap) /\ OneByte(bitmap)
      /\ bitmap \in [Types -> SUBSET (0..(nblocks - 1))]
      /\ Exact(bitmap, usemap, objs) /\ Handed(bitmap, objs)
  BY DEF slub_alloc, IInv, FormatInv, Distinct
<1>3. \/ b # -1 /\ Return(b, t) /\ UNCHANGED <<top, bitmap, refused>>
      \/ /\ b = -1 /\ n = -1 /\ refused' = refused \cup {t}
         /\ UNCHANGED <<top, bitmap, usemap>>
      \/ b = -1 /\ n # -1 /\ top' = top \cup {n} /\ refused' = refused
  BY DEF slub_alloc
<1>4. n = -1 <=> 0..(8 * bitmap_size - 1) \subseteq top
  <2> DEFINE Free == 0..(8 * bitmap_size - 1) \ top
  <2>1. n = IF Free = {} THEN -1 ELSE Least(Free)
    BY DEF alloc_index_from_top_bitmap
  <2>2. /\ Free \in SUBSET Nat
        /\ Free = {} <=> 0..(8 * bitmap_size - 1) \subseteq top
    OBVIOUS
  <2> HIDE DEF Free, n
  <2>3. Free # {} => Least(Free) \in Nat
    BY <2>2, LeastIs
  <2>. QED
    BY <2>1, <2>2, <2>3
<1>5. b = -1 => \A d \in bitmap[t] : FreeObjs(usemap, d, t) = {}
  BY <1>1, <1>2, FromExisted DEF OneByte
<1> HIDE DEF b, n, bm, c
<1>6. CASE b # -1 /\ Return(b, t) /\ UNCHANGED <<top, bitmap, refused>>
  <2>1. \A d \in 0..(nblocks - 1), u \in Types :
          usemap[d][u] \subseteq usemap'[d][u]
    BY <1>6 DEF Return, IInv, Padded
  <2>. QED
    BY <1>6, <2>1
<1>7. CASE /\ b = -1 /\ n = -1 /\ refused' = refused \cup {t}
           /\ UNCHANGED <<top, bitmap, usemap>>
  BY <1>4, <1>5, <1>7
<1>8. CASE b = -1 /\ n # -1 /\ top' = top \cup {n} /\ refused' = refused
  BY <1>4, <1>8
<1>. QED
  BY <1>3, <1>6, <1>7, <1>8

(* A refused type stays without an object for ever, and a type is refused  *)
(* only when there is none.                                                *)
LEMMA RefusedStep ==
  ASSUME IInv, RefusedInv, [Next]_vars
  PROVE  RefusedInv'
<1>1. ASSUME NEW r \in Requests, slub_alloc(r) PROVE RefusedInv'
  <2>1. UNCHANGED <<nblocks, bitmap_size>>
    BY <1>1 DEF slub_alloc, bitmap_size
  <2>2. TypeOf(r) \in Types /\ refused \subseteq Types
    BY TypeOfType DEF IInv, TypeOK
  <2>3. \A u \in Types : bitmap[u] \subseteq 0..(nblocks - 1)
    BY DEF IInv, Distinct
  <2>4. CASE /\ refused' = refused /\ top \subseteq top'
             /\ ~(0..(8 * bitmap_size - 1) \subseteq top)
    BY <2>4 DEF RefusedInv
  <2>5. CASE /\ refused' = refused /\ UNCHANGED <<top, bitmap>>
             /\ \A d \in 0..(nblocks - 1), u \in Types :
                  usemap[d][u] \subseteq usemap'[d][u]
    BY <2>1, <2>2, <2>3, <2>5 DEF RefusedInv, FreeObjs
  <2>6. CASE /\ refused' = refused \cup {TypeOf(r)}
             /\ UNCHANGED <<top, bitmap, usemap>>
             /\ 0..(8 * bitmap_size - 1) \subseteq top
             /\ \A d \in bitmap[TypeOf(r)] :
                  FreeObjs(usemap, d, TypeOf(r)) = {}
    BY <2>1, <2>6 DEF RefusedInv, FreeObjs
  <2>. QED
    BY <1>1, <2>4, <2>5, <2>6, AllocEnds
<1>2. ASSUME NEW sz \in Sizes, slub_format(sz) PROVE RefusedInv'
  <2>1. refused = {} /\ refused' = refused
    BY <1>2 DEF slub_format, IInv, FormatInv
  <2>. QED
    BY <2>1 DEF RefusedInv
<1>3. CASE UNCHANGED vars
  BY <1>3 DEF vars, RefusedInv, bitmap_size, FreeObjs
<1>. QED
  BY <1>1, <1>2, <1>3 DEF Next, FormatFails, slub_free

(* NULL is the answer only when every block is in use and those of the     *)
(* wanted type are full, unless the blocks are a multiple of eight.        *)
THEOREM NullCorrect == Spec => []NullOnlyWhenFull
<1>1. Init => RefusedInv
  BY DEF Init, RefusedInv
<1>2. IInv /\ RefusedInv /\ [Next]_vars => RefusedInv'
  BY RefusedStep
<1>3. IInv /\ RefusedInv => NullOnlyWhenFull
  <2> SUFFICES ASSUME IInv, RefusedInv, nblocks % 8 # 0, NEW t \in refused,
                      NEW b \in 0..(nblocks - 1)
               PROVE  /\ \E u \in Types : b \in bitmap[u]
                      /\ b \in bitmap[t]
                           => 0..(Occupy(t) - 1) \subseteq usemap[b][t]
    BY DEF NullOnlyWhenFull, Full
  <2>1. t \in Types /\ size # 0
    BY DEF IInv, TypeOK, FormatInv
  <2>2. /\ nblocks \in 1..(BLOCKS_MAX - 1)
        /\ top = TopFormat(nblocks) \cup UNION {bitmap[u] : u \in Types}
    BY <2>1 DEF IInv, FormatInv, TopExact
  <2>3. b \in 0..(8 * bitmap_size - 1)
    BY <2>2, BitmapSize
  <2>4. b \notin TopFormat(nblocks)
    BY <2>2, <2>3, TopFormatIs DEF bitmap_size
  <2>5. b \in top
    BY <2>3 DEF RefusedInv
  <2>6. b \in bitmap[t] => 0..(Occupy(t) - 1) \subseteq usemap[b][t]
    BY <2>1, OccupyType DEF FreeObjs, RefusedInv
  <2>. QED
    BY <2>2, <2>4, <2>5, <2>6
<1>. QED
  BY <1>1, <1>2, <1>3, Inductive, PTL DEF Spec
=============================================================================
