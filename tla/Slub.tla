-------------------------------- MODULE Slub --------------------------------
(***************************************************************************)
(* The allocator of slub.c.  A region of memory is cut into blocks of      *)
(* BLOCK_SIZE bytes; the first holds the header: slub_t, a bitmap of the   *)
(* blocks in use (top), a bitmap of the blocks of every type of object     *)
(* (bitmap), and for each block and type a bitmap of the objects in use    *)
(* (usemap).  A bitmap is the set of the bits that are 1, the ones that    *)
(* pad its last byte included.                                             *)
(*                                                                         *)
(* A failing assert() sets aborted.  objs is a history variable: the       *)
(* intervals of memory handed out, and refused one of the answers NULL.    *)
(* slub_free() is empty, so nothing is ever taken back.                    *)
(***************************************************************************)
EXTENDS Integers, FiniteSets

CONSTANTS
  Sizes,      \* region sizes slub_format is called with
  Requests    \* object sizes slub_alloc is called with

BLOCKS_MAX == 32
BLOCK_SIZE == 4096
SizeofSlub == 64           \* sizeof(slub_t): eight words of eight bytes
NULL == 0

(* The table slub_objs_shift: an object of type t has 2^shift bytes, and   *)
(* RESOLV_OCCUPY computes how many a block holds.                          *)
Types == 1..9
Shift == [t \in Types |-> t + 2]
TypeSize(t) == 2^Shift[t]
Occupy_up(t) == BLOCK_SIZE \div TypeSize(t) + 1 \* mutant: one object too many
Occupy(t) == BLOCK_SIZE \div TypeSize(t)

ASSUME SizesAssumption == Sizes \subseteq Nat \ {0}
ASSUME RequestsAssumption == Requests \subseteq 1..TypeSize(9)

VARIABLES
  size,       \* the size of the region, 0 before slub_format
  nblocks,    \* slb->nblocks
  top,        \* the first map of slb->bitmap: blocks in use
  bitmap,     \* the other maps of slb->bitmap: the blocks of each type
  usemap,     \* slb->usemap: of each block and type, the objects in use
  rslt,       \* what the last slub_alloc returned: an address or NULL
  aborted,
  objs,       \* history: the objects handed out
  nalloc,     \* history: how many slub_alloc calls returned one
  refused     \* history: the types slub_alloc has returned NULL for

vars == <<size, nblocks, top, bitmap, usemap, rslt, aborted, objs, nalloc,
          refused>>

(* Bytes are counted from the start of the region. *)
Bytes(nbits) == (nbits + 7) \div 8
Byte(i) == (8 * i)..(8 * i + 7)
bitmap_size == Bytes(nblocks)
block(b) == BLOCK_SIZE + b * BLOCK_SIZE
Least(S) == CHOOSE x \in S : \A y \in S : x <= y

TypeOK ==
  /\ size \in Sizes \cup {0}
  /\ nblocks \in 0..(BLOCKS_MAX - 1)
  /\ top \subseteq 0..(8 * bitmap_size - 1)
  /\ bitmap \in [Types -> SUBSET (0..(nblocks - 1))]
  /\ DOMAIN usemap = 0..(nblocks - 1)
  /\ \A b \in DOMAIN usemap : \A t \in Types :
       usemap[b][t] \subseteq 0..(8 * Bytes(Occupy(t)) - 1)
  /\ rslt \in Nat
  /\ aborted \in BOOLEAN
  /\ objs \subseteq [addr : Nat, len : {TypeSize(t) : t \in Types}]
  /\ nalloc \in Nat
  /\ refused \subseteq Types

Init ==
  /\ size = 0
  /\ nblocks = 0
  /\ top = {}
  /\ bitmap = [t \in Types |-> {}]
  /\ usemap = [b \in {} |-> {}]
  /\ rslt = NULL
  /\ aborted = FALSE
  /\ objs = {}
  /\ nalloc = 0
  /\ refused = {}

-----------------------------------------------------------------------------
(* mem_shift_left: a map of len bytes moves up by n bits. *)
mem_shift_left(map, len, n) == {i + n : i \in map} \cap 0..(8 * len - 1)

(* The bytes of the use maps of the first t types of one block; those of  *)
(* all types are slb->usemap_size.                                         *)
usemap_offset[t \in 0..9] ==
  IF t = 0 THEN 0 ELSE usemap_offset[t - 1] + Bytes(Occupy(t))
usemap_size == usemap_offset[9]

NBlocks_up(sz) == sz \div BLOCK_SIZE + 1  \* mutant: rounds up, no limit
NBlocks(sz) == IF sz \div BLOCK_SIZE >= BLOCKS_MAX
               THEN BLOCKS_MAX - 1 ELSE sz \div BLOCK_SIZE

TopFormat_inclusive(n) ==           \* mutant: one bit too many
  {i \in Byte(Bytes(n) - 1) : i - 8 * (Bytes(n) - 1) >= (n % 8) - 1}
(* The last byte of the top bitmap is set to ~0 << (nblocks % 8).          *)
TopFormat(n) ==
  {i \in Byte(Bytes(n) - 1) : i - 8 * (Bytes(n) - 1) >= n % 8}

slub_format(sz) ==
  /\ size = 0
  /\ sz - BLOCK_SIZE >= BLOCK_SIZE
  /\ size' = sz
  /\ nblocks' = NBlocks(sz)
  /\ top' = TopFormat(nblocks')
  /\ bitmap' = [t \in Types |-> {}]
  /\ usemap' = [b \in 0..(nblocks' - 1) |-> [t \in Types |->
                 LET len == Bytes(Occupy(t))
                 IN mem_shift_left(0..(8 * len - 1), len, Occupy(t))]]
  /\ UNCHANGED <<rslt, aborted, objs, nalloc, refused>>

(* "NO ENOUGH MEM": returns -1 and writes nothing. *)
FormatFails(sz) ==
  /\ size = 0
  /\ sz - BLOCK_SIZE < BLOCK_SIZE
  /\ UNCHANGED vars

-----------------------------------------------------------------------------
(* alloc_index_from_usemap: the first 0 bit of block b's map of type t. *)
FreeObjs(um, b, t) == (0..(8 * Bytes(Occupy(t)) - 1)) \ um[b][t]

(* slub_alloc_from_existed looks at the first byte of the type's bitmap    *)
(* that is not 0 and takes the first block of it with a free object; it    *)
(* never looks at the bytes after it.  -1: no such block.                  *)
FirstByte(bm, t) ==
  Least({i \in 0..(bitmap_size - 1) : bm[t] \cap Byte(i) # {}})
Candidates_first(bm, um, t) ==      \* mutant: only the first block is tried
  IF bm[t] = {} THEN {} ELSE {b \in {Least(bm[t])} : FreeObjs(um, b, t) # {}}
Candidates(bm, um, t) ==
  IF bm[t] = {} THEN {}
  ELSE {b \in bm[t] \cap Byte(FirstByte(bm, t)) : FreeObjs(um, b, t) # {}}
slub_alloc_from_existed(bm, um, t) ==
  IF Candidates(bm, um, t) = {} THEN -1 ELSE Least(Candidates(bm, um, t))

alloc_index_from_top_bitmap_type(t) == \* mutant: searches the type's bitmap
  LET Free == 0..(nblocks - 1) \ bitmap[t]
  IN IF Free = {} THEN -1 ELSE Least(Free)
(* alloc_index_from_top_bitmap: the first block not in use, -1 if none.    *)
(* The caller marks it in the bitmap of type t.                            *)
alloc_index_from_top_bitmap(t) ==
  LET Free == 0..(8 * bitmap_size - 1) \ top
  IN IF Free = {} THEN -1 ELSE Least(Free)

TypeOf(obj_size) == Least({t \in Types : obj_size <= TypeSize(t)})

Return(b, t) ==
  LET i == Least(FreeObjs(usemap, b, t))
      addr == block(b) + i * TypeSize(t)
  IN /\ usemap' = [usemap EXCEPT ![b][t] = @ \cup {i}]
     /\ rslt' = addr
     /\ objs' = objs \cup {[addr |-> addr, len |-> TypeSize(t)]}
     /\ nalloc' = nalloc + 1

slub_alloc(obj_size) ==
  /\ size # 0
  /\ ~aborted
  /\ LET t == TypeOf(obj_size)
         b == slub_alloc_from_existed(bitmap, usemap, t)
         n == alloc_index_from_top_bitmap(t)
         bm == [bitmap EXCEPT ![t] = @ \cup {n}]
         c == slub_alloc_from_existed(bm, usemap, t)
     IN \/ /\ b # -1
           /\ Return(b, t)
           /\ UNCHANGED <<top, bitmap, aborted, refused>>
        \/ /\ b = -1 /\ n = -1
           /\ rslt' = NULL
           /\ refused' = refused \cup {t}
           /\ UNCHANGED <<top, bitmap, usemap, aborted, objs, nalloc>>
        \/ /\ b = -1 /\ n # -1
           /\ top' = top \cup {n}
           /\ bitmap' = bm
           /\ UNCHANGED refused
           /\ \/ /\ c # -1
                 /\ Return(c, t)
                 /\ UNCHANGED aborted
              \/ /\ c = -1
                 /\ aborted' = TRUE
                 /\ UNCHANGED <<usemap, rslt, objs, nalloc>>
  /\ UNCHANGED <<size, nblocks>>

slub_free ==
  /\ size # 0
  /\ ~aborted
  /\ UNCHANGED vars

Next ==
  \/ \E sz \in Sizes : slub_format(sz) \/ FormatFails(sz)
  \/ \E r \in Requests : slub_alloc(r)
  \/ slub_free

Spec == Init /\ [][Next]_vars

-----------------------------------------------------------------------------
(* Properties *)

(* assert(NULL != rslt) at slub.c:400: the block just taken from the top   *)
(* bitmap has room for the object it was taken for.                        *)
NoAssertFails == ~aborted

(* In a region of at most eight blocks, whose bitmaps are one byte each,   *)
(* that assertion holds whatever is allocated in which order.              *)
NoAbortUpToEight == nblocks <= 8 => ~aborted

(* A block belongs to one type, and the top bitmap marks exactly the       *)
(* blocks that belong to a type and the bits that are no block's; where    *)
(* the number of blocks is a multiple of eight the last eight blocks too,  *)
(* from the start (slub.c:240, see TopTruthful).                           *)
BlocksOwned ==
  /\ \A t, u \in Types : t # u => bitmap[t] \cap bitmap[u] = {}
  /\ size # 0 => \A b \in 0..(8 * bitmap_size - 1) :
       b \in top <=> \/ \E t \in Types : b \in bitmap[t]
                     \/ b >= nblocks
                     \/ nblocks % 8 = 0 /\ b >= nblocks - 8

(* No memory is handed out twice: the objects are as many as the calls     *)
(* that returned one, no two of them overlap, and each lies in one of the  *)
(* nblocks blocks that follow the first BLOCK_SIZE bytes.  Whether those   *)
(* blocks are clear of the header and inside the region is Placement.      *)
ObjectsDisjoint ==
  /\ Cardinality(objs) = nalloc
  /\ \A o, p \in objs : o = p \/ o.addr + o.len <= p.addr
                              \/ p.addr + p.len <= o.addr
  /\ \A o \in objs : \E b \in 0..(nblocks - 1) :
       o.addr >= block(b) /\ o.addr + o.len <= block(b + 1)

(* The bits of the use maps say what was handed out: in a block of type t  *)
(* exactly the objects returned are marked; in a block of another type     *)
(* none is, besides the padding.                                           *)
UsemapExact ==
  \A b \in 0..(nblocks - 1), t \in Types :
    usemap[b][t] \cap 0..(Occupy(t) - 1) =
      {i \in 0..(Occupy(t) - 1) : b \in bitmap[t] /\
         [addr |-> block(b) + i * TypeSize(t), len |-> TypeSize(t)] \in objs}

(* The first bitmap records "the use of all blocks, that is whether they   *)
(* are used" (slub.c:64).  With a multiple of eight blocks it does not:    *)
(* slub_format sets its last byte to ~0 << 0, and the last eight blocks    *)
(* are never handed out.                                                   *)
TopTruthful ==
  \A b \in 0..(nblocks - 1) :
    b \in top <=> \E t \in Types : b \in bitmap[t]

(* slub_alloc answers NULL only when the memory is used up: every block    *)
(* belongs to a type and those of the wanted type are full.  It is so      *)
(* unless the number of blocks is a multiple of eight.                     *)
Full(t) ==
  \A b \in 0..(nblocks - 1) :
    /\ \E u \in Types : b \in bitmap[u]
    /\ b \in bitmap[t] => 0..(Occupy(t) - 1) \subseteq usemap[b][t]
NullOnlyWhenFull == nblocks % 8 # 0 => \A t \in refused : Full(t)

(* An object lies in the region that was given to slub_format, unless it   *)
(* is of the last block: slub.c:213 counts the header's block too, and the *)
(* last block begins where the region ends.                                *)
InRegion ==
  \A o \in objs : o.addr + o.len <= size \/ o.addr >= block(nblocks - 1)

(* The header ends before the first block begins, so that no store into an *)
(* object changes a map, for up to 30 blocks; at the limit of 31 that      *)
(* slub.c:216 sets it does not.                                            *)
HeaderFits ==
  nblocks < BLOCKS_MAX - 1 =>
    SizeofSlub + bitmap_size * 10 + usemap_size * nblocks <= block(0)

(* The three kinds of bitmaps, the objects handed out and the types of the *)
(* blocks agree after every call.                                          *)
MapsExact == TypeOK /\ BlocksOwned /\ UsemapExact

(* Header, blocks and region: how far the layout that slub_format computes *)
(* keeps them apart.                                                       *)
Placement == InRegion /\ HeaderFits
=============================================================================
