----------------------------- MODULE DynamicBuffer -----------------------------
(***************************************************************************)
(* ds::DynamicBuffer<T> (fztooltempl/datastructures.hpp): elements are put *)
(* one by one into blocks of a fixed size; merge() copies the blocks into  *)
(* one memory area, byte by byte, and clears the buffer.                   *)
(***************************************************************************)
EXTENDS Integers, Sequences, FiniteSetsExt

CONSTANTS Items,         \* the elements
          ElemSizes,     \* the sizes sizeof(T) may have
          BlockSizes,    \* the sizes of a block a buffer may be given
          MaxElements    \* bound: the elements a buffer holds at once

ASSUME ElemSizesAssumption == ElemSizes \subseteq Nat \ {0}
(* A block size of 0 is refused by the constructor. *)
ASSUME BlockSizesAssumption == BlockSizes \subseteq Nat \ {0}

VARIABLES elemsize, blksize, blocklist, offs, blocks,
          total,     \* the counter called elements
          written,   \* history: what was put since the buffer was last empty
          merged     \* what the last merge() returned, and should have

sizes == <<elemsize, blksize>>
dynVars == <<sizes, blocklist, offs, blocks, total, written, merged>>

Zero == <<"zero", 0>>                        \* a byte as calloc() leaves it
Byte(v, b) == <<v, b>>                       \* the b-th byte of element v
Bytes(block) == [i \in 0..(blksize * elemsize - 1) |->
                   Byte(block[i \div elemsize], i % elemsize)]

(* An element of an array of bytes; None if they do not make one up.       *)
None == "none"
Element(bytes, i) ==
  LET v == bytes[i * elemsize][1]
  IN  IF \A b \in 0..(elemsize - 1) : bytes[i * elemsize + b] = Byte(v, b) THEN v ELSE None

DynInit == /\ elemsize \in ElemSizes
           /\ blksize \in BlockSizes
           /\ blocklist = <<>>
           /\ offs = 0
           /\ blocks = 0
           /\ total = 0
           /\ written = <<>>
           /\ merged = [want |-> <<>>, got |-> <<>>, overrun |-> FALSE, parts |-> 0]

(* newBlock(), with its first element *)
NewBlock(v) == [i \in 0..(blksize - 1) |-> IF i = 0 THEN v ELSE None]

Put(v) ==
  /\ total < MaxElements
  /\ IF blocklist = <<>> \/ offs = blksize
     THEN /\ blocklist' = Append(blocklist, NewBlock(v))
          /\ blocks' = blocks + 1
          /\ offs' = 1
     ELSE /\ blocklist' = [blocklist EXCEPT ![Len(blocklist)][offs] = v]
          /\ offs' = offs + 1
          /\ UNCHANGED blocks
  /\ total' = total + 1
  /\ written' = Append(written, v)
  /\ UNCHANGED <<sizes, merged>>

Clear == /\ blocklist' = <<>>
         /\ offs' = 0
         /\ blocks' = 0
         /\ total' = 0
         /\ written' = <<>>

FullBlocks == (total - 1) \div blksize

(* Variant: the whole of the last block is copied. *)
Copied_WholeLast(k) == [at   |-> k * blksize * elemsize * elemsize,
                        len  |-> blksize * elemsize,
                        from |-> Bytes(blocklist[k + 1])]

(* memcpy() of the k-th block, counted from 0, to &block[pos]: pos counts  *)
(* elements and is increased by numbers of bytes.  Of the last block, offs *)
(* bytes are copied.                                                       *)
Copied(k) == [at   |-> k * blksize * elemsize * elemsize,
              len  |-> IF k < FullBlocks THEN blksize * elemsize ELSE offs,
              from |-> Bytes(blocklist[k + 1])]

(* The area that merge() fills, block after block: a byte is what was      *)
(* copied to it last.                                                      *)
Copies(i) == {k \in 0..(blocks - 1) : i \in Copied(k).at..(Copied(k).at + Copied(k).len - 1)}
Area == [i \in 0..(total * elemsize - 1) |->
           IF Copies(i) = {} THEN Zero
           ELSE LET c == Copied(Max(Copies(i))) IN c.from[i - c.at]]

(* The writes beyond it. *)
Overrun == \E k \in 0..(blocks - 1) : Copied(k).at + Copied(k).len > total * elemsize

(* A single block is handed out as it is. *)
Merge ==
  /\ blocklist # <<>>
  /\ merged' = LET area == IF blocks > 1 THEN Area ELSE Bytes(blocklist[1])
               IN  [want    |-> written,
                    got     |-> [i \in 1..total |-> Element(area, i - 1)],
                    overrun |-> blocks > 1 /\ Overrun,
                    parts   |-> blocks]
  /\ Clear
  /\ UNCHANGED sizes

(* merge() of an empty buffer returns 0. *)
MergeNothing ==
  /\ blocklist = <<>>
  /\ merged' = [want |-> <<>>, got |-> <<>>, overrun |-> FALSE, parts |-> 0]
  /\ UNCHANGED <<sizes, blocklist, offs, blocks, total, written>>

DynNext == \/ \E v \in Items : Put(v)
           \/ Merge
           \/ MergeNothing
           \/ Clear /\ UNCHANGED <<sizes, merged>>

DynSpec == DynInit /\ [][DynNext]_dynVars

-----------------------------------------------------------------------------
(* The counts agree with the blocks, and what was put is where they say.   *)
CountsAgree ==
  /\ blocks = Len(blocklist)
  /\ total = Len(written)
  /\ IF blocklist = <<>> THEN total = 0 /\ offs = 0
     ELSE offs > 0 /\ total = (blocks - 1) * blksize + offs
  /\ \A i \in 0..(total - 1) :
       blocklist[i \div blksize + 1][i % blksize] = written[i + 1]

(* merge() returns the elements that were put into the buffer, in order,   *)
(* and writes nowhere else (datastructures.hpp:276 "a pointer to a         *)
(* continuous memory-block, filled with the merged buffer-blocks"): for    *)
(* elements of one byte, and for those that fit into one block.            *)
MergeReturnsPut ==
  elemsize = 1 \/ merged.parts <= 1 => merged.got = merged.want /\ merged.overrun = FALSE

(* Nothing that was put is lost: neither in the blocks nor by merge().     *)
KeepsWhatIsPut == CountsAgree /\ MergeReturnsPut
=============================================================================
