-------------------------------- MODULE Ext2Rows --------------------------------
(***************************************************************************)
(* The summary of an ext2 image: what lab3a writes and lab3b reads.  A row *)
(* is a record of the columns that lab3b looks at.  The sizes of the       *)
(* SUPERBLOCK row are constants.                                           *)
(***************************************************************************)
EXTENDS Integers, Sequences

CONSTANTS
  NumBlocks,  \* s_blocks_count
  NumInodes,  \* s_inodes_count
  NumDirect,  \* 12, the direct pointers of an inode
  PtrsPerBlock \* block_size / 4, the block numbers in an index block

ASSUME SizesAssumption == {NumBlocks, NumInodes, NumDirect, PtrsPerBlock} \subseteq Nat

VARIABLE csv  \* the rows

(* The pointers of an inode: direct ones, then one for each level of       *)
(* indirection.                                                            *)
Pointers == 1..(NumDirect + 3)

(* 0 for a direct pointer, else the number of levels.                      *)
Indirection(k) == IF k <= NumDirect THEN 0 ELSE k - NumDirect

(* 12, 268 and 65804, which both programs have as constants: the place in  *)
(* the file of the first block that a pointer of the level leads to.       *)
FirstOffset(l) ==
  NumDirect + (IF l > 1 THEN PtrsPerBlock ELSE 0) + (IF l > 2 THEN PtrsPerBlock ^ 2 ELSE 0)

(* An inode without blocks may be written without its pointers.            *)
NoPointers == <<>>

FreeRows     == [row : {"BFREE", "IFREE"}, num : Nat]
InodeRows    == [row : {"INODE"}, inode : Nat, type : {"f", "d", "s", "?"}, links : Nat,
                 size : Nat, ptrs : [Pointers -> Int] \cup {NoPointers}]
DirentRows   == [row : {"DIRENT"}, parent : Nat, name : STRING, inode : Int]
IndirectRows == [row : {"INDIRECT"}, inode : Nat, level : 1..3, offset : Nat,
                 block : Nat, ref : Nat]
Rows == FreeRows \cup InodeRows \cup DirentRows \cup IndirectRows

=============================================================================
