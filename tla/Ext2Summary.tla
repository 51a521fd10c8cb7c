------------------------------ MODULE Ext2Summary ------------------------------
(***************************************************************************)
(* lab3a: writes the summary of an ext2 image.  The image is the record    *)
(* "img":                                                                  *)
(*   freeBlocks, freeInodes  the numbers whose bit in the bitmap is 0,     *)
(*   inode[n]   the inode table, with type "-" where i_mode is 0,          *)
(*   words[b]   block b read as an array of block numbers,                 *)
(*   dir[b]     block b read as directory entries: the entries up to the   *)
(*              end of the block, or up to one of length 0 (closes FALSE). *)
(* The recursion over index blocks is a stack of frames, one read a step.  *)
(* It is modelled for the images that the code has in mind: blocks of 1K,  *)
(* inodes of 128 bytes, one group, and bitmaps that fit a long long.       *)
(***************************************************************************)
EXTENDS Ext2Rows, SequencesExt

CONSTANTS
  BlockSpace,   \* 2^32 / block_size: a byte address is a __u32
  WordSpace,    \* 2^32: %d prints the upper half of it as negative
  BitmapBits,   \* 64, the bits of the long long for a bitmap
  Leftover,     \* what a variable that is not initialised may hold
  MaxStale      \* bound of the model: rows made of one that was not read

ASSUME SummaryAssumption ==
  /\ {BlockSpace, WordSpace, BitmapBits, MaxStale} \subseteq Nat
  /\ NumBlocks < BitmapBits /\ NumInodes < BitmapBits
  /\ Leftover \subseteq 0..(WordSpace - 1)

VARIABLES
  img,
  scan,    \* the function of lab3a that runs, "exit" or "endless"
  current, \* the inode it is at
  level,   \* of the next index pointer of this inode
  frames   \* the calls of ind_blocks_summary

summaryVars == <<img, scan, current, level, frames>>

SummaryInit ==
  /\ csv = <<>>
  /\ scan = "bitmaps" /\ current = 1 /\ level = 1 /\ frames = <<>>

Signed(w) == IF 2 * w >= WordSpace THEN w - WordSpace ELSE w

(* The block that is read for the number b, and whether the image has it.  *)
BlockAt(b) == b % BlockSpace
InImage(b) == BlockAt(b) < NumBlocks

-----------------------------------------------------------------------------
(* The rows of a group.                                                    *)

NumberRows(kind, S) == [i \in 1..Len(S) |-> [row |-> kind, num |-> S[i]]]
Ascending(S) == SetToSortSeq(S, <)

Bitmaps ==
  /\ scan = "bitmaps"
  /\ csv' = csv \o NumberRows("BFREE", Ascending(img.freeBlocks \cap 1..NumBlocks))
                \o NumberRows("IFREE", Ascending(img.freeInodes \cap 1..NumInodes))
  /\ scan' = "inode"
  /\ UNCHANGED <<img, current, level, frames>>

Inode == img.inode[current]

InodeRow ==
  [row |-> "INODE", inode |-> current, type |-> Inode.type, links |-> Inode.links,
   size |-> Inode.size,
   ptrs |-> IF Inode.type = "s" /\ Inode.blocks = 0 THEN NoPointers
            ELSE [k \in Pointers |-> Signed(Inode.ptrs[k])]]

SkipInode ==
  /\ scan = "inode" /\ current <= NumInodes
  /\ Inode.type = "-" \/ Inode.links = 0
  /\ current' = current + 1
  /\ UNCHANGED <<img, csv, scan, level, frames>>

PrintInode ==
  /\ scan = "inode" /\ current <= NumInodes
  /\ Inode.type # "-" /\ Inode.links # 0
  /\ csv' = Append(csv, InodeRow)
  /\ scan' = IF Inode.type = "d" THEN "dir_entries" ELSE "indirect"
  /\ level' = 1
  /\ UNCHANGED <<img, current, frames>>

(* Entries are looked for in the first block only, also if there is none   *)
(* (0 is the boot block).  A length of 0 does not advance the counter: the *)
(* entry there is printed for ever.  Past the end of the image nothing is  *)
(* read, and what the variable happens to hold is printed until its length *)
(* adds up to a block.                                                     *)
EntryRow(e) == [row |-> "DIRENT", parent |-> current, name |-> e.name, inode |-> Signed(e.inode)]

StaleBlocks ==
  {[entries |-> [i \in 1..n |-> [name |-> "stale", inode |-> w]], closes |-> c] :
     n \in 1..MaxStale, w \in Leftover, c \in BOOLEAN}

DirEntries ==
  /\ scan = "dir_entries"
  /\ LET b == Inode.ptrs[1] IN
     \E block \in IF InImage(b) THEN {img.dir[BlockAt(b)]} ELSE StaleBlocks :
       /\ csv' = csv \o [i \in 1..Len(block.entries) |-> EntryRow(block.entries[i])]
       /\ scan' = IF block.closes THEN "indirect" ELSE "endless"
  /\ UNCHANGED <<img, current, level, frames>>

-----------------------------------------------------------------------------
(* Index blocks, of inodes of all types.  A frame has the arguments of the *)
(* call, the loop variable i and blockValue.  logical_offset is passed by  *)
(* value: what a call below adds to it is lost.                            *)

(* The frames a call may start with.                                       *)
Calls(l, b, offset) ==
  [level : {l}, block : {b}, offset : {offset}, i : {1},
   value : IF InImage(b) THEN {0} ELSE Leftover]

IndexPointer ==
  /\ scan = "indirect" /\ frames = <<>> /\ level <= 3
  /\ LET b == Inode.ptrs[NumDirect + level] IN
     IF b = 0 THEN UNCHANGED frames
     ELSE \E f \in Calls(level, b, FirstOffset(level)) : frames' = <<f>>
  /\ level' = level + 1
  /\ UNCHANGED <<img, csv, scan, current>>

NextInode ==
  /\ scan = "indirect" /\ frames = <<>> /\ level > 3
  /\ scan' = "inode" /\ current' = current + 1
  /\ UNCHANGED <<img, csv, level, frames>>

Top == Last(frames)

(* A read past the end of the image leaves blockValue as it was.           *)
WordRead == IF InImage(Top.block) THEN img.words[BlockAt(Top.block)][Top.i] ELSE Top.value

IndirectRow ==
  [row |-> "INDIRECT", inode |-> current, level |-> Top.level, offset |-> Top.offset,
   block |-> Top.block, ref |-> WordRead]

Advanced ==
  [Top EXCEPT !.i = @ + 1, !.value = WordRead, !.offset = IF Top.level = 1 THEN @ + 1 ELSE @]

ReadWord ==
  /\ frames # <<>> /\ Top.i <= PtrsPerBlock
  /\ csv' = IF WordRead # 0 THEN Append(csv, IndirectRow) ELSE csv
  /\ IF WordRead # 0 /\ Top.level > 1
     THEN \E f \in Calls(Top.level - 1, WordRead, Top.offset) :
            frames' = Front(frames) \o <<Advanced, f>>
     ELSE frames' = Append(Front(frames), Advanced)
  /\ UNCHANGED <<img, scan, current, level>>

(* Mutant: the caller does not go on with its loop.                        *)
ReturnAll ==
  /\ frames # <<>> /\ Top.i > PtrsPerBlock
  /\ frames' = <<>>
  /\ UNCHANGED <<img, csv, scan, current, level>>

Return ==
  /\ frames # <<>> /\ Top.i > PtrsPerBlock
  /\ frames' = Front(frames)
  /\ UNCHANGED <<img, csv, scan, current, level>>

Exit ==
  /\ scan = "inode" /\ current > NumInodes
  /\ scan' = "exit"
  /\ UNCHANGED <<img, csv, current, level, frames>>

SummaryNext ==
  \/ Bitmaps \/ SkipInode \/ PrintInode \/ DirEntries
  \/ IndexPointer \/ NextInode \/ ReadWord \/ Return \/ Exit

=============================================================================
