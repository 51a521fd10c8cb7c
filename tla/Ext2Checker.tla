------------------------------ MODULE Ext2Checker ------------------------------
(***************************************************************************)
(* lab3b: reads the summary of an ext2 image row by row into tables, then  *)
(* looks for inconsistencies in a fixed order of passes and prints one     *)
(* line for each.  A row is a record of the columns that are looked at; an *)
(* object in a list of the program is the number of the row it was made    *)
(* from.  The lines printed are the set "report", without their wording.   *)
(***************************************************************************)
EXTENDS Ext2Rows, FiniteSets

CONSTANTS
  FirstInode, \* first_unreserved
  Reserved,   \* 8: the blocks below are taken for the metadata
  InlineSize  \* 60, the longest target of a symbolic link without a block

ASSUME CheckerAssumption == {FirstInode, Reserved, InlineSize} \subseteq Nat

VARIABLES
  row,                  \* the row to be read next
  free_block_nums, free_inode_nums,
  inodeList, dirList,   \* rows of the inodes and of the directory entries
  allocated_inode_nums, allocated_block_nums,
  repeated_block_nums,
  all_block_list,       \* records of the pointers in inodes
  report,               \* the lines printed, be it once or more often
  flaws,                \* makes the exit status 2
  step                  \* the loop the program is in

tables ==
  <<free_block_nums, free_inode_nums, inodeList, dirList, allocated_inode_nums,
    allocated_block_nums, repeated_block_nums, all_block_list>>
checkerVars == <<row, tables, report, flaws, step>>

TablesInit ==
  /\ row = 1
  /\ free_block_nums = {} /\ free_inode_nums = {}
  /\ inodeList = {} /\ dirList = {}
  /\ allocated_inode_nums = {} /\ allocated_block_nums = {}
  /\ repeated_block_nums = {} /\ all_block_list = {}
  /\ report = {} /\ flaws = FALSE
  /\ step = "rows"

CheckerInit == csv \in Seq(Rows) /\ TablesInit

-----------------------------------------------------------------------------
(* The loop over the rows.                                                 *)

Current == csv[row]
Reading(kind) == step = "rows" /\ row <= Len(csv) /\ Current.row = kind

ReadFree ==
  /\ \/ /\ Reading("BFREE")
        /\ free_block_nums' = free_block_nums \cup {Current.num}
        /\ UNCHANGED free_inode_nums
     \/ /\ Reading("IFREE")
        /\ free_inode_nums' = free_inode_nums \cup {Current.num}
        /\ UNCHANGED free_block_nums
  /\ row' = row + 1
  /\ UNCHANGED <<csv, inodeList, dirList, allocated_inode_nums, allocated_block_nums,
                 repeated_block_nums, all_block_list, report, flaws, step>>

(* Symbolic links have blocks only if they are long.                       *)
HasBlocks(r) == r.type \in {"f", "d"} \/ (r.type = "s" /\ r.size > InlineSize)

(* A row whose pointers are wanted and missing: an IndexError.             *)
Short(r) == HasBlocks(r) /\ r.ptrs = NoPointers

ReadShortInode ==
  /\ Reading("INODE") /\ Short(Current)
  /\ step' = "crashed"
  /\ UNCHANGED <<csv, row, tables, report, flaws>>

(* The pointers of an INODE row that are followed up.                      *)
Used(r) == {k \in Pointers : HasBlocks(r) /\ r.ptrs[k] # 0}

(* The dictionary "block": of a direct pointer the offset is not noted.    *)
OffsetVal(i) == IF i = 0 THEN 0 ELSE FirstOffset(i)
BlockOf(r, k) == [num |-> r.ptrs[k], indirection |-> Indirection(k), inode |-> r.inode,
                  offset |-> OffsetVal(Indirection(k))]

(* Mutant: the table is filled after the pointers of an inode are compared *)
(* with it.                                                                *)
ReadInodeLater ==
  /\ Reading("INODE") /\ ~Short(Current)
  /\ LET ptrs == Current.ptrs IN
     /\ inodeList' = inodeList \cup {row}
     /\ allocated_inode_nums' = allocated_inode_nums \cup {Current.inode}
     /\ all_block_list' = all_block_list \cup
          {BlockOf(Current, k) : k \in Used(Current)}
     /\ repeated_block_nums' =
          repeated_block_nums \cup ({ptrs[k] : k \in Used(Current)} \cap allocated_block_nums)
     /\ allocated_block_nums' = allocated_block_nums \cup {ptrs[k] : k \in Used(Current)}
  /\ row' = row + 1
  /\ UNCHANGED <<csv, free_block_nums, free_inode_nums, dirList, report, flaws, step>>

(* The loops over blocks[] note a block that is in the table already, also *)
(* from an earlier pointer of the same inode.                              *)
ReadInode ==
  /\ Reading("INODE") /\ ~Short(Current)
  /\ LET ptrs == Current.ptrs IN
     /\ inodeList' = inodeList \cup {row}
     /\ allocated_inode_nums' = allocated_inode_nums \cup {Current.inode}
     /\ all_block_list' = all_block_list \cup
          {BlockOf(Current, k) : k \in Used(Current)}
     /\ repeated_block_nums' = repeated_block_nums \cup
          {ptrs[k] : k \in {k \in Used(Current) :
             ptrs[k] \in allocated_block_nums \/ \E j \in Used(Current) : j < k /\ ptrs[j] = ptrs[k]}}
     /\ allocated_block_nums' = allocated_block_nums \cup {ptrs[k] : k \in Used(Current)}
  /\ row' = row + 1
  /\ UNCHANGED <<csv, free_block_nums, free_inode_nums, dirList, report, flaws, step>>

ReadDirent ==
  /\ Reading("DIRENT")
  /\ dirList' = dirList \cup {row}
  /\ row' = row + 1
  /\ UNCHANGED <<csv, free_block_nums, free_inode_nums, inodeList, allocated_inode_nums,
                 allocated_block_nums, repeated_block_nums, all_block_list, report, flaws, step>>

(* Mutant: the references of index blocks are not looked up in the table.  *)
ReadIndirectUnseen ==
  /\ Reading("INDIRECT")
  /\ allocated_block_nums' = allocated_block_nums \cup {Current.ref}
  /\ row' = row + 1
  /\ UNCHANGED <<csv, free_block_nums, free_inode_nums, inodeList, dirList, repeated_block_nums,
                 allocated_inode_nums, all_block_list, report, flaws, step>>

(* The block record that the code makes here is not put on a list.         *)
ReadIndirect ==
  /\ Reading("INDIRECT")
  /\ repeated_block_nums' =
       repeated_block_nums \cup ({Current.ref} \cap allocated_block_nums)
  /\ allocated_block_nums' = allocated_block_nums \cup {Current.ref}
  /\ row' = row + 1
  /\ UNCHANGED <<csv, free_block_nums, free_inode_nums, inodeList, dirList,
                 allocated_inode_nums, all_block_list, report, flaws, step>>

RowsRead ==
  /\ step = "rows" /\ row > Len(csv)
  /\ step' = "blocks"
  /\ UNCHANGED <<csv, row, tables, report, flaws>>

-----------------------------------------------------------------------------
(* The passes.  Some of what they print sets flaws, some does not.         *)

Pass(from, to, serious, other) ==
  /\ step = from
  /\ report' = report \cup serious \cup other
  /\ flaws' = (flaws \/ serious # {})
  /\ step' = to
  /\ UNCHANGED <<csv, row, tables>>

DataBlocks == Reserved..(NumBlocks - 1)

(* Mutant: the loop goes up to num_blocks.                                 *)
BlockLinesOneMore ==
  {<<"UNREFERENCED BLOCK", b>> :
     b \in (Reserved..NumBlocks) \ (free_block_nums \cup allocated_block_nums)}
    \cup {<<"ALLOCATED BLOCK", b>> : b \in DataBlocks \cap free_block_nums \cap allocated_block_nums}

BlockLines ==
  {<<"UNREFERENCED BLOCK", b>> : b \in DataBlocks \ (free_block_nums \cup allocated_block_nums)}
    \cup {<<"ALLOCATED BLOCK", b>> : b \in DataBlocks \cap free_block_nums \cap allocated_block_nums}

CheckBlocks == Pass("blocks", "duplicates", BlockLines, {})

(* print_duplicate() sets a flaws of its own.                              *)
DuplicateLines ==
  {<<"DUPLICATE", b.num, b.inode, b.indirection, b.offset>> :
     b \in {x \in all_block_list : x.num \in repeated_block_nums}}

CheckDuplicates == Pass("duplicates", "invalid", {}, DuplicateLines)

(* Pairs of the row of an inode and one of the pointers ks; only lines for *)
(* the pointers to index blocks set flaws.                                 *)
PointerPairs(ks) == {s \in inodeList \X ks : HasBlocks(csv[s[1]])}
Pointer(s) == csv[s[1]].ptrs[s[2]]
PointerLine(kind, s) ==
  <<kind, Pointer(s), csv[s[1]].inode, Indirection(s[2]),
    IF s[2] <= NumDirect THEN s[2] - 1 ELSE FirstOffset(Indirection(s[2]))>>
PointerLines(kind, S) == {PointerLine(kind, s) : s \in S}

DirectPointers == 1..NumDirect
IndexPointers  == (NumDirect + 1)..(NumDirect + 3)

Invalid(ks)    == {s \in PointerPairs(ks) : Pointer(s) < 0 \/ Pointer(s) > NumBlocks}
ReservedAt(ks) == {s \in PointerPairs(ks) : Pointer(s) < Reserved /\ Pointer(s) # 0}

CheckInvalid ==
  Pass("invalid", "reserved", PointerLines("INVALID", Invalid(IndexPointers)),
                              PointerLines("INVALID", Invalid(DirectPointers)))

CheckReserved ==
  Pass("reserved", "unallocated", PointerLines("RESERVED", ReservedAt(IndexPointers)),
                                  PointerLines("RESERVED", ReservedAt(DirectPointers)))

UnallocatedInodeLines ==
  {<<"UNALLOCATED INODE", n>> :
     n \in (FirstInode..(NumInodes - 1)) \ (free_inode_nums \cup allocated_inode_nums)}
AllocatedInodeLines ==
  {<<"ALLOCATED INODE", n>> : n \in (1..(NumInodes - 1)) \cap free_inode_nums \cap allocated_inode_nums}

CheckUnallocatedInodes == Pass("unallocated", "allocated", UnallocatedInodeLines, {})
CheckAllocatedInodes   == Pass("allocated", "links", AllocatedInodeLines, {})

NumEntries(n) == Cardinality({d \in dirList : csv[d].inode = n})
LinkLines ==
  {<<"LINKS", csv[i].inode, NumEntries(csv[i].inode)>> :
     i \in {i \in inodeList : NumEntries(csv[i].inode) # csv[i].links}}

CheckLinks == Pass("links", "entries", LinkLines, {})

EntryLines(kind, S) == {<<kind, csv[d].parent, csv[d].name, csv[d].inode>> : d \in S}

InvalidEntries == {d \in dirList : csv[d].inode < 1 \/ csv[d].inode > NumInodes}
UnallocatedEntries == {d \in dirList \ InvalidEntries : csv[d].inode \notin allocated_inode_nums}

CheckEntries ==
  Pass("entries", "dots", EntryLines("INVALID INODE", InvalidEntries)
                            \cup EntryLines("UNALLOCATED ENTRY", UnallocatedEntries), {})

(* Of ".." only that of the root is looked at: a continue leaves the loop  *)
(* before the comparison with the parent.                                  *)
WrongDots     == {d \in dirList : csv[d].name = "." /\ csv[d].parent # csv[d].inode}
WrongRootDots == {d \in dirList : csv[d].name = ".." /\ csv[d].parent = 2 /\ csv[d].inode # 2}

CheckDots == Pass("dots", "done", EntryLines("DOT", WrongDots), EntryLines("DOT DOT", WrongRootDots))

CheckerNext ==
  \/ ReadFree \/ ReadInode \/ ReadShortInode \/ ReadDirent \/ ReadIndirect \/ RowsRead
  \/ CheckBlocks \/ CheckDuplicates \/ CheckInvalid \/ CheckReserved
  \/ CheckUnallocatedInodes \/ CheckAllocatedInodes \/ CheckLinks
  \/ CheckEntries \/ CheckDots

CheckerSpec == CheckerInit /\ [][CheckerNext]_<<csv, checkerVars>>

-----------------------------------------------------------------------------
(* Properties.                                                             *)

(* The places at which the rows before n name a block: a pointer of an     *)
(* inode, or the reference of an INDIRECT row.                             *)
InodeSlots(n) ==
  {s \in (1..(n - 1)) \X Pointers : csv[s[1]].row = "INODE" /\ s[2] \in Used(csv[s[1]])}
IndirectSlots(n) == {s \in (1..(n - 1)) \X {0} : csv[s[1]].row = "INDIRECT"}
Slots(n) == InodeSlots(n) \cup IndirectSlots(n)

NamedAt(s) == IF s[2] = 0 THEN csv[s[1]].ref ELSE csv[s[1]].ptrs[s[2]]

RowsOf(kind, n) == {i \in 1..(n - 1) : csv[i].row = kind}

(* Whatever the order of the rows, the tables hold what the rows read say: *)
(* a block is allocated if some place names it, and repeated if and only   *)
(* if two do, be they in one inode, in two, or in index blocks.            *)
TablesExact ==
  /\ free_block_nums = {csv[i].num : i \in RowsOf("BFREE", row)}
  /\ free_inode_nums = {csv[i].num : i \in RowsOf("IFREE", row)}
  /\ inodeList = RowsOf("INODE", row)
  /\ dirList = RowsOf("DIRENT", row)
  /\ allocated_inode_nums = {csv[i].inode : i \in RowsOf("INODE", row)}
  /\ allocated_block_nums = {NamedAt(s) : s \in Slots(row)}
  /\ repeated_block_nums =
       {NamedAt(s) : s \in {s \in Slots(row) : \E t \in Slots(row) : t # s /\ NamedAt(t) = NamedAt(s)}}
  /\ all_block_list =
       {BlockOf(csv[s[1]], s[2]) : s \in InodeSlots(row)}

(* The exit status is that of the lines printed: 2 if and only if one of   *)
(* them is of a kind that counts.  Duplicates, wrong direct pointers and   *)
(* the ".." of the root do not count.                                      *)
Silent(line) ==
  \/ line[1] \in {"DUPLICATE", "DOT DOT"}
  \/ line[1] \in {"INVALID", "RESERVED"} /\ line[4] = 0

ExitStatus == flaws <=> \E line \in report : ~Silent(line)

(* What the rows say of a block is reported, in whatever order the rows    *)
(* came: after the first pass a data block that is nowhere, or both free   *)
(* and named; after the second a pointer to a block that is named at       *)
(* another place too.                                                      *)
AfterDuplicates ==
  {"invalid", "reserved", "unallocated", "allocated", "links", "entries", "dots", "done"}
AfterBlocks == {"duplicates"} \cup AfterDuplicates

DataBlocksReported ==
  \A b \in DataBlocks :
    LET free  == \E i \in RowsOf("BFREE", row) : csv[i].num = b
        named == \E s \in Slots(row) : NamedAt(s) = b
    IN  /\ ~free /\ ~named => <<"UNREFERENCED BLOCK", b>> \in report
        /\ free /\ named => <<"ALLOCATED BLOCK", b>> \in report

PairsReported ==
  \A s \in InodeSlots(row) : \A t \in Slots(row) : t # s /\ NamedAt(t) = NamedAt(s) =>
    <<"DUPLICATE", NamedAt(s), csv[s[1]].inode, Indirection(s[2]), OffsetVal(Indirection(s[2]))>>
      \in report

BlocksReported ==
  /\ step \in AfterBlocks => DataBlocksReported
  /\ step \in AfterDuplicates => PairsReported

=============================================================================
