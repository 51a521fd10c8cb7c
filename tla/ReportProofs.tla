----------------------------- MODULE ReportProofs -----------------------------
(***************************************************************************)
(* What three programs report is right.  They share nothing, and neither   *)
(* do the three parts of this module.                                      *)
(*                                                                         *)
(* lab3b: for every summary, of any length and with rows in any order, the *)
(* tables are right, and the exit status is that of what was printed.      *)
(* lab4b, lab4c: for every sender, every number of lines, every buffer and *)
(* every way to cut the stream, the sensor programs log each line that was *)
(* sent once and in order, do what the lines say, and report at most once  *)
(* too often.                                                              *)
(* lab2b: for every number of threads, sublists and turns and every set of *)
(* waits, the time reported is not more than the time waited.              *)
(***************************************************************************)
EXTENDS Ext2Checker, LockTime, Sensor, WellFoundedInduction, SequenceTheorems, TLAPS

-----------------------------------------------------------------------------
(* The checker of ext2.                                                    *)

TablesInv == csv \in Seq(Rows) /\ row \in Nat \ {0} /\ TablesExact

allVars == <<csv, checkerVars>>

-----------------------------------------------------------------------------
(* One more row.                                                           *)

LEMMA Upto ==
  ASSUME NEW n \in Nat \ {0}
  PROVE  1..(n + 1 - 1) = (1..(n - 1)) \cup {n} /\ n \notin 1..(n - 1)
BY SMT

LEMMA MoreRows ==
  ASSUME NEW n \in Nat \ {0}, NEW kind
  PROVE  RowsOf(kind, n + 1) =
           RowsOf(kind, n) \cup {i \in {n} : csv[i].row = kind}
<1>1. 1..(n + 1 - 1) = (1..(n - 1)) \cup {n}
  BY Upto
<1> QED BY <1>1 DEF RowsOf

LEMMA MoreInodeSlots ==
  ASSUME NEW n \in Nat \ {0}
  PROVE  InodeSlots(n + 1) =
           InodeSlots(n) \cup {s \in {n} \X Pointers : csv[n].row = "INODE" /\ s[2] \in Used(csv[n])}
<1>1. 1..(n + 1 - 1) = (1..(n - 1)) \cup {n}
  BY Upto
<1> QED BY <1>1 DEF InodeSlots

LEMMA MoreIndirectSlots ==
  ASSUME NEW n \in Nat \ {0}
  PROVE  IndirectSlots(n + 1) =
           IndirectSlots(n) \cup {s \in {n} \X {0} : csv[n].row = "INDIRECT"}
<1>1. 1..(n + 1 - 1) = (1..(n - 1)) \cup {n}
  BY Upto
<1> QED BY <1>1 DEF IndirectSlots

(* A row that names no block leaves the places as they were.               *)
LEMMA NoMoreSlots ==
  ASSUME NEW n \in Nat \ {0}, csv[n].row \notin {"INODE", "INDIRECT"}
  PROVE  InodeSlots(n + 1) = InodeSlots(n) /\ Slots(n + 1) = Slots(n)
BY MoreInodeSlots, MoreIndirectSlots DEF Slots

-----------------------------------------------------------------------------
(* The tables, action by action.                                           *)

(* What is made of a pointer depends on constants only.                    *)
LEMMA RecordsStay ==
  /\ \A r, k : BlockOf(r, k)' = BlockOf(r, k)
  /\ \A s : OffsetVal(Indirection(s[2]))' = OffsetVal(Indirection(s[2]))
BY DEF BlockOf, OffsetVal, FirstOffset, Indirection

(* What the rows say does not change.                                      *)
LEMMA RowsStay ==
  ASSUME csv' = csv
  PROVE  /\ \A kind, n : RowsOf(kind, n)' = RowsOf(kind, n)
         /\ \A n : InodeSlots(n)' = InodeSlots(n) /\ Slots(n)' = Slots(n)
         /\ \A s : NamedAt(s)' = NamedAt(s)
BY DEF RowsOf, InodeSlots, IndirectSlots, Slots, NamedAt, Used, HasBlocks

LEMMA SameTables ==
  ASSUME TablesInv, UNCHANGED <<csv, row, tables>>
  PROVE  TablesInv'
<1>1. /\ \A kind, n : RowsOf(kind, n)' = RowsOf(kind, n)
      /\ \A n : InodeSlots(n)' = InodeSlots(n) /\ Slots(n)' = Slots(n)
      /\ \A s : NamedAt(s)' = NamedAt(s)
  BY RowsStay
<1> QED BY <1>1, RecordsStay, SMTT(30) DEF TablesInv, TablesExact, tables

(* The tables after a row, in terms of what they must hold.                *)
LEMMA RowRead ==
  ASSUME TablesInv, csv' = csv, row' = row + 1,
         free_block_nums' = {csv[i].num : i \in RowsOf("BFREE", row + 1)},
         free_inode_nums' = {csv[i].num : i \in RowsOf("IFREE", row + 1)},
         inodeList' = RowsOf("INODE", row + 1),
         dirList' = RowsOf("DIRENT", row + 1),
         allocated_inode_nums' = {csv[i].inode : i \in RowsOf("INODE", row + 1)},
         allocated_block_nums' = {NamedAt(s) : s \in Slots(row + 1)},
         repeated_block_nums' =
           {NamedAt(s) : s \in {s \in Slots(row + 1) :
                                  \E t \in Slots(row + 1) : t # s /\ NamedAt(t) = NamedAt(s)}},
         all_block_list' = {BlockOf(csv[s[1]], s[2]) : s \in InodeSlots(row + 1)}
  PROVE  TablesInv'
<1>1. csv' \in Seq(Rows) /\ row' \in Nat \ {0}
  BY SMT DEF TablesInv
<1>2. TablesExact'
  BY RowsStay, RecordsStay DEF TablesExact
<1> QED BY <1>1, <1>2 DEF TablesInv

LEMMA FreeStep == TablesInv /\ ReadFree => TablesInv'
<1> SUFFICES ASSUME TablesInv, ReadFree PROVE TablesInv'
  OBVIOUS
<1>1. row \in Nat \ {0} /\ csv' = csv /\ row' = row + 1
  BY DEF TablesInv, ReadFree
<1>2. csv[row].row \in {"BFREE", "IFREE"}
  BY DEF ReadFree, Reading, Current
<1>3. InodeSlots(row + 1) = InodeSlots(row) /\ Slots(row + 1) = Slots(row)
  BY <1>1, <1>2, NoMoreSlots
<1>4. /\ RowsOf("INODE", row + 1) = RowsOf("INODE", row)
      /\ RowsOf("DIRENT", row + 1) = RowsOf("DIRENT", row)
  BY <1>1, <1>2, MoreRows
<1>5. /\ free_block_nums' = {csv[i].num : i \in RowsOf("BFREE", row + 1)}
      /\ free_inode_nums' = {csv[i].num : i \in RowsOf("IFREE", row + 1)}
  <2>1. /\ free_block_nums = {csv[i].num : i \in RowsOf("BFREE", row)}
        /\ free_inode_nums = {csv[i].num : i \in RowsOf("IFREE", row)}
    BY DEF TablesInv, TablesExact
  <2>2. CASE csv[row].row = "BFREE"
    <3>1. /\ free_block_nums' = free_block_nums \cup {csv[row].num}
          /\ free_inode_nums' = free_inode_nums
      BY <2>2 DEF ReadFree, Reading, Current
    <3>2. /\ RowsOf("BFREE", row + 1) = RowsOf("BFREE", row) \cup {row}
          /\ RowsOf("IFREE", row + 1) = RowsOf("IFREE", row)
      BY <1>1, <2>2, MoreRows
    <3> QED BY <2>1, <3>1, <3>2
  <2>3. CASE csv[row].row = "IFREE"
    <3>1. /\ free_inode_nums' = free_inode_nums \cup {csv[row].num}
          /\ free_block_nums' = free_block_nums
      BY <2>3 DEF ReadFree, Reading, Current
    <3>2. /\ RowsOf("IFREE", row + 1) = RowsOf("IFREE", row) \cup {row}
          /\ RowsOf("BFREE", row + 1) = RowsOf("BFREE", row)
      BY <1>1, <2>3, MoreRows
    <3> QED BY <2>1, <3>1, <3>2
  <2> QED BY <1>2, <2>2, <2>3
<1> QED BY <1>1, <1>3, <1>4, <1>5, RowRead DEF ReadFree, TablesInv, TablesExact

LEMMA DirentStep == TablesInv /\ ReadDirent => TablesInv'
<1> SUFFICES ASSUME TablesInv, ReadDirent PROVE TablesInv'
  OBVIOUS
<1>1. row \in Nat \ {0} /\ csv' = csv /\ row' = row + 1
  BY DEF TablesInv, ReadDirent
<1>2. csv[row].row = "DIRENT"
  BY DEF ReadDirent, Reading, Current
<1>3. InodeSlots(row + 1) = InodeSlots(row) /\ Slots(row + 1) = Slots(row)
  BY <1>1, <1>2, NoMoreSlots
<1>4. /\ RowsOf("INODE", row + 1) = RowsOf("INODE", row)
      /\ RowsOf("BFREE", row + 1) = RowsOf("BFREE", row)
      /\ RowsOf("IFREE", row + 1) = RowsOf("IFREE", row)
      /\ RowsOf("DIRENT", row + 1) = RowsOf("DIRENT", row) \cup {row}
  BY <1>1, <1>2, MoreRows
<1> QED BY <1>1, <1>3, <1>4, RowRead DEF ReadDirent, TablesInv, TablesExact

LEMMA IndirectStep == TablesInv /\ ReadIndirect => TablesInv'
<1> SUFFICES ASSUME TablesInv, ReadIndirect PROVE TablesInv'
  OBVIOUS
<1> DEFINE new == <<row, 0>>
<1>1. row \in Nat \ {0} /\ csv' = csv /\ row' = row + 1
  BY DEF TablesInv, ReadIndirect
<1>2. csv[row].row = "INDIRECT"
  BY DEF ReadIndirect, Reading, Current
<1>3. InodeSlots(row + 1) = InodeSlots(row) /\ Slots(row + 1) = Slots(row) \cup {new}
  <2>1. IndirectSlots(row + 1) = IndirectSlots(row) \cup {new}
    BY <1>1, <1>2, MoreIndirectSlots
  <2>2. InodeSlots(row + 1) = InodeSlots(row)
    BY <1>1, <1>2, MoreInodeSlots
  <2> QED BY <2>1, <2>2 DEF Slots
<1>4. NamedAt(new) = Current.ref
  BY DEF NamedAt, Current
<1>5. new \notin Slots(row)
  BY <1>1, Upto DEF Slots, InodeSlots, IndirectSlots
<1>6. /\ RowsOf("INODE", row + 1) = RowsOf("INODE", row)
      /\ RowsOf("BFREE", row + 1) = RowsOf("BFREE", row)
      /\ RowsOf("IFREE", row + 1) = RowsOf("IFREE", row)
      /\ RowsOf("DIRENT", row + 1) = RowsOf("DIRENT", row)
  BY <1>1, <1>2, MoreRows
<1>7. allocated_block_nums' = {NamedAt(s) : s \in Slots(row + 1)}
  BY <1>3, <1>4 DEF ReadIndirect, TablesInv, TablesExact
<1>8. repeated_block_nums' =
        {NamedAt(s) : s \in {s \in Slots(row + 1) :
                               \E t \in Slots(row + 1) : t # s /\ NamedAt(t) = NamedAt(s)}}
  <2> DEFINE twice(S) == {NamedAt(s) : s \in {s \in S : \E t \in S : t # s /\ NamedAt(t) = NamedAt(s)}}
  <2>1. twice(Slots(row) \cup {new}) =
          twice(Slots(row)) \cup ({NamedAt(new)} \cap {NamedAt(s) : s \in Slots(row)})
    BY <1>5
  <2>2. repeated_block_nums = twice(Slots(row))
    BY DEF TablesInv, TablesExact
  <2>3. repeated_block_nums' = repeated_block_nums \cup ({Current.ref} \cap allocated_block_nums)
    BY DEF ReadIndirect
  <2>4. allocated_block_nums = {NamedAt(s) : s \in Slots(row)}
    BY DEF TablesInv, TablesExact
  <2>5. repeated_block_nums' = twice(Slots(row + 1))
    BY <1>3, <1>4, <2>1, <2>2, <2>3, <2>4
  <2> QED BY <2>5
<1> QED BY <1>1, <1>3, <1>6, <1>7, <1>8, RowRead DEF ReadIndirect, TablesInv, TablesExact

(* The new places of an INODE row are the pointers used, and two of them   *)
(* hold the same number if and only if the one with the larger index finds *)
(* it held by a smaller one.                                               *)
LEMMA InodeStep == TablesInv /\ ReadInode => TablesInv'
<1> SUFFICES ASSUME TablesInv, ReadInode PROVE TablesInv'
  OBVIOUS
<1> DEFINE ptrs == Current.ptrs
           new  == {<<row, k>> : k \in Used(Current)}
           twice(S) == {NamedAt(s) : s \in {s \in S : \E t \in S : t # s /\ NamedAt(t) = NamedAt(s)}}
           again == {ptrs[k] : k \in {k \in Used(Current) :
                       ptrs[k] \in allocated_block_nums
                         \/ \E j \in Used(Current) : j < k /\ ptrs[j] = ptrs[k]}}
<1>1. row \in Nat \ {0} /\ csv' = csv /\ row' = row + 1
  BY DEF TablesInv, ReadInode
<1>2. csv[row].row = "INODE" /\ Current = csv[row]
  BY DEF ReadInode, Reading, Current
<1>3. Used(Current) \subseteq Pointers /\ Pointers \subseteq Nat \ {0}
  BY SizesAssumption, SMT DEF Used, Pointers
<1>4. /\ InodeSlots(row + 1) = InodeSlots(row) \cup new
      /\ Slots(row + 1) = Slots(row) \cup new
  <2>1. IndirectSlots(row + 1) = IndirectSlots(row)
    BY <1>1, <1>2, MoreIndirectSlots
  <2>2. InodeSlots(row + 1) = InodeSlots(row) \cup new
    BY <1>1, <1>2, <1>3, MoreInodeSlots
  <2> QED BY <2>1, <2>2 DEF Slots
<1>5. \A k \in Used(Current) :
        /\ <<row, k>>[1] = row /\ <<row, k>>[2] = k
        /\ NamedAt(<<row, k>>) = ptrs[k]
  BY <1>2, <1>3 DEF NamedAt
<1>6. \A s \in Slots(row) : s[1] # row
  BY <1>1, Upto DEF Slots, InodeSlots, IndirectSlots
<1>7. /\ RowsOf("INODE", row + 1) = RowsOf("INODE", row) \cup {row}
      /\ RowsOf("BFREE", row + 1) = RowsOf("BFREE", row)
      /\ RowsOf("IFREE", row + 1) = RowsOf("IFREE", row)
      /\ RowsOf("DIRENT", row + 1) = RowsOf("DIRENT", row)
  BY <1>1, <1>2, MoreRows
<1>8. {NamedAt(s) : s \in new} = {ptrs[k] : k \in Used(Current)}
  <2>1. \A k \in Used(Current) : <<row, k>> \in new /\ NamedAt(<<row, k>>) = ptrs[k]
    BY <1>5
  <2>2. ASSUME NEW s \in new PROVE NamedAt(s) \in {ptrs[k] : k \in Used(Current)}
    <3>1. PICK k \in Used(Current) : s = <<row, k>>
      OBVIOUS
    <3> QED BY <2>1, <3>1
  <2>3. ASSUME NEW k \in Used(Current) PROVE ptrs[k] \in {NamedAt(s) : s \in new}
    <3>1. <<row, k>> \in new /\ NamedAt(<<row, k>>) = ptrs[k]
      BY <2>1
    <3> HIDE DEF new, ptrs
    <3> QED BY <3>1, Zenon
  <2> HIDE DEF new, ptrs
  <2> QED BY <2>2, <2>3
<1>9. allocated_block_nums' = {NamedAt(s) : s \in Slots(row + 1)}
  <2>1. allocated_block_nums' = allocated_block_nums \cup {ptrs[k] : k \in Used(Current)}
    BY DEF ReadInode
  <2>2. allocated_block_nums = {NamedAt(s) : s \in Slots(row)}
    BY DEF TablesInv, TablesExact
  <2> QED BY <1>4, <1>8, <2>1, <2>2
<1>10. repeated_block_nums' = twice(Slots(row + 1))
  <2>1. repeated_block_nums' = twice(Slots(row)) \cup again
    BY DEF ReadInode, TablesInv, TablesExact
  <2>2. allocated_block_nums = {NamedAt(s) : s \in Slots(row)}
    BY DEF TablesInv, TablesExact
  <2>3. again \subseteq twice(Slots(row + 1))
    <3> SUFFICES ASSUME NEW k \in Used(Current),
                        ptrs[k] \in allocated_block_nums
                          \/ \E j \in Used(Current) : j < k /\ ptrs[j] = ptrs[k]
                 PROVE  ptrs[k] \in twice(Slots(row + 1))
      OBVIOUS
    <3>1. <<row, k>> \in Slots(row + 1) /\ NamedAt(<<row, k>>) = ptrs[k]
      BY <1>4, <1>5
    <3>2. CASE ptrs[k] \in allocated_block_nums
      <4>1. PICK t \in Slots(row) : NamedAt(t) = ptrs[k]
        BY <3>2, <2>2
      <4>2. t # <<row, k>> /\ t \in Slots(row + 1)
        BY <1>4, <1>5, <1>6
      <4> QED BY <3>1, <4>1, <4>2
    <3>3. CASE \E j \in Used(Current) : j < k /\ ptrs[j] = ptrs[k]
      <4>1. PICK j \in Used(Current) : j < k /\ ptrs[j] = ptrs[k]
        BY <3>3
      <4>2. j # k
        <5>1. j \in Nat /\ k \in Nat
          BY <1>3
        <5> QED BY <4>1, <5>1, SMT
      <4>3. <<row, j>> \in Slots(row + 1) /\ NamedAt(<<row, j>>) = ptrs[k]
        BY <4>1, <1>4, <1>5
      <4> QED BY <3>1, <4>2, <4>3
    <3> QED BY <3>2, <3>3
  <2>4. twice(Slots(row)) \subseteq twice(Slots(row + 1))
    BY <1>4
  <2>5. ASSUME NEW s \in Slots(row + 1), NEW t \in Slots(row + 1), t # s, NamedAt(t) = NamedAt(s)
        PROVE  NamedAt(s) \in twice(Slots(row)) \cup again
    <3>1. ASSUME NEW x \in Slots(row), NEW y \in new, NamedAt(x) = NamedAt(y)
          PROVE  NamedAt(y) \in again
      <4>1. PICK k \in Used(Current) : y = <<row, k>>
        OBVIOUS
      <4>2. NamedAt(y) = ptrs[k] /\ ptrs[k] \in allocated_block_nums
        BY <4>1, <1>5, <3>1, <2>2
      <4> QED BY <4>2
    <3>2. CASE s \in Slots(row) /\ t \in Slots(row)
      BY <3>2, <2>5
    <3>3. CASE s \in Slots(row) /\ t \in new
      BY <3>3, <3>1, <2>5
    <3>4. CASE s \in new /\ t \in Slots(row)
      BY <3>4, <3>1, <2>5
    <3>5. CASE s \in new /\ t \in new
      <4>1. PICK k \in Used(Current) : s = <<row, k>>
        BY <3>5
      <4>2. PICK j \in Used(Current) : t = <<row, j>>
        BY <3>5
      <4>3. ptrs[k] = NamedAt(s) /\ ptrs[j] = NamedAt(s)
        BY <4>1, <4>2, <1>5, <2>5
      <4>4. j # k
        BY <4>1, <4>2, <2>5
      <4>5. j < k \/ k < j
        <5>1. j \in Nat /\ k \in Nat
          BY <1>3
        <5> QED BY <4>4, <5>1, SMT
      <4> QED BY <4>3, <4>5
    <3> QED BY <1>4, <3>2, <3>3, <3>4, <3>5
  <2>6. twice(Slots(row + 1)) \subseteq twice(Slots(row)) \cup again
    BY <2>5
  <2> QED BY <2>1, <2>3, <2>4, <2>6
<1>11. all_block_list' = {BlockOf(csv[s[1]], s[2]) : s \in InodeSlots(row + 1)}
  <2> DEFINE Record(s) == BlockOf(csv[s[1]], s[2])
  <2>1. all_block_list = {Record(s) : s \in InodeSlots(row)}
    BY DEF TablesInv, TablesExact
  <2>2. all_block_list' = all_block_list \cup {BlockOf(Current, k) : k \in Used(Current)}
    BY DEF ReadInode
  <2>3. \A k \in Used(Current) : Record(<<row, k>>) = BlockOf(Current, k)
    BY <1>2, <1>5
  <2>4. {Record(s) : s \in new} = {BlockOf(Current, k) : k \in Used(Current)}
    <3> HIDE DEF Record
    <3> QED BY <2>3
  <2>5. {Record(s) : s \in InodeSlots(row) \cup new} =
          {Record(s) : s \in InodeSlots(row)} \cup {Record(s) : s \in new}
    <3> HIDE DEF Record, new
    <3> QED OBVIOUS
  <2> QED BY <1>4, <2>1, <2>2, <2>4, <2>5
<1>12. /\ inodeList' = RowsOf("INODE", row + 1)
       /\ allocated_inode_nums' = {csv[i].inode : i \in RowsOf("INODE", row + 1)}
  BY <1>2, <1>7 DEF ReadInode, TablesInv, TablesExact
<1>13. /\ free_block_nums' = {csv[i].num : i \in RowsOf("BFREE", row + 1)}
       /\ free_inode_nums' = {csv[i].num : i \in RowsOf("IFREE", row + 1)}
       /\ dirList' = RowsOf("DIRENT", row + 1)
  BY <1>7 DEF ReadInode, TablesInv, TablesExact
<1> HIDE DEF ptrs, again, new
<1> QED BY <1>1, <1>9, <1>10, <1>11, <1>12, <1>13, RowRead

-----------------------------------------------------------------------------
(* The tables are right, in whatever order the rows come.                  *)

LEMMA InitTables == CheckerInit => TablesInv
<1> SUFFICES ASSUME CheckerInit PROVE TablesInv
  OBVIOUS
<1>1. row = 1 /\ 1..(row - 1) = {}
  BY SMT DEF CheckerInit, TablesInit
<1>2. \A kind : RowsOf(kind, row) = {}
  BY <1>1 DEF RowsOf
<1>3. InodeSlots(row) = {} /\ Slots(row) = {}
  BY <1>1 DEF InodeSlots, IndirectSlots, Slots
<1> QED BY <1>1, <1>2, <1>3 DEF TablesInv, TablesExact, CheckerInit, TablesInit

LEMMA NextTables == TablesInv /\ [CheckerNext]_allVars => TablesInv'
<1> SUFFICES ASSUME TablesInv, [CheckerNext]_allVars PROVE TablesInv'
  OBVIOUS
<1>1. CASE ReadFree \/ ReadDirent \/ ReadIndirect \/ ReadInode
  BY <1>1, FreeStep, DirentStep, IndirectStep, InodeStep
<1>2. CASE ReadShortInode \/ RowsRead
  BY <1>2, SameTables DEF ReadShortInode, RowsRead
<1>3. CASE CheckBlocks \/ CheckDuplicates \/ CheckInvalid \/ CheckReserved
  BY <1>3, SameTables DEF CheckBlocks, CheckDuplicates, CheckInvalid, CheckReserved, Pass
<1>4. CASE CheckUnallocatedInodes \/ CheckAllocatedInodes \/ CheckLinks \/ CheckEntries \/ CheckDots
  BY <1>4, SameTables
     DEF CheckUnallocatedInodes, CheckAllocatedInodes, CheckLinks, CheckEntries, CheckDots, Pass
<1>5. CASE UNCHANGED allVars
  BY <1>5, SameTables DEF allVars, checkerVars
<1> QED BY <1>1, <1>2, <1>3, <1>4, <1>5 DEF CheckerNext

(* However long the summary is, the tables hold what the rows read say.    *)
THEOREM TablesCorrect == CheckerSpec => []TablesExact
<1>1. TablesInv => TablesExact
  BY DEF TablesInv
<1> QED BY InitTables, NextTables, <1>1, PTL DEF CheckerSpec, allVars

-----------------------------------------------------------------------------
(* The exit status.                                                        *)

LEMMA PassStatus ==
  ASSUME NEW from, NEW to, NEW serious, NEW other,
         ExitStatus, Pass(from, to, serious, other),
         \A line \in serious : ~Silent(line),
         \A line \in other : Silent(line)
  PROVE  ExitStatus'
<1>1. report' = report \cup serious \cup other /\ flaws' = (flaws \/ serious # {})
  BY DEF Pass
<1>2. (\E line \in report' : ~Silent(line)) <=> (\E line \in report : ~Silent(line)) \/ serious # {}
  BY <1>1
<1>3. ExitStatus' <=> (flaws' <=> \E line \in report' : ~Silent(line))
  BY DEF ExitStatus, Silent
<1> QED BY <1>1, <1>2, <1>3 DEF ExitStatus

LEMMA PointerSilence ==
  /\ \A k \in DirectPointers : Indirection(k) = 0
  /\ \A k \in IndexPointers : Indirection(k) # 0
BY SizesAssumption, SMT DEF DirectPointers, IndexPointers, Indirection

LEMMA PointerLineSilence ==
  ASSUME NEW kind \in {"INVALID", "RESERVED"}, NEW S, NEW ks, S \subseteq PointerPairs(ks)
  PROVE  \A line \in PointerLines(kind, S) :
           \E k \in ks : Silent(line) <=> Indirection(k) = 0
<1> SUFFICES ASSUME NEW line \in PointerLines(kind, S)
             PROVE  \E k \in ks : Silent(line) <=> Indirection(k) = 0
  OBVIOUS
<1>1. PICK s \in S : line = PointerLine(kind, s)
  BY DEF PointerLines
<1>2. s[2] \in ks
  BY DEF PointerPairs
<1>3. line[1] = kind /\ line[4] = Indirection(s[2])
  BY <1>1 DEF PointerLine
<1> QED BY <1>2, <1>3 DEF Silent

LEMMA PointerStatus ==
  ASSUME NEW kind \in {"INVALID", "RESERVED"}, NEW S, NEW T,
         S \subseteq PointerPairs(IndexPointers), T \subseteq PointerPairs(DirectPointers)
  PROVE  /\ \A line \in PointerLines(kind, S) : ~Silent(line)
         /\ \A line \in PointerLines(kind, T) : Silent(line)
BY PointerLineSilence, PointerSilence

LEMMA EntrySilence ==
  ASSUME NEW kind, NEW S, NEW line \in EntryLines(kind, S)
  PROVE  line[1] = kind
BY DEF EntryLines

LEMMA Counted ==
  ASSUME NEW line, line[1] \notin {"DUPLICATE", "DOT DOT", "INVALID", "RESERVED"}
  PROVE  ~Silent(line)
BY DEF Silent

LEMMA NextStatus == ExitStatus /\ [CheckerNext]_allVars => ExitStatus'
<1> SUFFICES ASSUME ExitStatus, [CheckerNext]_allVars PROVE ExitStatus'
  OBVIOUS
<1>1. CASE UNCHANGED <<report, flaws>>
  BY <1>1 DEF ExitStatus, Silent
<1>2. CASE CheckBlocks
  <2>1. \A line \in BlockLines : ~Silent(line)
    <3>1. ASSUME NEW b PROVE ~Silent(<<"UNREFERENCED BLOCK", b>>) /\ ~Silent(<<"ALLOCATED BLOCK", b>>)
      BY Counted
    <3> QED BY <3>1, Zenon DEF BlockLines
  <2> QED BY <1>2, <2>1, PassStatus DEF CheckBlocks
<1>3. CASE CheckDuplicates
  <2>1. \A line \in DuplicateLines : Silent(line)
    <3>1. \A line \in DuplicateLines : line[1] = "DUPLICATE"
      BY DEF DuplicateLines
    <3> QED BY <3>1 DEF Silent
  <2> QED BY <1>3, <2>1, PassStatus DEF CheckDuplicates
<1>4. CASE CheckInvalid
  <2>1. \A ks : Invalid(ks) \subseteq PointerPairs(ks)
    BY DEF Invalid
  <2> QED BY <1>4, <2>1, PointerStatus, PassStatus DEF CheckInvalid
<1>5. CASE CheckReserved
  <2>1. \A ks : ReservedAt(ks) \subseteq PointerPairs(ks)
    BY DEF ReservedAt
  <2> QED BY <1>5, <2>1, PointerStatus, PassStatus DEF CheckReserved
<1>6. CASE CheckUnallocatedInodes
  <2>1. \A line \in UnallocatedInodeLines : ~Silent(line)
    <3>1. ASSUME NEW n PROVE ~Silent(<<"UNALLOCATED INODE", n>>)
      BY Counted
    <3> QED BY <3>1, Zenon DEF UnallocatedInodeLines
  <2> QED BY <1>6, <2>1, PassStatus DEF CheckUnallocatedInodes
<1>7. CASE CheckAllocatedInodes
  <2>1. \A line \in AllocatedInodeLines : ~Silent(line)
    <3>1. ASSUME NEW n PROVE ~Silent(<<"ALLOCATED INODE", n>>)
      BY Counted
    <3> QED BY <3>1, Zenon DEF AllocatedInodeLines
  <2> QED BY <1>7, <2>1, PassStatus DEF CheckAllocatedInodes
<1>8. CASE CheckLinks
  <2>1. \A line \in LinkLines : ~Silent(line)
    <3>1. \A line \in LinkLines : line[1] = "LINKS"
      BY DEF LinkLines
    <3> QED BY <3>1 DEF Silent
  <2> QED BY <1>8, <2>1, PassStatus DEF CheckLinks
<1>9. CASE CheckEntries
  <2>1. \A line \in EntryLines("INVALID INODE", InvalidEntries) : ~Silent(line)
    BY EntrySilence, Counted
  <2>2. \A line \in EntryLines("UNALLOCATED ENTRY", UnallocatedEntries) : ~Silent(line)
    BY EntrySilence, Counted
  <2> DEFINE serious == EntryLines("INVALID INODE", InvalidEntries)
                          \cup EntryLines("UNALLOCATED ENTRY", UnallocatedEntries)
  <2>3. Pass("entries", "dots", serious, {}) /\ \A line \in serious : ~Silent(line)
    BY <1>9, <2>1, <2>2 DEF CheckEntries
  <2> HIDE DEF serious
  <2> QED BY <2>3, PassStatus
<1>10. CASE CheckDots
  <2>1. \A line \in EntryLines("DOT", WrongDots) : ~Silent(line)
    BY EntrySilence DEF Silent
  <2>2. \A line \in EntryLines("DOT DOT", WrongRootDots) : Silent(line)
    BY EntrySilence DEF Silent
  <2> QED BY <1>10, <2>1, <2>2, PassStatus DEF CheckDots
<1>11. CASE ReadFree \/ ReadInode \/ ReadShortInode \/ ReadDirent \/ ReadIndirect \/ RowsRead
  BY <1>11, <1>1 DEF ReadFree, ReadInode, ReadShortInode, ReadDirent, ReadIndirect, RowsRead
<1>12. CASE UNCHANGED allVars
  BY <1>12, <1>1 DEF allVars, checkerVars
<1> QED BY <1>2, <1>3, <1>4, <1>5, <1>6, <1>7, <1>8, <1>9, <1>10, <1>11, <1>12 DEF CheckerNext

(* The exit status is 2 exactly if a line of a kind that counts is printed.*)
THEOREM StatusCorrect == CheckerSpec => []ExitStatus
<1>1. CheckerInit => ExitStatus
  BY DEF CheckerInit, TablesInit, ExitStatus
<1> QED BY <1>1, NextStatus, PTL DEF CheckerSpec, allVars

-----------------------------------------------------------------------------
(* The report on blocks.                                                   *)

(* A pass adds to the report and leaves the rows and tables alone.         *)
LEMMA PassKeeps ==
  ASSUME NEW from, NEW to, NEW serious, NEW other, Pass(from, to, serious, other)
  PROVE  /\ step = from /\ step' = to /\ report' = report \cup serious \cup other
         /\ csv' = csv /\ row' = row
BY DEF Pass

LEMMA KeepsReported ==
  ASSUME BlocksReported, csv' = csv, row' = row, report \subseteq report',
         step' \in AfterBlocks => step \in AfterBlocks,
         step' \in AfterDuplicates => step \in AfterDuplicates
  PROVE  BlocksReported'
<1>1. ASSUME DataBlocksReported PROVE DataBlocksReported'
  BY <1>1, RowsStay DEF DataBlocksReported, DataBlocks
<1>2. ASSUME PairsReported PROVE PairsReported'
  <2> SUFFICES ASSUME NEW s \in InodeSlots(row), NEW t \in Slots(row),
                      t # s, NamedAt(t) = NamedAt(s)
               PROVE  <<"DUPLICATE", NamedAt(s), csv[s[1]].inode, Indirection(s[2]),
                        OffsetVal(Indirection(s[2]))>> \in report'
    BY RowsStay, RecordsStay DEF PairsReported
  <2> QED BY <1>2 DEF PairsReported
<1> QED BY <1>1, <1>2 DEF BlocksReported, AfterBlocks, AfterDuplicates

LEMMA BlocksPass == TablesInv /\ BlocksReported /\ CheckBlocks => BlocksReported'
<1> SUFFICES ASSUME TablesInv, BlocksReported, CheckBlocks PROVE BlocksReported'
  OBVIOUS
<1>1. /\ step' = "duplicates" /\ csv' = csv /\ row' = row
      /\ report' = report \cup BlockLines \cup {}
  BY PassKeeps DEF CheckBlocks
<1>2. ASSUME NEW b \in DataBlocks
      PROVE  LET free  == \E i \in RowsOf("BFREE", row) : csv[i].num = b
                 named == \E s \in Slots(row) : NamedAt(s) = b
             IN  /\ ~free /\ ~named => <<"UNREFERENCED BLOCK", b>> \in report'
                 /\ free /\ named => <<"ALLOCATED BLOCK", b>> \in report'
  <2>1. /\ b \in free_block_nums <=> \E i \in RowsOf("BFREE", row) : csv[i].num = b
        /\ b \in allocated_block_nums <=> \E s \in Slots(row) : NamedAt(s) = b
    BY DEF TablesInv, TablesExact
  <2>2. /\ b \notin free_block_nums \cup allocated_block_nums
             => <<"UNREFERENCED BLOCK", b>> \in BlockLines
        /\ b \in free_block_nums \cap allocated_block_nums => <<"ALLOCATED BLOCK", b>> \in BlockLines
    BY Zenon DEF BlockLines
  <2> QED BY <1>1, <2>1, <2>2
<1>3. DataBlocksReported'
  BY <1>1, <1>2, RowsStay DEF DataBlocksReported, DataBlocks
<1> QED BY <1>1, <1>3 DEF BlocksReported, AfterDuplicates

LEMMA DuplicatesPass == TablesInv /\ BlocksReported /\ CheckDuplicates => BlocksReported'
<1> SUFFICES ASSUME TablesInv, BlocksReported, CheckDuplicates PROVE BlocksReported'
  OBVIOUS
<1> DEFINE line(s) == <<"DUPLICATE", NamedAt(s), csv[s[1]].inode, Indirection(s[2]),
                        OffsetVal(Indirection(s[2]))>>
<1>1. /\ step = "duplicates" /\ step' = "invalid" /\ csv' = csv /\ row' = row
      /\ report' = report \cup {} \cup DuplicateLines
  BY PassKeeps DEF CheckDuplicates
<1>2. ASSUME NEW s \in InodeSlots(row), NEW t \in Slots(row), t # s, NamedAt(t) = NamedAt(s)
      PROVE  line(s) \in report'
  <2> DEFINE record == BlockOf(csv[s[1]], s[2])
  <2>1. record \in all_block_list
    BY DEF TablesInv, TablesExact
  <2>2. s \in Slots(row)
    BY DEF Slots
  <2>3. /\ record.num = NamedAt(s) /\ record.inode = csv[s[1]].inode
        /\ record.indirection = Indirection(s[2])
        /\ record.offset = OffsetVal(Indirection(s[2]))
    <3>1. s[2] # 0
      BY SizesAssumption, SMT DEF InodeSlots, Pointers
    <3> QED BY <3>1 DEF BlockOf, NamedAt
  <2>4. record.num \in repeated_block_nums
    BY <1>2, <2>2, <2>3 DEF TablesInv, TablesExact
  <2>5. <<"DUPLICATE", record.num, record.inode, record.indirection, record.offset>> \in DuplicateLines
    <3> HIDE DEF record
    <3> QED BY <2>1, <2>4, Zenon DEF DuplicateLines
  <2> QED BY <1>1, <2>3, <2>5
<1>3. step \in AfterBlocks /\ step' \in AfterBlocks
  BY <1>1 DEF AfterBlocks, AfterDuplicates
<1>4. DataBlocksReported'
  BY <1>1, <1>3, RowsStay DEF BlocksReported, DataBlocksReported, DataBlocks
<1>5. PairsReported'
  BY <1>1, <1>2, RowsStay, RecordsStay DEF PairsReported
<1> QED BY <1>4, <1>5 DEF BlocksReported

LEMMA NextReported == TablesInv /\ BlocksReported /\ [CheckerNext]_allVars => BlocksReported'
<1> SUFFICES ASSUME TablesInv, BlocksReported, [CheckerNext]_allVars PROVE BlocksReported'
  OBVIOUS
<1> USE DEF AfterBlocks, AfterDuplicates
<1>1. CASE step' \in {"rows", "crashed", "blocks"}
  BY <1>1 DEF BlocksReported
<1>2. CASE ReadFree \/ ReadInode \/ ReadDirent \/ ReadIndirect
  BY <1>1, <1>2 DEF ReadFree, ReadInode, ReadDirent, ReadIndirect, Reading
<1>3. CASE ReadShortInode \/ RowsRead
  BY <1>1, <1>3 DEF ReadShortInode, RowsRead
<1>4. CASE CheckInvalid \/ CheckReserved \/ CheckUnallocatedInodes \/ CheckAllocatedInodes
  BY <1>4, PassKeeps, KeepsReported
     DEF CheckInvalid, CheckReserved, CheckUnallocatedInodes, CheckAllocatedInodes
<1>5. CASE CheckLinks \/ CheckEntries \/ CheckDots
  BY <1>5, PassKeeps, KeepsReported DEF CheckLinks, CheckEntries, CheckDots
<1>6. CASE UNCHANGED allVars
  BY <1>6, KeepsReported DEF allVars, checkerVars
<1> QED BY <1>2, <1>3, <1>4, <1>5, <1>6, BlocksPass, DuplicatesPass DEF CheckerNext

(* No order of the rows hides a block that is lost, used while free, or    *)
(* used twice.                                                             *)
THEOREM BlocksCorrect == CheckerSpec => []BlocksReported
<1>1. CheckerInit => BlocksReported
  BY DEF CheckerInit, TablesInit, BlocksReported, AfterBlocks, AfterDuplicates
<1> QED BY InitTables, NextTables, <1>1, NextReported, PTL DEF CheckerSpec, allVars

-----------------------------------------------------------------------------
(* The sensor programs.                                                    *)

(* Induction, over sets: over operators it could not be used.              *)

(* Over the numbers: there is no least one outside T.                      *)
LEMMA Induction ==
  ASSUME NEW T, 0 \in T, \A n \in Nat : n \in T => n + 1 \in T
  PROVE  \A n \in Nat : n \in T
<1> DEFINE R == OpToRel(<, Nat)
           U == {n \in Nat : n \notin T}
<1> SUFFICES ASSUME U # {} PROVE FALSE
  OBVIOUS
<1>1. IsWellFoundedOn(R, Nat)
  BY NatLessThanWellFounded
<1>2. PICK m \in U : \A k \in U : ~ (<<k, m>> \in R)
  <2> HIDE DEF R
  <2> QED BY <1>1, WFMin
<1>3. m \in Nat /\ m # 0 /\ m \notin T
  BY <1>2
<1>4. m - 1 \in Nat /\ (m - 1) + 1 = m /\ m - 1 < m
  BY <1>3
<1>5. m - 1 \in U /\ <<m - 1, m>> \in R
  BY <1>3, <1>4 DEF OpToRel
<1> QED BY <1>2, <1>5

(* Over sequences: what holds of <<>>, and of a longer one if of a shorter.*)
LEMMA SequenceInduction ==
  ASSUME NEW T, NEW P, <<>> \in P,
         \A q \in Seq(T), b \in T : q \in P => Append(q, b) \in P
  PROVE  Seq(T) \subseteq P
<1> DEFINE N == {n \in Nat : \A q \in Seq(T) : Len(q) = n => q \in P}
<1>1. 0 \in N
  <2>1. \A q \in Seq(T) : Len(q) = 0 => q = <<>>
    BY EmptySeq
  <2> QED BY <2>1
<1>2. ASSUME NEW n \in Nat, n \in N PROVE n + 1 \in N
  <2> SUFFICES ASSUME NEW q \in Seq(T), Len(q) = n + 1 PROVE q \in P
    OBVIOUS
  <2>1. q # <<>>
    BY EmptySeq
  <2>2. PICK r \in Seq(T), b \in T : q = Append(r, b)
    BY <2>1, SequenceEmptyOrAppend
  <2>3. Len(r) = n
    BY <2>2, AppendProperties, LenProperties
  <2> QED BY <1>2, <2>2, <2>3
<1> HIDE DEF N
<1>3. \A n \in Nat : n \in N
  BY <1>1, <1>2, Induction
<1> QED BY <1>3, LenProperties DEF N

-----------------------------------------------------------------------------
(* Joining the sequences of a sequence.                                    *)

(* FlattenSeq of the first n of q.                                         *)
IsJoin(g, q, n) == g = [i \in 1..n |-> IF i = 1 THEN q[i] ELSE g[i - 1] \o q[i]]

(* The recursion of FlattenSeq has a solution.                             *)
LEMMA JoinExists ==
  ASSUME NEW q
  PROVE  \A n \in Nat : \E g : IsJoin(g, q, n)
<1> DEFINE T == {n \in Nat : \E g : IsJoin(g, q, n)}
<1>1. 0 \in T
  <2> DEFINE h == [i \in 1..0 |-> <<>>]
  <2>1. h = [i \in 1..0 |-> IF i = 1 THEN q[i] ELSE h[i - 1] \o q[i]]
    OBVIOUS
  <2> HIDE DEF h
  <2>2. IsJoin(h, q, 0)
    BY <2>1 DEF IsJoin
  <2> QED BY <2>2
<1>2. ASSUME NEW m \in Nat, m \in T PROVE m + 1 \in T
  <2>1. PICK g : IsJoin(g, q, m)
    BY <1>2
  <2> DEFINE next(i, s) == s \o q[i]
             h == [i \in 1..(m + 1) |-> IF i = 1 THEN q[1]
                                        ELSE IF i = m + 1 THEN next(i, g[m]) ELSE g[i]]
  <2>2. \A i \in 1..m : g[i] = IF i = 1 THEN q[1] ELSE next(i, g[i - 1])
    BY <2>1 DEF IsJoin
  <2> HIDE DEF next
  <2>3. \A i \in 1..(m + 1) : h[i] = IF i = 1 THEN q[1] ELSE next(i, h[i - 1])
    <3> SUFFICES ASSUME NEW i \in 1..(m + 1)
                 PROVE  h[i] = IF i = 1 THEN q[1] ELSE next(i, h[i - 1])
      OBVIOUS
    <3>1. CASE i = m + 1 /\ i # 1
      <4>1. h[i - 1] = g[m] /\ h[i] = next(i, g[m])
        BY <2>2, <3>1
      <4> QED BY <3>1, <4>1
    <3>2. CASE i # m + 1 \/ i = 1
      <4>1. i # 1 => i \in 1..m /\ i - 1 \in 1..m /\ h[i] = g[i] /\ h[i - 1] = g[i - 1]
        BY <2>2, <3>2
      <4> QED BY <2>2, <3>2, <4>1
    <3> QED BY <3>1, <3>2
  <2>4. h = [i \in 1..(m + 1) |-> IF i = 1 THEN q[1] ELSE next(i, h[i - 1])]
    <3>1. h = [i \in 1..(m + 1) |-> h[i]]
      OBVIOUS
    <3> HIDE DEF h
    <3> QED BY <2>3, <3>1
  <2> HIDE DEF h
  <2>5. IsJoin(h, q, m + 1)
    BY <2>4 DEF IsJoin, next
  <2> QED BY <2>5
<1> HIDE DEF T
<1>3. \A n \in Nat : n \in T
  BY <1>1, <1>2, Induction
<1> QED BY <1>3 DEF T

(* Sequences that begin alike are joined alike.                            *)
LEMMA SameJoin ==
  ASSUME NEW q, NEW r, NEW n \in Nat, NEW m \in Nat, n # 0, n <= m,
         NEW g, NEW h, IsJoin(g, q, n), IsJoin(h, r, m),
         \A i \in 1..n : q[i] = r[i]
  PROVE  g[n] = h[n]
<1> DEFINE T == {k \in Nat : k \in 1..n => g[k] = h[k]}
<1>1. 0 \in T
  OBVIOUS
<1>2. ASSUME NEW k \in Nat, k \in T PROVE k + 1 \in T
  <2> SUFFICES ASSUME k + 1 <= n PROVE g[k + 1] = h[k + 1]
    OBVIOUS
  <2>1. k + 1 \in 1..n /\ k + 1 \in 1..m /\ (k + 1) - 1 = k /\ q[k + 1] = r[k + 1]
    OBVIOUS
  <2>2. k + 1 # 1 => g[k] = h[k]
    BY <1>2
  <2>3. g[k + 1] = IF k + 1 = 1 THEN q[k + 1] ELSE g[k] \o q[k + 1]
    BY ONLY IsJoin(g, q, n), <2>1 DEF IsJoin
  <2>4. h[k + 1] = IF k + 1 = 1 THEN r[k + 1] ELSE h[k] \o r[k + 1]
    BY ONLY IsJoin(h, r, m), <2>1 DEF IsJoin
  <2> QED BY <2>1, <2>2, <2>3, <2>4
<1> HIDE DEF T
<1>3. \A k \in Nat : k \in T
  BY <1>1, <1>2, Induction
<1> QED BY <1>3 DEF T

(* FlattenSeq is what a join of the whole sequence ends with.              *)
LEMMA FlattenIs ==
  ASSUME NEW T, NEW q \in Seq(T), q # <<>>
  PROVE  \E g : IsJoin(g, q, Len(q)) /\ FlattenSeq(q) = g[Len(q)]
<1> DEFINE f == CHOOSE g : IsJoin(g, q, Len(q))
<1>1. Len(q) \in Nat /\ Len(q) # 0
  BY EmptySeq
<1>2. IsJoin(f, q, Len(q))
  BY <1>1, JoinExists
<1>3. FlattenSeq(q) = f[Len(q)]
  BY <1>1 DEF FlattenSeq, IsJoin
<1> QED BY <1>2, <1>3

LEMMA FlattenNone == FlattenSeq(<<>>) = <<>>
BY DEF FlattenSeq

(* One sequence more comes after the others.                               *)
LEMMA FlattenOne ==
  ASSUME NEW T, NEW u \in Seq(T)
  PROVE  FlattenSeq(<<u>>) = u
<1>1. <<u>> \in Seq(Seq(T)) /\ <<u>> # <<>> /\ Len(<<u>>) = 1 /\ <<u>>[1] = u
  OBVIOUS
<1>2. PICK g : IsJoin(g, <<u>>, 1) /\ FlattenSeq(<<u>>) = g[1]
  BY <1>1, FlattenIs
<1> QED BY <1>1, <1>2 DEF IsJoin

LEMMA FlattenAppend ==
  ASSUME NEW T, NEW q \in Seq(T), q # <<>>, NEW u \in T
  PROVE  FlattenSeq(Append(q, u)) = FlattenSeq(q) \o u
<1> DEFINE r == Append(q, u)
<1>1. /\ r \in Seq(T) /\ r # <<>> /\ Len(q) \in Nat /\ Len(q) # 0 /\ Len(r) = Len(q) + 1
      /\ r[Len(q) + 1] = u /\ \A i \in 1..Len(q) : q[i] = r[i]
  BY AppendProperties, LenProperties, EmptySeq
<1> HIDE DEF r
<1>2. PICK g : IsJoin(g, q, Len(q)) /\ FlattenSeq(q) = g[Len(q)]
  BY FlattenIs
<1>3. PICK h : IsJoin(h, r, Len(r)) /\ FlattenSeq(r) = h[Len(r)]
  BY <1>1, FlattenIs
<1>4. g[Len(q)] = h[Len(q)]
  BY <1>1, <1>2, <1>3, SameJoin
<1>5. h[Len(r)] = h[Len(q)] \o u
  <2>1. Len(r) \in 1..Len(r) /\ Len(r) # 1 /\ Len(r) - 1 = Len(q) /\ r[Len(r)] = u
    BY <1>1
  <2> QED BY <1>3, <2>1 DEF IsJoin
<1> QED BY <1>2, <1>3, <1>4, <1>5 DEF r

LEMMA FlattenMore ==
  ASSUME NEW T, NEW q \in Seq(Seq(T)), NEW u \in Seq(T)
  PROVE  FlattenSeq(Append(q, u)) = FlattenSeq(q) \o u
<1>1. CASE q = <<>>
  <2>1. Append(q, u) = <<u>>
    BY <1>1
  <2>2. <<>> \o u = u
    BY ConcatEmptySeq
  <2> QED BY <1>1, <2>1, <2>2, FlattenNone, FlattenOne
<1>2. CASE q # <<>>
  BY <1>2, FlattenAppend
<1> QED BY <1>1, <1>2

LEMMA FlattenType ==
  ASSUME NEW T, NEW q \in Seq(Seq(T))
  PROVE  FlattenSeq(q) \in Seq(T)
<1> DEFINE P == {r \in Seq(Seq(T)) : FlattenSeq(r) \in Seq(T)}
<1>1. <<>> \in P
  BY EmptySeq, FlattenNone
<1>2. ASSUME NEW r \in Seq(Seq(T)), NEW u \in Seq(T), r \in P PROVE Append(r, u) \in P
  <2>1. FlattenSeq(r) \in Seq(T) /\ Append(r, u) \in Seq(Seq(T))
    BY <1>2, AppendProperties
  <2>2. FlattenSeq(r) \o u \in Seq(T)
    BY <2>1, ConcatProperties
  <2> QED BY <2>1, <2>2, FlattenMore
<1> HIDE DEF P
<1>3. Seq(Seq(T)) \subseteq P
  BY <1>1, <1>2, SequenceInduction
<1> QED BY <1>3 DEF P

LEMMA FlattenConcat ==
  ASSUME NEW T, NEW p \in Seq(Seq(T)), NEW q \in Seq(Seq(T))
  PROVE  FlattenSeq(p \o q) = FlattenSeq(p) \o FlattenSeq(q)
<1> DEFINE P == {r \in Seq(Seq(T)) : FlattenSeq(p \o r) = FlattenSeq(p) \o FlattenSeq(r)}
<1>1. <<>> \in P
  <2>1. p \o <<>> = p /\ FlattenSeq(p) \o <<>> = FlattenSeq(p)
    BY FlattenType, ConcatEmptySeq
  <2> QED BY <2>1, FlattenNone, EmptySeq
<1>2. ASSUME NEW r \in Seq(Seq(T)), NEW u \in Seq(T), r \in P PROVE Append(r, u) \in P
  <2>1. /\ p \o r \in Seq(Seq(T)) /\ Append(r, u) \in Seq(Seq(T))
        /\ p \o Append(r, u) = Append(p \o r, u)
    BY AppendProperties, ConcatProperties
  <2>2. PICK fp, fr : fp = FlattenSeq(p) /\ fr = FlattenSeq(r)
    OBVIOUS
  <2>3. fp \in Seq(T) /\ fr \in Seq(T) /\ u \in Seq(T)
    BY <2>2, FlattenType
  <2>4. FlattenSeq(p \o r) = fp \o fr
    BY <1>2, <2>2
  <2>5. (fp \o fr) \o u = fp \o (fr \o u)
    BY ONLY <2>3, SMTT(30)
  <2>6. FlattenSeq(Append(p \o r, u)) = (fp \o fr) \o u
    BY <2>1, <2>4, FlattenMore
  <2>7. FlattenSeq(Append(r, u)) = fr \o u
    BY <2>2, FlattenMore
  <2> QED BY <2>1, <2>2, <2>5, <2>6, <2>7
<1> HIDE DEF P
<1>3. Seq(Seq(T)) \subseteq P
  BY <1>1, <1>2, SequenceInduction
<1> QED BY <1>3 DEF P

(* The first sequence comes first.                                         *)
LEMMA FlattenFirst ==
  ASSUME NEW T, NEW q \in Seq(Seq(T)), q # <<>>
  PROVE  FlattenSeq(q) = Head(q) \o FlattenSeq(Tail(q))
<1>1. PICK one, rest : one = <<Head(q)>> /\ rest = Tail(q)
  OBVIOUS
<1>2. /\ Head(q) \in Seq(T) /\ rest \in Seq(Seq(T)) /\ one \in Seq(Seq(T)) /\ q = one \o rest
  BY <1>1, HeadTailProperties
<1>3. FlattenSeq(one) = Head(q)
  BY <1>1, <1>2, FlattenOne
<1> QED BY <1>1, <1>2, <1>3, FlattenConcat

(* More is joined to the last sequence.                                    *)
LEMMA FlattenLast ==
  ASSUME NEW T, NEW q \in Seq(Seq(T)), q # <<>>, NEW u \in Seq(T)
  PROVE  /\ Append(Front(q), Last(q) \o u) \in Seq(Seq(T))
         /\ FlattenSeq(Append(Front(q), Last(q) \o u)) = FlattenSeq(q) \o u
<1>1. PICK r \in Seq(Seq(T)), v \in Seq(T) : q = Append(r, v)
  BY SequenceEmptyOrAppend
<1>2. Front(q) = r /\ Last(q) = v
  BY <1>1 DEF Front, Last
<1>3. v \o u \in Seq(T)
  BY ConcatProperties
<1>4. PICK fr : fr = FlattenSeq(r)
  OBVIOUS
<1>5. fr \in Seq(T) /\ v \in Seq(T) /\ u \in Seq(T)
  BY <1>4, FlattenType
<1>6. (fr \o v) \o u = fr \o (v \o u)
  BY ONLY <1>5, SMTT(30)
<1>7. FlattenSeq(Append(r, v \o u)) = fr \o (v \o u)
  BY <1>3, <1>4, FlattenMore
<1>8. FlattenSeq(q) = fr \o v
  BY <1>1, <1>4, FlattenMore
<1>9. Append(r, v \o u) \in Seq(Seq(T))
  BY <1>3, AppendProperties
<1> QED BY <1>2, <1>6, <1>7, <1>8, <1>9

-----------------------------------------------------------------------------
(* The lines that may be sent.                                             *)

Known == {"START", "STOP", "OFF", "SCALE=C", "PERIOD=2", "PERIOD=10", "LOG OFF"}

Piece == {"ST", "ART", "OP", "O", "FF", "SCALE=", "C", "PERIOD=", "2", "1", "0", "LOG ", "\n"}

LEMMA PiecesAre ==
  /\ DOMAIN PiecesOf = Known
  /\ PiecesOf["START"] = <<"ST", "ART", "\n">>
  /\ PiecesOf["STOP"] = <<"ST", "OP", "\n">>
  /\ PiecesOf["OFF"] = <<"O", "FF", "\n">>
  /\ PiecesOf["SCALE=C"] = <<"SCALE=", "C", "\n">>
  /\ PiecesOf["PERIOD=2"] = <<"PERIOD=", "2", "\n">>
  /\ PiecesOf["PERIOD=10"] = <<"PERIOD=", "1", "0", "\n">>
  /\ PiecesOf["LOG OFF"] = <<"LOG ", "O", "FF", "\n">>
BY DEF PiecesOf, Known

LEMMA LinesKnown == Lines \subseteq Known
BY SensorAssumption, PiecesAre

LineShaped(q) ==
  /\ q \in Seq(Piece)
  /\ Len(q) \in {3, 4}
  /\ \A j \in 1..Len(q) : q[j] = "\n" <=> j = Len(q)

LEMMA Three ==
  ASSUME NEW a \in Piece, NEW b \in Piece, a # "\n", b # "\n"
  PROVE  LineShaped(<<a, b, "\n">>)
<1> DEFINE q == <<a, b, "\n">>
<1>1. "\n" \in Piece
  BY DEF Piece
<1>2. q \in Seq(Piece) /\ Len(q) = 3 /\ q[1] = a /\ q[2] = b /\ q[3] = "\n"
  BY <1>1
<1> HIDE DEF q
<1>3. LineShaped(q)
  BY <1>2 DEF LineShaped
<1> QED BY <1>3 DEF q

LEMMA Four ==
  ASSUME NEW a \in Piece, NEW b \in Piece, NEW c \in Piece, a # "\n", b # "\n", c # "\n"
  PROVE  LineShaped(<<a, b, c, "\n">>)
<1> DEFINE q == <<a, b, c, "\n">>
<1>1. "\n" \in Piece
  BY DEF Piece
<1>2. q \in Seq(Piece) /\ Len(q) = 4 /\ q[1] = a /\ q[2] = b /\ q[3] = c /\ q[4] = "\n"
  BY <1>1
<1> HIDE DEF q
<1>3. LineShaped(q)
  BY <1>2 DEF LineShaped
<1> QED BY <1>3 DEF q

(* A line is a sequence of pieces, and its newline is the last of them.    *)
LEMMA LineShape ==
  ASSUME NEW line \in Known
  PROVE  /\ PiecesOf[line] \in Seq(Piece)
         /\ Len(PiecesOf[line]) \in {3, 4}
         /\ \A j \in 1..Len(PiecesOf[line]) :
              PiecesOf[line][j] = "\n" <=> j = Len(PiecesOf[line])
<1>1. /\ {"ST", "ART", "OP", "O", "FF", "SCALE=", "C", "PERIOD=", "2", "1", "0", "LOG "} \subseteq Piece
      /\ "\n" \notin {"ST", "ART", "OP", "O", "FF", "SCALE=", "C", "PERIOD=", "2", "1", "0", "LOG "}
  BY DEF Piece
<1>2. CASE line \in {"START", "STOP", "OFF", "SCALE=C", "PERIOD=2"}
  <2>1. PICK a \in Piece, b \in Piece : a # "\n" /\ b # "\n" /\ PiecesOf[line] = <<a, b, "\n">>
    BY <1>1, <1>2, PiecesAre
  <2>2. LineShaped(PiecesOf[line])
    BY <2>1, Three
  <2> QED BY <2>2 DEF LineShaped
<1>3. CASE line \in {"PERIOD=10", "LOG OFF"}
  <2>1. PICK a \in Piece, b \in Piece, c \in Piece :
          a # "\n" /\ b # "\n" /\ c # "\n" /\ PiecesOf[line] = <<a, b, c, "\n">>
    BY <1>1, <1>3, PiecesAre
  <2>2. LineShaped(PiecesOf[line])
    BY <2>1, Four
  <2> QED BY <2>2 DEF LineShaped
<1> QED BY <1>2, <1>3 DEF Known

LEMMA Pair ==
  ASSUME NEW T, NEW q \in Seq(T), NEW a \in T, NEW b \in T
  PROVE  q = <<a, b>> <=> Len(q) = 2 /\ q[1] = a /\ q[2] = b
OBVIOUS

(* The commands without a number that are read.                            *)
LEMMA Pairs ==
  ASSUME NEW T, NEW q \in Seq(T),
         {"ST", "ART", "OP", "SCALE=", "C", "O", "FF"} \subseteq T
  PROVE  /\ q = <<"ST", "ART">> <=> Len(q) = 2 /\ q[1] = "ST" /\ q[2] = "ART"
         /\ q = <<"ST", "OP">> <=> Len(q) = 2 /\ q[1] = "ST" /\ q[2] = "OP"
         /\ q = <<"SCALE=", "C">> <=> Len(q) = 2 /\ q[1] = "SCALE=" /\ q[2] = "C"
         /\ q = <<"O", "FF">> <=> Len(q) = 2 /\ q[1] = "O" /\ q[2] = "FF"
<1>1. /\ "ST" \in T /\ "ART" \in T /\ "OP" \in T /\ "SCALE=" \in T
      /\ "C" \in T /\ "O" \in T /\ "FF" \in T
  OBVIOUS
<1>2. q = <<"ST", "ART">> <=> Len(q) = 2 /\ q[1] = "ST" /\ q[2] = "ART"
  BY <1>1, Pair
<1>3. q = <<"ST", "OP">> <=> Len(q) = 2 /\ q[1] = "ST" /\ q[2] = "OP"
  BY <1>1, Pair
<1>4. q = <<"SCALE=", "C">> <=> Len(q) = 2 /\ q[1] = "SCALE=" /\ q[2] = "C"
  BY <1>1, Pair
<1>5. q = <<"O", "FF">> <=> Len(q) = 2 /\ q[1] = "O" /\ q[2] = "FF"
  BY <1>1, Pair
<1> QED BY <1>2, <1>3, <1>4, <1>5

(* The first two pieces of a line, and whether there is a third.           *)
Begins(line, a, b) ==
  /\ PiecesOf[line][1] = a /\ PiecesOf[line][2] = b
  /\ Len(PiecesOf[line]) = IF line \in {"PERIOD=10", "LOG OFF"} THEN 4 ELSE 3
  /\ line = "START" <=> a = "ST" /\ b = "ART"
  /\ line = "STOP" <=> a = "ST" /\ b = "OP"
  /\ line = "SCALE=C" <=> a = "SCALE=" /\ b = "C"
  /\ line = "OFF" <=> a = "O" /\ b = "FF"

LEMMA LineBegins ==
  ASSUME NEW line \in Known
  PROVE  \E a, b : Begins(line, a, b)
<1>1. PICK p : p = PiecesOf[line]
  OBVIOUS
<1>2. CASE line = "START"
  <2>1. p = <<"ST", "ART", "\n">>
    BY <1>1, <1>2, PiecesAre
  <2>2. Len(p) = 3 /\ p[1] = "ST" /\ p[2] = "ART"
    BY ONLY <2>1
  <2> QED BY ONLY <1>1, <1>2, <2>2 DEF Begins
<1>3. CASE line = "STOP"
  <2>1. p = <<"ST", "OP", "\n">>
    BY <1>1, <1>3, PiecesAre
  <2>2. Len(p) = 3 /\ p[1] = "ST" /\ p[2] = "OP"
    BY ONLY <2>1
  <2> QED BY ONLY <1>1, <1>3, <2>2 DEF Begins
<1>4. CASE line = "OFF"
  <2>1. p = <<"O", "FF", "\n">>
    BY <1>1, <1>4, PiecesAre
  <2>2. Len(p) = 3 /\ p[1] = "O" /\ p[2] = "FF"
    BY ONLY <2>1
  <2> QED BY ONLY <1>1, <1>4, <2>2 DEF Begins
<1>5. CASE line = "SCALE=C"
  <2>1. p = <<"SCALE=", "C", "\n">>
    BY <1>1, <1>5, PiecesAre
  <2>2. Len(p) = 3 /\ p[1] = "SCALE=" /\ p[2] = "C"
    BY ONLY <2>1
  <2> QED BY ONLY <1>1, <1>5, <2>2 DEF Begins
<1>6. CASE line = "PERIOD=2"
  <2>1. p = <<"PERIOD=", "2", "\n">>
    BY <1>1, <1>6, PiecesAre
  <2>2. Len(p) = 3 /\ p[1] = "PERIOD=" /\ p[2] = "2"
    BY ONLY <2>1
  <2> QED BY ONLY <1>1, <1>6, <2>2 DEF Begins
<1>7. CASE line = "PERIOD=10"
  <2>1. p = <<"PERIOD=", "1", "0", "\n">>
    BY <1>1, <1>7, PiecesAre
  <2>2. Len(p) = 4 /\ p[1] = "PERIOD=" /\ p[2] = "1"
    BY ONLY <2>1
  <2> QED BY ONLY <1>1, <1>7, <2>2 DEF Begins
<1>8. CASE line = "LOG OFF"
  <2>1. p = <<"LOG ", "O", "FF", "\n">>
    BY <1>1, <1>8, PiecesAre
  <2>2. Len(p) = 4 /\ p[1] = "LOG " /\ p[2] = "O"
    BY ONLY <2>1
  <2> QED BY ONLY <1>1, <1>8, <2>2 DEF Begins
<1> QED BY <1>2, <1>3, <1>4, <1>5, <1>6, <1>7, <1>8 DEF Known

(* Which line is read is seen in what is before the newline.               *)
LEMMA LineRead ==
  ASSUME NEW line \in Known, NEW read \in Seq(Piece),
         Len(read) = Len(PiecesOf[line]) - 1,
         \A j \in 1..Len(read) : read[j] = PiecesOf[line][j]
  PROVE  /\ read = <<"ST", "ART">> <=> line = "START"
         /\ read = <<"ST", "OP">> <=> line = "STOP"
         /\ read = <<"SCALE=", "C">> <=> line = "SCALE=C"
         /\ read = <<"O", "FF">> <=> line = "OFF"
<1>1. /\ read = <<"ST", "ART">> <=> Len(read) = 2 /\ read[1] = "ST" /\ read[2] = "ART"
      /\ read = <<"ST", "OP">> <=> Len(read) = 2 /\ read[1] = "ST" /\ read[2] = "OP"
      /\ read = <<"SCALE=", "C">> <=> Len(read) = 2 /\ read[1] = "SCALE=" /\ read[2] = "C"
      /\ read = <<"O", "FF">> <=> Len(read) = 2 /\ read[1] = "O" /\ read[2] = "FF"
  <2>1. {"ST", "ART", "OP", "SCALE=", "C", "O", "FF"} \subseteq Piece
    BY DEF Piece
  <2> HIDE DEF Piece
  <2> QED BY <2>1, Pairs
<1>2. PICK a, b : Begins(line, a, b)
  BY LineBegins
<1>3. /\ read[1] = a /\ read[2] = b
      /\ Len(read) = IF line \in {"PERIOD=10", "LOG OFF"} THEN 3 ELSE 2
  <2>1. PICK p, long : p = PiecesOf[line] /\ long = IF line \in {"PERIOD=10", "LOG OFF"} THEN 1 ELSE 0
    OBVIOUS
  <2>2. Len(p) = IF long = 1 THEN 4 ELSE 3
    BY ONLY <1>2, <2>1 DEF Begins
  <2>3. Len(read) = Len(p) - 1 /\ \A j \in 1..Len(read) : read[j] = p[j]
    BY <2>1
  <2>4. Len(read) = IF long = 1 THEN 3 ELSE 2
    BY ONLY <2>2, <2>3
  <2>5. 1 \in 1..Len(read) /\ 2 \in 1..Len(read)
    BY ONLY <2>4
  <2>6. read[1] = p[1] /\ read[2] = p[2]
    BY ONLY <2>3, <2>5
  <2>7. p[1] = a /\ p[2] = b
    BY ONLY <1>2, <2>1 DEF Begins
  <2> QED BY ONLY <2>1, <2>4, <2>6, <2>7
<1>4. Len(read) = 2 <=> line \notin {"PERIOD=10", "LOG OFF"}
  <2>1. CASE line \in {"PERIOD=10", "LOG OFF"}
    <3>1. Len(read) = 3
      BY ONLY <1>3, <2>1
    <3>2. 3 # 2
      OBVIOUS
    <3> QED BY ONLY <2>1, <3>1, <3>2, Zenon
  <2>2. CASE line \notin {"PERIOD=10", "LOG OFF"}
    <3>1. Len(read) = 2
      BY ONLY <1>3, <2>2
    <3> QED BY ONLY <2>2, <3>1
  <2> QED BY ONLY <2>1, <2>2
<1>5. /\ Len(read) = 2 /\ read[1] = "ST" /\ read[2] = "ART" <=> line = "START"
      /\ Len(read) = 2 /\ read[1] = "ST" /\ read[2] = "OP" <=> line = "STOP"
      /\ Len(read) = 2 /\ read[1] = "SCALE=" /\ read[2] = "C" <=> line = "SCALE=C"
      /\ Len(read) = 2 /\ read[1] = "O" /\ read[2] = "FF" <=> line = "OFF"
  BY ONLY <1>2, <1>3, <1>4 DEF Begins
<1> QED BY ONLY <1>1, <1>5, Zenon

-----------------------------------------------------------------------------
(* What is on its way.                                                     *)

(* rest is the unread end of the lines in sent: its i-th piece is the      *)
(* at[i]-th of line of[i], and follows its predecessor there; n lines have *)
(* been read to their newlines.                                            *)
Marks(sent, n, rest, of, at) ==
  /\ \A i \in 1..Len(rest) :
       /\ of[i] \in 1..Len(sent)
       /\ at[i] \in 1..Len(PiecesOf[sent[of[i]]])
       /\ rest[i] = PiecesOf[sent[of[i]]][at[i]]
  /\ \A i \in 1..(Len(rest) - 1) :
       IF rest[i] = "\n" THEN of[i + 1] = of[i] + 1 /\ at[i + 1] = 1
                         ELSE of[i + 1] = of[i] /\ at[i + 1] = at[i] + 1
  /\ IF Len(rest) = 0 THEN n = Len(sent)
     ELSE of[1] = n + 1 /\ of[Len(rest)] = Len(sent) /\ rest[Len(rest)] = "\n"

(* What is left does not begin inside a line.                              *)
Whole(rest, at) == Len(rest) > 0 => at[1] = 1

(* One line more is sent.                                                  *)
LEMMA MarksSent ==
  ASSUME NEW sent \in Seq(Known), NEW n, NEW rest \in Seq(Piece), NEW of, NEW at,
         Marks(sent, n, rest, of, at), NEW line \in Known
  PROVE  \E of2, at2 :
           /\ Marks(Append(sent, line), n, rest \o PiecesOf[line], of2, at2)
           /\ Whole(rest, at) => Whole(rest \o PiecesOf[line], at2)
<1> DEFINE L    == Len(rest)
           M    == Len(PiecesOf[line])
           sent2 == Append(sent, line)
           rest2 == rest \o PiecesOf[line]
           of2   == [i \in 1..(L + M) |-> IF i <= L THEN of[i] ELSE Len(sent) + 1]
           at2   == [i \in 1..(L + M) |-> IF i <= L THEN at[i] ELSE i - L]
<1>1. PICK p : p = PiecesOf[line]
  OBVIOUS
<1>2. /\ p \in Seq(Piece) /\ M \in {3, 4} /\ Len(p) = M
      /\ \A j \in 1..M : p[j] = "\n" <=> j = M
  BY <1>1, LineShape
<1>3. L \in Nat /\ Len(sent) \in Nat
  OBVIOUS
<1>4. /\ Len(sent2) = Len(sent) + 1 /\ sent2[Len(sent) + 1] = line
      /\ \A k \in 1..Len(sent) : sent2[k] = sent[k]
  BY AppendProperties
<1>5. /\ Len(rest2) = L + M /\ \A i \in 1..L : rest2[i] = rest[i]
      /\ \A i \in (L + 1)..(L + M) : rest2[i] = p[i - L]
  <2>1. ASSUME NEW x \in Seq(Piece)
        PROVE  /\ Len(rest \o x) = Len(rest) + Len(x)
               /\ \A i \in 1..(Len(rest) + Len(x)) :
                    (rest \o x)[i] = IF i <= Len(rest) THEN rest[i] ELSE x[i - Len(rest)]
    BY ConcatProperties
  <2> QED BY <1>1, <1>2, <1>3, <2>1
<1>6. \A i \in 1..L : of2[i] = of[i] /\ at2[i] = at[i]
  BY <1>2, <1>3
<1>7. \A i \in (L + 1)..(L + M) : of2[i] = Len(sent) + 1 /\ at2[i] = i - L
  BY <1>2, <1>3
<1> HIDE DEF L, M, sent2, rest2, of2, at2
<1>8. /\ \A i \in 1..L : of[i] \in 1..Len(sent) /\ at[i] \in 1..Len(PiecesOf[sent[of[i]]])
                         /\ rest[i] = PiecesOf[sent[of[i]]][at[i]]
      /\ \A i \in 1..(L - 1) :
           IF rest[i] = "\n" THEN of[i + 1] = of[i] + 1 /\ at[i + 1] = 1
                             ELSE of[i + 1] = of[i] /\ at[i + 1] = at[i] + 1
      /\ IF L = 0 THEN n = Len(sent)
         ELSE of[1] = n + 1 /\ of[L] = Len(sent) /\ rest[L] = "\n"
  BY DEF Marks, L
<1>9. ASSUME NEW i \in 1..Len(rest2)
      PROVE  /\ of2[i] \in 1..Len(sent2) /\ at2[i] \in 1..Len(PiecesOf[sent2[of2[i]]])
             /\ rest2[i] = PiecesOf[sent2[of2[i]]][at2[i]]
  <2>1. CASE i <= L
    <3>1. i \in 1..L
      BY <1>2, <1>3, <1>5, <2>1
    <3>2. sent2[of2[i]] = sent[of[i]] /\ of2[i] = of[i] /\ at2[i] = at[i] /\ rest2[i] = rest[i]
      BY <1>4, <1>5, <1>6, <1>8, <3>1
    <3>3. of2[i] \in 1..Len(sent2)
      BY <1>3, <1>4, <1>8, <3>1, <3>2
    <3> QED BY <1>8, <3>1, <3>2, <3>3
  <2>2. CASE ~(i <= L)
    <3>1. i \in (L + 1)..(L + M) /\ i - L \in 1..M
      BY <1>2, <1>3, <1>5, <2>2
    <3>2. of2[i] = Len(sent) + 1 /\ at2[i] = i - L /\ rest2[i] = p[i - L] /\ sent2[of2[i]] = line
      BY <1>4, <1>5, <1>7, <3>1
    <3>3. of2[i] \in 1..Len(sent2)
      BY <1>3, <1>4, <3>2
    <3> QED BY <1>1, <1>2, <3>1, <3>2, <3>3 DEF M
  <2> QED BY <2>1, <2>2
<1>10. ASSUME NEW i \in 1..(Len(rest2) - 1)
       PROVE  IF rest2[i] = "\n" THEN of2[i + 1] = of2[i] + 1 /\ at2[i + 1] = 1
                                 ELSE of2[i + 1] = of2[i] /\ at2[i + 1] = at2[i] + 1
  <2>1. CASE i < L
    <3>1. i \in 1..L /\ i + 1 \in 1..L /\ i \in 1..(L - 1)
      BY <1>2, <1>3, <1>5, <2>1
    <3>2. of2[i] = of[i] /\ at2[i] = at[i] /\ rest2[i] = rest[i]
          /\ of2[i + 1] = of[i + 1] /\ at2[i + 1] = at[i + 1]
      BY <1>5, <1>6, <3>1
    <3> QED BY <1>8, <3>1, <3>2
  <2>2. CASE i = L
    <3>1. i \in 1..L /\ i + 1 \in (L + 1)..(L + M) /\ L # 0 /\ (i + 1) - L = 1
      BY <1>2, <1>3, <1>5, <2>2
    <3>2. rest2[i] = "\n" /\ of2[i] = Len(sent)
      BY <1>5, <1>6, <1>8, <2>2, <3>1
    <3> QED BY <1>7, <3>1, <3>2
  <2>3. CASE i > L
    <3>1. i \in (L + 1)..(L + M) /\ i + 1 \in (L + 1)..(L + M) /\ i - L \in 1..M /\ i - L # M
          /\ (i + 1) - L = (i - L) + 1
      BY <1>2, <1>3, <1>5, <2>3
    <3>2. rest2[i] # "\n"
      BY <1>2, <1>5, <3>1
    <3> QED BY <1>7, <3>1, <3>2
  <2> QED BY <1>3, <2>1, <2>2, <2>3
<1>11. /\ Len(rest2) # 0 /\ Len(rest2) \in (L + 1)..(L + M) /\ Len(rest2) - L = M
       /\ of2[Len(rest2)] = Len(sent2) /\ rest2[Len(rest2)] = "\n" /\ of2[1] = n + 1
  <2>1. Len(rest2) # 0 /\ Len(rest2) \in (L + 1)..(L + M) /\ Len(rest2) - L = M /\ M \in 1..M
    BY <1>2, <1>3, <1>5
  <2>2. of2[Len(rest2)] = Len(sent2)
    BY <1>4, <1>7, <2>1
  <2>3. rest2[Len(rest2)] = "\n"
    BY <1>2, <1>5, <2>1
  <2>4. of2[1] = n + 1
    <3>1. CASE L = 0
      <4>1. 1 \in (L + 1)..(L + M)
        BY <1>2, <3>1
      <4> QED BY <1>7, <1>8, <3>1, <4>1
    <3>2. CASE L # 0
      <4>1. 1 \in 1..L
        BY <1>3, <3>2
      <4> QED BY <1>6, <1>8, <3>2, <4>1
    <3> QED BY <3>1, <3>2
  <2> QED BY <2>1, <2>2, <2>3, <2>4
<1>12. Marks(sent2, n, rest2, of2, at2)
  BY <1>9, <1>10, <1>11 DEF Marks
<1>13. Whole(rest, at) => at2[1] = 1
  <2>1. CASE L = 0
    <3>1. 1 \in (L + 1)..(L + M) /\ 1 - L = 1
      BY <1>2, <2>1
    <3> QED BY <1>7, <3>1
  <2>2. CASE L # 0
    <3>1. 1 \in 1..L /\ L > 0
      BY <1>3, <2>2
    <3> QED BY <1>6, <3>1 DEF Whole, L
  <2> QED BY <2>1, <2>2
<1>14. Whole(rest, at) => Whole(rest2, at2)
  BY <1>13 DEF Whole
<1> QED BY <1>12, <1>14 DEF sent2, rest2

(* rest is buf and what comes after it.                                    *)
Follows(rest, buf, after) ==
  /\ Len(rest) = Len(buf) + Len(after)
  /\ \A i \in 1..Len(after) : rest[Len(buf) + i] = after[i]

(* m lines end in what was read, or before.                                *)
LinesRead(sent, of, buf, after, m) ==
  IF Len(after) = 0 THEN m = Len(sent) ELSE of[Len(buf) + 1] = m + 1

(* What is left when the beginning has been read.                          *)
LEMMA MarksRead ==
  ASSUME NEW sent \in Seq(Known), NEW n, NEW rest \in Seq(Piece), NEW of, NEW at,
         NEW buf \in Seq(Piece), NEW after \in Seq(Piece), NEW m,
         Marks(sent, n, rest, of, at), Follows(rest, buf, after), LinesRead(sent, of, buf, after, m)
  PROVE  \E of2, at2 :
           /\ Marks(sent, m, after, of2, at2)
           /\ Len(after) > 0 => at2[1] = at[Len(buf) + 1]
<1> DEFINE B   == Len(buf)
           A   == Len(after)
           of2 == [i \in 1..A |-> of[B + i]]
           at2 == [i \in 1..A |-> at[B + i]]
<1>1. A \in Nat /\ B \in Nat /\ Len(rest) = B + A /\ \A i \in 1..A : rest[B + i] = after[i]
  BY DEF Follows
<1>2. \A i \in 1..A : of2[i] = of[B + i] /\ at2[i] = at[B + i]
  OBVIOUS
<1> HIDE DEF A, B, of2, at2
<1>0. IF A = 0 THEN m = Len(sent) ELSE of[B + 1] = m + 1
  BY DEF LinesRead, A, B
<1>3. ASSUME NEW i \in 1..A
      PROVE  /\ of2[i] \in 1..Len(sent) /\ at2[i] \in 1..Len(PiecesOf[sent[of2[i]]])
             /\ after[i] = PiecesOf[sent[of2[i]]][at2[i]]
  <2>1. B + i \in 1..Len(rest) /\ after[i] = rest[B + i]
    BY <1>1
  <2>2. /\ of[B + i] \in 1..Len(sent) /\ at[B + i] \in 1..Len(PiecesOf[sent[of[B + i]]])
        /\ rest[B + i] = PiecesOf[sent[of[B + i]]][at[B + i]]
    BY ONLY Marks(sent, n, rest, of, at), <2>1 DEF Marks
  <2>3. of2[i] = of[B + i] /\ at2[i] = at[B + i]
    BY <1>2
  <2> QED BY <2>1, <2>2, <2>3, Zenon
<1>4. ASSUME NEW i \in 1..(A - 1)
      PROVE  IF after[i] = "\n" THEN of2[i + 1] = of2[i] + 1 /\ at2[i + 1] = 1
                                ELSE of2[i + 1] = of2[i] /\ at2[i + 1] = at2[i] + 1
  <2>1. B + i \in 1..(Len(rest) - 1) /\ i \in 1..A /\ i + 1 \in 1..A /\ B + (i + 1) = (B + i) + 1
    BY <1>1
  <2>2. /\ after[i] = rest[B + i] /\ of2[i] = of[B + i] /\ at2[i] = at[B + i]
        /\ of2[i + 1] = of[(B + i) + 1] /\ at2[i + 1] = at[(B + i) + 1]
    BY <1>1, <1>2, <2>1
  <2> QED BY <2>1, <2>2 DEF Marks
<1>5. A # 0 => /\ of2[1] = m + 1 /\ at2[1] = at[B + 1]
               /\ of2[A] = Len(sent) /\ after[A] = "\n"
  <2> SUFFICES ASSUME A # 0
               PROVE  /\ of2[1] = m + 1 /\ at2[1] = at[B + 1]
                      /\ of2[A] = Len(sent) /\ after[A] = "\n"
    OBVIOUS
  <2>1. 1 \in 1..A /\ A \in 1..A /\ A > 0 /\ B + A # 0
    BY <1>1
  <2>2. of[Len(rest)] = Len(sent) /\ rest[Len(rest)] = "\n"
    BY <1>1, <2>1 DEF Marks
  <2> QED BY <1>0, <1>1, <1>2, <2>1, <2>2 DEF A, B
<1>6. Marks(sent, m, after, of2, at2)
  BY <1>0, <1>1, <1>3, <1>4, <1>5 DEF Marks, A
<1> QED BY <1>5, <1>6 DEF A, B

-----------------------------------------------------------------------------
(* What the parser does.                                                   *)

Line == Seq(Piece)

ParseState ==
  [start_index : Nat, run_flag : {0, 1}, start_flag : {0, 1},
   temp_unit : {"FAHRENHEIT", "CELSIUS"}, period : {1, 2, Misread}, log : Seq(Line)]

(* The first n steps of the loop of process_commands().                    *)
ParseStep(buf, p, i, beyond) == IF buf[i] = "\n" THEN Obey(buf, p, i, beyond) ELSE p
IsParse(f, n, buf, beyond, first) ==
  f = [i \in 0..n |-> IF i = 0 THEN first ELSE ParseStep(buf, f[i - 1], i, beyond)]

(* The recursion of the parser has a solution.                             *)
LEMMA ParseExists ==
  ASSUME NEW buf, NEW beyond, NEW first
  PROVE  \A n \in Nat : \E f : IsParse(f, n, buf, beyond, first)
<1> DEFINE T == {n \in Nat : \E f : IsParse(f, n, buf, beyond, first)}
           next(p, i) == ParseStep(buf, p, i, beyond)
<1>1. 0 \in T
  <2> DEFINE h == [i \in 0..0 |-> first]
  <2>1. h = [i \in 0..0 |-> IF i = 0 THEN first ELSE next(h[i - 1], i)]
    <3> HIDE DEF next
    <3> QED OBVIOUS
  <2> HIDE DEF h
  <2>2. IsParse(h, 0, buf, beyond, first)
    BY <2>1 DEF IsParse
  <2> QED BY <2>2
<1>2. ASSUME NEW m \in Nat, m \in T PROVE m + 1 \in T
  <2>1. PICK f : IsParse(f, m, buf, beyond, first)
    BY <1>2
  <2> DEFINE h == [i \in 0..(m + 1) |-> IF i = m + 1 THEN next(f[m], m + 1) ELSE f[i]]
  <2>2. \A i \in 0..m : f[i] = IF i = 0 THEN first ELSE next(f[i - 1], i)
    BY <2>1 DEF IsParse
  <2> HIDE DEF next
  <2>3. \A i \in 0..(m + 1) : h[i] = IF i = 0 THEN first ELSE next(h[i - 1], i)
    <3> SUFFICES ASSUME NEW i \in 0..(m + 1)
                 PROVE  h[i] = IF i = 0 THEN first ELSE next(h[i - 1], i)
      OBVIOUS
    <3>1. CASE i = m + 1
      <4>1. h[i - 1] = f[m] /\ h[i] = next(f[m], m + 1) /\ i # 0
        BY <3>1
      <4> QED BY <3>1, <4>1
    <3>2. CASE i # m + 1
      <4>1. i \in 0..m /\ h[i] = f[i] /\ (i # 0 => h[i - 1] = f[i - 1])
        BY <3>2
      <4> QED BY <2>2, <4>1
    <3> QED BY <3>1, <3>2
  <2>4. h = [i \in 0..(m + 1) |-> IF i = 0 THEN first ELSE next(h[i - 1], i)]
    <3>1. h = [i \in 0..(m + 1) |-> h[i]]
      OBVIOUS
    <3> HIDE DEF h
    <3> QED BY <2>3, <3>1
  <2> HIDE DEF h
  <2>5. IsParse(h, m + 1, buf, beyond, first)
    BY <2>4 DEF IsParse, next
  <2> QED BY <2>5
<1> HIDE DEF T
<1>3. \A n \in Nat : n \in T
  BY <1>1, <1>2, Induction
<1> QED BY <1>3 DEF T

(* Parse is what it ends with.                                             *)
LEMMA ParseIs ==
  ASSUME NEW T, NEW buf \in Seq(T), NEW beyond
  PROVE  \E f : /\ IsParse(f, Len(buf), buf, beyond, Parsed)
                /\ Parse(buf, beyond) = f[Len(buf)]
<1> DEFINE f == CHOOSE g : IsParse(g, Len(buf), buf, beyond, Parsed)
<1>1. Len(buf) \in Nat
  OBVIOUS
<1>2. IsParse(f, Len(buf), buf, beyond, Parsed)
  BY <1>1, ParseExists
<1>3. Parse(buf, beyond) = f[Len(buf)]
  BY DEF Parse, IsParse, ParseStep
<1> QED BY <1>2, <1>3

(* line ends at i in the buffer, and q is what it makes of p.              *)
Obeyed(buf, i, p, q, line) ==
  /\ q \in ParseState
  /\ Len(line) = i - p.start_index
  /\ \A j \in 1..Len(line) : line[j] = buf[p.start_index + j - 1]
  /\ q.log = Append(p.log, line)
  /\ q.start_index = i + 1
  /\ q.start_flag = IF line = <<"ST", "ART">> THEN 1
                    ELSE IF line = <<"ST", "OP">> THEN 0 ELSE p.start_flag
  /\ q.temp_unit = IF line = <<"SCALE=", "C">> THEN "CELSIUS" ELSE p.temp_unit
  /\ q.run_flag = IF line = <<"O", "FF">> THEN 0 ELSE p.run_flag

(* What a line of the buffer does.                                         *)
LEMMA ObeyDoes ==
  ASSUME NEW buf \in Seq(Piece), NEW i \in 1..Len(buf), NEW p \in ParseState,
         p.start_index \in 1..i, NEW beyond \in {0, Misread},
         NEW q, q = Obey(buf, p, i, beyond)
  PROVE  \E line \in Line : Obeyed(buf, i, p, q, line)
<1>1. PICK s, l : s = p.start_index /\ l = p.log
  BY DEF ParseState
<1>2. s \in 1..i /\ i \in Nat /\ l \in Seq(Line)
  BY <1>1 DEF ParseState
<1>3. PICK line : line = SubSeq(buf, s, i - 1)
  OBVIOUS
<1>4. /\ line \in Line /\ Len(line) = i - s
      /\ \A j \in 1..Len(line) : line[j] = buf[s + j - 1]
  <2>1. \A j \in s..(i - 1) : j \in 1..Len(buf)
    BY <1>2
  <2>2. \A j \in s..(i - 1) : buf[j] \in Piece
    BY <2>1
  <2>3. i - 1 \in (s - 1)..Len(buf)
    BY <1>2
  <2> QED BY <1>2, <1>3, <2>2, <2>3, SubSeqProperties DEF Line
<1>5. PICK new : new = Append(l, line)
  OBVIOUS
<1>6. new \in Seq(Line)
  BY <1>2, <1>4, <1>5, AppendProperties
<1>7. PICK val : val = PeriodRead(buf, s, i, beyond)
  OBVIOUS
<1>8. val \in {0, 2, Misread}
  BY <1>7 DEF PeriodRead
<1>9. PICK start : start = Set(StartAfter(line), p.start_flag)
  OBVIOUS
<1>10. start = IF line = <<"ST", "ART">> THEN 1
               ELSE IF line = <<"ST", "OP">> THEN 0 ELSE p.start_flag
  <2>1. CASE StartAfter(line) = {}
    <3>1. line # <<"ST", "ART">> /\ line # <<"ST", "OP">>
      BY <2>1, Zenon DEF StartAfter
    <3> QED BY <1>9, <2>1, <3>1, Zenon DEF Set
  <2>2. CASE line = <<"ST", "ART">>
    <3>1. StartAfter(line) = {1}
      BY <2>2, Zenon DEF StartAfter
    <3>2. Set({1}, p.start_flag) = 1
      BY DEF Set
    <3> QED BY <1>9, <2>2, <3>1, <3>2, Zenon
  <2>3. CASE line # <<"ST", "ART">> /\ line = <<"ST", "OP">>
    <3>1. StartAfter(line) = {0}
      BY <2>3, Zenon DEF StartAfter
    <3>2. Set({0}, p.start_flag) = 0
      BY DEF Set
    <3> QED BY <1>9, <2>3, <3>1, <3>2, Zenon
  <2>4. StartAfter(line) = {} \/ line = <<"ST", "ART">> \/ line = <<"ST", "OP">>
    BY Zenon DEF StartAfter
  <2> QED BY <2>1, <2>2, <2>3, <2>4, Zenon
<1>11. PICK per : per = Set(PeriodAfter(line, val), p.period)
  OBVIOUS
<1>12. per \in {1, 2, Misread}
  <2>1. p.period \in {1, 2, Misread}
    BY DEF ParseState
  <2>2. CASE PeriodAfter(line, val) = {}
    BY <1>11, <2>1, <2>2 DEF Set
  <2>3. CASE PeriodAfter(line, val) # {}
    <3>1. PeriodAfter(line, val) = {val} /\ val # 0
      BY <2>3 DEF PeriodAfter
    <3> QED BY <1>8, <1>11, <3>1 DEF Set
  <2> QED BY <2>2, <2>3
<1>0. PICK unit, run : /\ unit = IF line = <<"SCALE=", "C">> THEN "CELSIUS" ELSE p.temp_unit
                       /\ run = IF line = <<"O", "FF">> THEN 0 ELSE p.run_flag
  OBVIOUS
<1>13. q = [p EXCEPT !.log = new, !.start_flag = start, !.temp_unit = unit,
                     !.period = per, !.run_flag = run, !.start_index = i + 1]
  BY <1>0, <1>1, <1>3, <1>5, <1>7, <1>9, <1>11 DEF Obey
<1>14. /\ q.log = new /\ q.start_flag = start /\ q.period = per /\ q.start_index = i + 1
       /\ q.temp_unit = unit /\ q.run_flag = run
  BY <1>13 DEF ParseState
<1>15. start \in {0, 1} /\ unit \in {"FAHRENHEIT", "CELSIUS"} /\ run \in {0, 1}
  <2>1. /\ p.start_flag \in {0, 1} /\ p.temp_unit \in {"FAHRENHEIT", "CELSIUS"}
        /\ p.run_flag \in {0, 1}
    BY DEF ParseState
  <2>2. start = 0 \/ start = 1 \/ start = p.start_flag
    BY <1>10, Zenon
  <2>3. unit = "CELSIUS" \/ unit = p.temp_unit
    BY <1>0, Zenon
  <2>4. run = 0 \/ run = p.run_flag
    BY <1>0, Zenon
  <2> QED BY <2>1, <2>2, <2>3, <2>4
<1>16. q \in ParseState
  <2>1. i + 1 \in Nat
    BY <1>2
  <2> QED BY <1>6, <1>12, <1>13, <1>15, <2>1 DEF ParseState
<1>17. Obeyed(buf, i, p, q, line)
  <2>1. Len(line) = i - p.start_index /\ \A j \in 1..Len(line) : line[j] = buf[p.start_index + j - 1]
    BY <1>1, <1>4
  <2>2. q.log = Append(p.log, line)
    BY <1>1, <1>5, <1>14
  <2> QED BY ONLY <1>0, <1>10, <1>14, <1>16, <2>1, <2>2, Zenon DEF Obeyed
<1> QED BY <1>4, <1>17

LEMMA Appended ==
  ASSUME NEW T, NEW u \in Seq(T), NEW e \in T, NEW v, v = Append(u, e)
  PROVE  /\ v \in Seq(T) /\ Len(v) = Len(u) + 1 /\ v[Len(u) + 1] = e
         /\ \A j \in 1..Len(u) : v[j] = u[j]
BY AppendProperties

LEMMA Suffix ==
  ASSUME NEW T, NEW s \in Seq(T), NEW t \in Seq(T), Len(s) <= Len(t),
         \A j \in 1..Len(s) : s[j] = t[j + (Len(t) - Len(s))]
  PROVE  IsSuffix(s, t)
<1> DEFINE a == Reverse(s)
           b == Reverse(t)
           n == Len(s)
           m == Len(t)
<1>1. n \in Nat /\ m \in Nat /\ n <= m
  OBVIOUS
<1>2. /\ a \in Seq(T) /\ Len(a) = n /\ \A j \in 1..n : a[j] = s[(n - j) + 1]
      /\ b \in Seq(T) /\ Len(b) = m /\ \A j \in 1..m : b[j] = t[(m - j) + 1]
  BY DEF Reverse
<1>3. \A j \in 1..n : s[j] = t[j + (m - n)]
  OBVIOUS
<1> HIDE DEF a, b, n, m
<1>4. ASSUME NEW j \in 1..n PROVE a[j] = b[j]
  <2>1. (n - j) + 1 \in 1..n /\ ((n - j) + 1) + (m - n) = (m - j) + 1 /\ j \in 1..m
    BY <1>1
  <2>2. s[(n - j) + 1] = t[(m - j) + 1]
    BY <1>3, <2>1
  <2> QED BY <1>2, <2>1, <2>2
<1>5. SubSeq(a, 1, n) = [j \in 1..n |-> a[j]]
  BY <1>1, <1>2
<1>6. SubSeq(b, 1, n) = [j \in 1..n |-> b[j]]
  BY <1>1, <1>2
<1>7. SubSeq(a, 1, n) = SubSeq(b, 1, n)
  BY <1>4, <1>5, <1>6
<1>8. IsPrefix(a, b)
  BY <1>1, <1>2, <1>7 DEF IsPrefix
<1> QED BY <1>8 DEF IsSuffix, a, b

-----------------------------------------------------------------------------
(* What the flags are after the first m lines.                             *)

LastOf(sent, m, lines, line) ==
  \E k \in 1..m : sent[k] = line /\ \A j \in 1..m : j > k => sent[j] \notin lines

LEMMA LastOfMore ==
  ASSUME NEW sent, NEW m \in Nat, NEW lines, NEW line
  PROVE  LastOf(sent, m + 1, lines, line)
           <=> sent[m + 1] = line \/ (sent[m + 1] \notin lines /\ LastOf(sent, m, lines, line))
<1>1. ASSUME LastOf(sent, m + 1, lines, line), sent[m + 1] # line
      PROVE  sent[m + 1] \notin lines /\ LastOf(sent, m, lines, line)
  <2>1. PICK k \in 1..(m + 1) : /\ sent[k] = line
                                /\ \A j \in 1..(m + 1) : j > k => sent[j] \notin lines
    BY <1>1 DEF LastOf
  <2>2. k # m + 1
    BY <1>1, <2>1
  <2>3. k \in 1..m /\ m + 1 > k /\ m + 1 \in 1..(m + 1) /\ \A j \in 1..m : j \in 1..(m + 1)
    BY <2>2
  <2> QED BY <2>1, <2>3 DEF LastOf
<1>2. ASSUME sent[m + 1] = line PROVE LastOf(sent, m + 1, lines, line)
  <2>1. m + 1 \in 1..(m + 1) /\ \A j \in 1..(m + 1) : ~(j > m + 1)
    OBVIOUS
  <2> QED BY <1>2, <2>1 DEF LastOf
<1>3. ASSUME sent[m + 1] \notin lines, LastOf(sent, m, lines, line)
      PROVE  LastOf(sent, m + 1, lines, line)
  <2>1. PICK k \in 1..m : sent[k] = line /\ \A j \in 1..m : j > k => sent[j] \notin lines
    BY <1>3 DEF LastOf
  <2>2. k \in 1..(m + 1) /\ \A j \in 1..(m + 1) : j \in 1..m \/ j = m + 1
    OBVIOUS
  <2>3. \A j \in 1..(m + 1) : j > k => sent[j] \notin lines
    BY <1>3, <2>1, <2>2
  <2> QED BY <2>1, <2>2, <2>3 DEF LastOf
<1> QED BY <1>1, <1>2, <1>3

(* net: nothing but OFF ends the program.                                  *)
Flags(net, start, unit, run, sent, m) ==
  /\ start = 0 <=> LastOf(sent, m, {"START", "STOP"}, "STOP")
  /\ unit = "CELSIUS" <=> LastOf(sent, m, {}, "SCALE=C")
  /\ LastOf(sent, m, {}, "OFF") => run = 0
  /\ run = 0 /\ net => LastOf(sent, m, {}, "OFF")

(* A line is obeyed.                                                       *)
LEMMA FlagsMore ==
  ASSUME NEW net \in BOOLEAN, NEW sent, NEW m \in Nat,
         NEW start, NEW unit, NEW run, Flags(net, start, unit, run, sent, m),
         NEW start2, NEW unit2, NEW run2,
         start2 = IF sent[m + 1] = "START" THEN 1 ELSE IF sent[m + 1] = "STOP" THEN 0 ELSE start,
         unit2 = IF sent[m + 1] = "SCALE=C" THEN "CELSIUS" ELSE unit,
         run2 = IF sent[m + 1] = "OFF" THEN 0 ELSE run
  PROVE  Flags(net, start2, unit2, run2, sent, m + 1)
<1>1. start2 = 0 <=> LastOf(sent, m + 1, {"START", "STOP"}, "STOP")
  <2>1. LastOf(sent, m + 1, {"START", "STOP"}, "STOP")
          <=> sent[m + 1] = "STOP" \/ (sent[m + 1] \notin {"START", "STOP"}
                                       /\ LastOf(sent, m, {"START", "STOP"}, "STOP"))
    BY LastOfMore
  <2>2. start = 0 <=> LastOf(sent, m, {"START", "STOP"}, "STOP")
    BY DEF Flags
  <2> QED BY <2>1, <2>2
<1>2. unit2 = "CELSIUS" <=> LastOf(sent, m + 1, {}, "SCALE=C")
  <2>1. LastOf(sent, m + 1, {}, "SCALE=C")
          <=> sent[m + 1] = "SCALE=C" \/ LastOf(sent, m, {}, "SCALE=C")
    BY LastOfMore
  <2> QED BY <2>1 DEF Flags
<1>3. LastOf(sent, m + 1, {}, "OFF") <=> sent[m + 1] = "OFF" \/ LastOf(sent, m, {}, "OFF")
  BY LastOfMore
<1>4. /\ LastOf(sent, m + 1, {}, "OFF") => run2 = 0
      /\ run2 = 0 /\ net => LastOf(sent, m + 1, {}, "OFF")
  BY <1>3 DEF Flags
<1> QED BY <1>1, <1>2, <1>4 DEF Flags

-----------------------------------------------------------------------------
(* The parser reads the lines as they were sent.                           *)

(* What is logged for a line is an end of it.                              *)
LogFine(lines, sent) ==
  \A k \in 1..Len(lines) :
    k <= Len(sent) /\ IsSuffix(Append(lines[k], "\n"), PiecesOf[sent[k]])

(* After i pieces of rest the parser is in state p; whole: the lines are   *)
(* read from the beginning, and were before.                               *)
ParseInv(sent, rest, of, at, net, whole, first, i, p) ==
  /\ p \in ParseState /\ p.start_index \in 1..(i + 1)
  /\ LogFine(p.log, sent)
  /\ i < Len(rest) => of[i + 1] = Len(p.log) + 1
  /\ i = Len(rest) => Len(p.log) = Len(sent)
  /\ \A j \in p.start_index..(i + 1) : j <= Len(rest) =>
       of[j] = Len(p.log) + 1 /\ at[j] = at[p.start_index] + (j - p.start_index)
  /\ p.start_index > 1 /\ p.start_index <= Len(rest) => at[p.start_index] = 1
  /\ p.run_flag = 1 => first.run_flag = 1
  /\ whole => at[1] = 1 /\ Flags(net, p.start_flag, p.temp_unit, p.run_flag, sent, Len(p.log))

(* A piece inside a line is passed over.                                   *)
LEMMA PassInv ==
  ASSUME NEW sent \in Seq(Known), NEW n, NEW rest \in Seq(Piece), NEW of, NEW at,
         Marks(sent, n, rest, of, at), NEW net \in BOOLEAN, NEW whole \in BOOLEAN, NEW first,
         NEW i \in Nat, i + 1 <= Len(rest), rest[i + 1] # "\n",
         NEW p, ParseInv(sent, rest, of, at, net, whole, first, i, p)
  PROVE  ParseInv(sent, rest, of, at, net, whole, first, i + 1, p)
<1>1. PICK s \in Nat, l \in Seq(Line), R \in Nat, m \in Nat :
        s = p.start_index /\ l = p.log /\ R = Len(rest) /\ m = Len(l)
  BY DEF ParseInv, ParseState
<1>2. s \in 1..(i + 1) /\ i + 1 \in 1..R
  BY <1>1 DEF ParseInv
<1>3. \A j \in s..(i + 1) : j <= R => of[j] = m + 1 /\ at[j] = at[s] + (j - s)
  BY <1>1 DEF ParseInv
<1>4. at[s] \in Nat
  BY <1>1, <1>2 DEF Marks
<1>5. i + 1 # R
  BY <1>1, <1>2 DEF Marks
<1>6. of[(i + 1) + 1] = of[i + 1] /\ at[(i + 1) + 1] = at[i + 1] + 1
  <2>1. i + 1 \in 1..(Len(rest) - 1)
    BY <1>1, <1>2, <1>5
  <2> QED BY <2>1 DEF Marks
<1>7. of[i + 1] = m + 1 /\ at[i + 1] = at[s] + ((i + 1) - s)
  BY <1>2, <1>3
<1>8. ASSUME NEW j \in s..((i + 1) + 1), j <= R
      PROVE  of[j] = m + 1 /\ at[j] = at[s] + (j - s)
  <2>1. CASE j = (i + 1) + 1
    <3>1. (at[s] + ((i + 1) - s)) + 1 = at[s] + (j - s)
      BY <1>2, <1>4, <2>1
    <3> QED BY <1>6, <1>7, <2>1, <3>1
  <2>2. CASE j # (i + 1) + 1
    <3>1. j \in s..(i + 1)
      BY <1>2, <2>2
    <3> QED BY <1>3, <1>8, <3>1
  <2> QED BY <2>1, <2>2
<1>9. s \in 1..((i + 1) + 1)
  BY <1>2
<1>10. i + 1 < R => of[(i + 1) + 1] = m + 1
  BY <1>6, <1>7
<1>11. p \in ParseState /\ LogFine(p.log, sent)
       /\ (p.start_index > 1 /\ p.start_index <= Len(rest) => at[p.start_index] = 1)
       /\ (p.run_flag = 1 => first.run_flag = 1)
       /\ (whole => at[1] = 1 /\ Flags(net, p.start_flag, p.temp_unit, p.run_flag, sent, Len(p.log)))
  BY DEF ParseInv
<1>12. \A j \in p.start_index..((i + 1) + 1) : j <= Len(rest) =>
         of[j] = Len(p.log) + 1 /\ at[j] = at[p.start_index] + (j - p.start_index)
  BY <1>1, <1>8
<1> QED BY <1>1, <1>5, <1>9, <1>10, <1>11, <1>12 DEF ParseInv

(* A newline ends the line that the buffer, or the line, began with.       *)
LEMMA ObeyInv ==
  ASSUME NEW sent \in Seq(Known), NEW n, NEW rest \in Seq(Piece), NEW of, NEW at,
         Marks(sent, n, rest, of, at), NEW net \in BOOLEAN, NEW whole \in BOOLEAN, NEW first,
         NEW buf \in Seq(Piece), Len(buf) <= Len(rest), \A j \in 1..Len(buf) : buf[j] = rest[j],
         NEW i \in Nat, i + 1 <= Len(buf), buf[i + 1] = "\n",
         NEW beyond \in {0, Misread},
         NEW p, ParseInv(sent, rest, of, at, net, whole, first, i, p)
  PROVE  ParseInv(sent, rest, of, at, net, whole, first, i + 1, Obey(buf, p, i + 1, beyond))
<1>1. PICK s \in Nat, l \in Seq(Line), R \in Nat, m \in Nat, B \in Nat :
        s = p.start_index /\ l = p.log /\ R = Len(rest) /\ m = Len(l) /\ B = Len(buf)
  BY DEF ParseInv, ParseState
<1>2. s \in 1..(i + 1) /\ i + 1 \in 1..B /\ B <= R /\ i + 1 \in 1..R
  BY <1>1 DEF ParseInv
<1>3. \A j \in s..(i + 1) : of[j] = m + 1 /\ at[j] = at[s] + (j - s)
  BY <1>1, <1>2, SMTT(30) DEF ParseInv
<1>4. PICK q : q = Obey(buf, p, i + 1, beyond)
  OBVIOUS
<1>5. PICK line \in Line : Obeyed(buf, i + 1, p, q, line)
  <2>1. p \in ParseState /\ p.start_index \in 1..(i + 1) /\ i + 1 \in 1..Len(buf)
    BY <1>1, <1>2 DEF ParseInv
  <2> QED BY <1>4, <2>1, ObeyDoes
<1>0. /\ q \in ParseState
      /\ Len(line) = (i + 1) - s
      /\ \A j \in 1..Len(line) : line[j] = buf[s + j - 1]
      /\ q.log = Append(l, line)
      /\ q.start_index = (i + 1) + 1
  BY <1>1, <1>5 DEF Obeyed
<1>6. line \in Seq(Piece)
  BY <1>5 DEF Line
(* Where the line is.                                                      *)
<1>7. PICK name, pieces :
        /\ name = sent[m + 1] /\ pieces = PiecesOf[name]
        /\ m + 1 \in 1..Len(sent) /\ name \in Known
  <2>1. of[i + 1] = m + 1 /\ of[i + 1] \in 1..Len(sent)
    BY <1>1, <1>2, <1>3 DEF Marks
  <2>2. sent[m + 1] \in Known
    BY <2>1
  <2> QED BY <2>1, <2>2
<1>28. PICK N \in Nat : N = Len(pieces) /\ (N = 3 \/ N = 4)
  <2>1. Len(pieces) \in {3, 4}
    BY <1>7, LineShape
  <2> QED BY <2>1
<1>29. pieces \in Seq(Piece) /\ \A j \in 1..N : pieces[j] = "\n" <=> j = N
  BY <1>7, <1>28, LineShape
<1>8. \A j \in s..(i + 1) : at[j] \in 1..N /\ rest[j] = pieces[at[j]]
  <2>1. ASSUME NEW j \in s..(i + 1) PROVE at[j] \in 1..N /\ rest[j] = pieces[at[j]]
    <3>1. j \in 1..Len(rest) /\ of[j] = m + 1
      BY <1>1, <1>2, <1>3
    <3> QED BY <1>7, <1>28, <3>1 DEF Marks
  <2> QED BY <2>1
<1>9. PICK a \in Nat : a = at[s] /\ a >= 1
  BY <1>2, <1>8
<1>10. \A j \in s..(i + 1) : at[j] = a + (j - s) /\ a + (j - s) \in 1..N
  BY <1>3, <1>8, <1>9
<1>11. a + ((i + 1) - s) = N
  <2>1. rest[i + 1] = "\n"
    BY <1>1, <1>2
  <2>2. i + 1 \in s..(i + 1)
    BY <1>2
  <2> QED BY <1>8, <1>10, <1>29, <2>1, <2>2
<1>12. PICK L \in Nat : L = Len(line) /\ L = (i + 1) - s /\ a + L = N
  BY <1>0, <1>2, <1>11
<1>13. \A j \in 1..L : line[j] = pieces[(a + j) - 1]
  <2>1. ASSUME NEW j \in 1..L PROVE line[j] = pieces[(a + j) - 1]
    <3>1. s + j - 1 \in s..(i + 1) /\ s + j - 1 \in 1..B /\ a + ((s + j - 1) - s) = (a + j) - 1
      BY <1>2, <1>12
    <3>2. line[j] = rest[s + j - 1]
      BY <1>0, <1>1, <1>12, <3>1
    <3> QED BY <1>8, <1>10, <3>1, <3>2
  <2> QED BY <2>1
(* It is logged.                                                           *)
<1>14. IsSuffix(Append(line, "\n"), pieces)
  <2>1. PICK z : z = Append(line, "\n")
    OBVIOUS
  <2>2. "\n" \in Piece
    BY DEF Piece
  <2>3. /\ z \in Seq(Piece) /\ Len(z) = L + 1 /\ z[L + 1] = "\n"
        /\ \A j \in 1..L : z[j] = line[j]
    <3>2. /\ z \in Seq(Piece) /\ Len(z) = Len(line) + 1 /\ z[Len(line) + 1] = "\n"
          /\ \A j \in 1..Len(line) : z[j] = line[j]
      BY ONLY <1>6, <2>1, <2>2, Appended
    <3> QED BY ONLY <1>12, <3>2, Zenon
  <2>4. Len(z) <= Len(pieces) /\ Len(pieces) - Len(z) = a - 1
    <3>1. Len(z) = L + 1 /\ Len(pieces) = a + L
      BY <1>12, <1>28, <2>3
    <3> QED BY ONLY a \in Nat, L \in Nat, <1>9, <3>1, SMTT(30)
  <2>5. ASSUME NEW j \in 1..Len(z) PROVE z[j] = pieces[j + (Len(pieces) - Len(z))]
    <3>0. Len(z) \in Nat
      BY <2>3
    <3>1. j \in Nat /\ j + (Len(pieces) - Len(z)) = (a + j) - 1
      <4>1. j \in Nat /\ j + (a - 1) = (a + j) - 1
        BY <3>0
      <4> QED BY ONLY <2>4, <4>1, Zenon
    <3>2. CASE j = L + 1
      <4>1. (a + j) - 1 = N /\ N \in 1..N
        BY ONLY a \in Nat, L \in Nat, <1>9, <1>12, <3>2
      <4> QED BY <1>29, <2>3, <3>1, <3>2, <4>1
    <3>3. CASE j # L + 1
      <4>1. j \in 1..L
        BY <1>12, <2>3, <3>3
      <4> QED BY <1>13, <2>3, <3>1, <4>1
    <3> QED BY <3>2, <3>3
  <2> QED BY <1>29, <2>1, <2>3, <2>4, <2>5, Suffix
<1>15. PICK l2 : l2 = Append(l, line)
  OBVIOUS
<1>16. /\ Len(l2) = m + 1 /\ l2[m + 1] = line /\ \A k \in 1..m : l2[k] = l[k]
  BY <1>1, <1>15, AppendProperties
<1>17. LogFine(l2, sent)
  <2>1. ASSUME NEW k \in 1..(m + 1)
        PROVE  k <= Len(sent) /\ IsSuffix(Append(l2[k], "\n"), PiecesOf[sent[k]])
    <3>1. CASE k = m + 1
      BY <1>7, <1>14, <1>16, <3>1
    <3>2. CASE k # m + 1
      <4>1. k \in 1..m
        BY <1>1, <3>2
      <4>2. LogFine(l, sent)
        BY <1>1 DEF ParseInv
      <4> QED BY <1>1, <1>16, <4>1, <4>2 DEF LogFine
    <3> QED BY <3>1, <3>2
  <2> QED BY <1>16, <2>1 DEF LogFine
(* The next piece begins a line.                                           *)
<1>18. rest[i + 1] = "\n" /\ of[i + 1] = m + 1
  BY <1>1, <1>2, <1>3
<1>19. i + 1 < R => /\ of[(i + 1) + 1] = (m + 1) + 1 /\ at[(i + 1) + 1] = 1
  <2> SUFFICES ASSUME i + 1 < R
               PROVE  of[(i + 1) + 1] = (m + 1) + 1 /\ at[(i + 1) + 1] = 1
    OBVIOUS
  <2>1. i + 1 \in 1..(Len(rest) - 1)
    BY <1>1, <1>2
  <2> QED BY <1>18, <2>1 DEF Marks
<1>20. i + 1 = R => m + 1 = Len(sent)
  BY <1>1, <1>18 DEF Marks
(* It is obeyed.                                                           *)
<1>21. whole => at[1] = 1 /\ Flags(net, q.start_flag, q.temp_unit, q.run_flag, sent, m + 1)
  <2> SUFFICES ASSUME whole
               PROVE  at[1] = 1 /\ Flags(net, q.start_flag, q.temp_unit, q.run_flag, sent, m + 1)
    OBVIOUS
  <2>0. at[1] = 1
    BY DEF ParseInv
  <2>1. a = 1
    <3>1. s > 1 /\ s <= R => at[s] = 1
      BY <1>1 DEF ParseInv
    <3>2. s = 1 \/ s > 1
      BY <1>2
    <3>3. s <= R
      BY <1>2
    <3>4. at[s] = 1
      BY ONLY <2>0, <3>1, <3>2, <3>3, Zenon
    <3> QED BY <1>9, <3>4
  <2>2. Len(line) = Len(PiecesOf[name]) - 1
    <3>1. Len(line) = L /\ Len(pieces) = 1 + L
      BY <1>12, <1>28, <2>1
    <3>2. L = (1 + L) - 1
      OBVIOUS
    <3> QED BY ONLY <1>7, <3>1, <3>2, Zenon
  <2>3. \A j \in 1..Len(line) : line[j] = PiecesOf[name][j]
    <3>1. ASSUME NEW j \in 1..L PROVE line[j] = pieces[j]
      <4>1. (1 + j) - 1 = j
        OBVIOUS
      <4> QED BY <1>13, <2>1, <4>1
    <3> QED BY ONLY <1>7, <1>12, <3>1
  <2>4. /\ line = <<"ST", "ART">> <=> name = "START"
        /\ line = <<"ST", "OP">> <=> name = "STOP"
        /\ line = <<"SCALE=", "C">> <=> name = "SCALE=C"
        /\ line = <<"O", "FF">> <=> name = "OFF"
    BY ONLY <1>6, <1>7, <2>2, <2>3, LineRead, ZenonT(60)
  <2>5. /\ q.start_flag = IF name = "START" THEN 1
                          ELSE IF name = "STOP" THEN 0 ELSE p.start_flag
        /\ q.temp_unit = IF name = "SCALE=C" THEN "CELSIUS" ELSE p.temp_unit
        /\ q.run_flag = IF name = "OFF" THEN 0 ELSE p.run_flag
    BY ONLY <1>5, <2>4, Zenon DEF Obeyed
  <2>6. Flags(net, p.start_flag, p.temp_unit, p.run_flag, sent, m)
    BY <1>1 DEF ParseInv
  <2> QED BY <1>7, <2>0, <2>5, <2>6, FlagsMore
<1>22. q.run_flag = 1 => first.run_flag = 1
  <2>1. q.run_flag = 0 \/ q.run_flag = p.run_flag
    BY ONLY <1>5, Zenon DEF Obeyed
  <2> QED BY <2>1 DEF ParseInv
<1>23. q.log = l2 /\ Len(q.log) = m + 1 /\ q.start_index = (i + 1) + 1 /\ q \in ParseState
  BY <1>0, <1>15, <1>16
<1>24. \A j \in q.start_index..((i + 1) + 1) : j <= Len(rest) =>
         of[j] = Len(q.log) + 1 /\ at[j] = at[q.start_index] + (j - q.start_index)
  <2> SUFFICES ASSUME NEW j \in ((i + 1) + 1)..((i + 1) + 1), j <= R
               PROVE  of[j] = (m + 1) + 1 /\ at[j] = at[j] + (j - j)
    <3>1. \A j \in ((i + 1) + 1)..((i + 1) + 1) : j = (i + 1) + 1
      OBVIOUS
    <3> QED BY <1>1, <1>23, <3>1
  <2>1. j = (i + 1) + 1 /\ i + 1 < R /\ j - j = 0
    BY <1>1
  <2>2. at[j] = 1
    BY <1>19, <2>1
  <2> QED BY <1>19, <2>1, <2>2
<1>25. q.start_index \in 1..((i + 1) + 1)
  BY <1>23
<1>26. q.start_index > 1 /\ q.start_index <= Len(rest) => at[q.start_index] = 1
  BY <1>1, <1>19, <1>23
<1>27. ParseInv(sent, rest, of, at, net, whole, first, i + 1, q)
  BY <1>1, <1>17, <1>19, <1>20, <1>21, <1>22, <1>23, <1>24, <1>25, <1>26 DEF ParseInv
<1> QED BY <1>4, <1>27

(* The whole buffer.                                                       *)
LEMMA ParseReads ==
  ASSUME NEW sent \in Seq(Known), NEW n, NEW rest \in Seq(Piece), NEW of, NEW at,
         Marks(sent, n, rest, of, at), NEW net \in BOOLEAN, NEW whole \in BOOLEAN,
         NEW first \in ParseState, first.start_index = 1, Len(first.log) = n,
         LogFine(first.log, sent),
         whole => /\ at[1] = 1
                  /\ Flags(net, first.start_flag, first.temp_unit, first.run_flag, sent, n),
         NEW buf \in Seq(Piece), Len(buf) <= Len(rest), \A j \in 1..Len(buf) : buf[j] = rest[j],
         Len(buf) > 0, NEW beyond \in {0, Misread},
         NEW f, IsParse(f, Len(buf), buf, beyond, first)
  PROVE  ParseInv(sent, rest, of, at, net, whole, first, Len(buf), f[Len(buf)])
<1> DEFINE T == {i \in Nat : i <= Len(buf) => ParseInv(sent, rest, of, at, net, whole, first, i, f[i])}
<1>1. 0 \in T
  <2>1. f[0] = first
    BY DEF IsParse
  <2>2. Len(rest) # 0 /\ Len(rest) \in Nat
    OBVIOUS
  <2>3. of[1] = n + 1 /\ at[1] \in Nat
    BY <2>2 DEF Marks
  <2>4. first.start_index \in 1..(0 + 1) /\ 0 # Len(rest)
    BY <2>2
  <2>5. \A j \in first.start_index..(0 + 1) : j <= Len(rest) =>
          of[j] = Len(first.log) + 1 /\ at[j] = at[first.start_index] + (j - first.start_index)
    <3>1. \A j \in first.start_index..(0 + 1) : j = 1
      OBVIOUS
    <3>2. of[1] = Len(first.log) + 1 /\ at[1] = at[first.start_index] + (1 - first.start_index)
      BY <2>3
    <3> QED BY <3>1, <3>2
  <2>6. of[0 + 1] = Len(first.log) + 1
    BY <2>3
  <2>7. ParseInv(sent, rest, of, at, net, whole, first, 0, first)
    BY <2>4, <2>5, <2>6 DEF ParseInv
  <2> QED BY <2>1, <2>7
<1>2. ASSUME NEW i \in Nat, i \in T PROVE i + 1 \in T
  <2> SUFFICES ASSUME i + 1 <= Len(buf)
               PROVE  ParseInv(sent, rest, of, at, net, whole, first, i + 1, f[i + 1])
    OBVIOUS
  <2>1. ParseInv(sent, rest, of, at, net, whole, first, i, f[i])
    BY <1>2
  <2>2. f[i + 1] = ParseStep(buf, f[i], i + 1, beyond)
    <3>1. i + 1 \in 0..Len(buf) /\ i + 1 # 0 /\ (i + 1) - 1 = i
      OBVIOUS
    <3> QED BY <3>1 DEF IsParse
  <2>3. CASE buf[i + 1] = "\n"
    <3>1. f[i + 1] = Obey(buf, f[i], i + 1, beyond)
      BY <2>2, <2>3, Zenon DEF ParseStep
    <3>2. ParseInv(sent, rest, of, at, net, whole, first, i + 1, Obey(buf, f[i], i + 1, beyond))
      BY <2>1, <2>3, ObeyInv
    <3> QED BY <3>1, <3>2, Zenon
  <2>4. CASE buf[i + 1] # "\n"
    <3>1. f[i + 1] = f[i]
      BY <2>2, <2>4, Zenon DEF ParseStep
    <3>2. i + 1 <= Len(rest) /\ i + 1 \in 1..Len(buf)
      OBVIOUS
    <3>3. rest[i + 1] # "\n"
      BY <2>4, <3>2, Zenon
    <3>4. ParseInv(sent, rest, of, at, net, whole, first, i + 1, f[i])
      BY <2>1, <3>2, <3>3, PassInv
    <3> QED BY <3>1, <3>4, Zenon
  <2> QED BY <2>3, <2>4
<1> HIDE DEF T
<1>3. \A i \in Nat : i \in T
  BY <1>1, <1>2, Induction
<1>4. Len(buf) \in T /\ Len(buf) <= Len(buf)
  BY <1>3
<1> QED BY <1>4 DEF T

-----------------------------------------------------------------------------
(* What read() returns.                                                    *)

Rest == ssl \o FlattenSeq(chan)

ChanType ==
  /\ chan \in Seq(Line) /\ ssl \in Line
  /\ ssl # <<>> => transport = "tls"

LEMMA Concat ==
  ASSUME NEW T, NEW x \in Seq(T), NEW y \in Seq(T), NEW z, z = x \o y
  PROVE  /\ z \in Seq(T) /\ Len(z) = Len(x) + Len(y)
         /\ \A j \in 1..Len(x) : z[j] = x[j]
         /\ \A k \in 1..Len(y) : z[Len(x) + k] = y[k]
BY ConcatProperties

(* A sequence and its two parts.                                           *)
LEMMA Parts ==
  ASSUME NEW T, NEW q \in Seq(T), NEW n \in 0..Len(q)
  PROVE  /\ SubSeq(q, 1, n) \in Seq(T) /\ SubSeq(q, n + 1, Len(q)) \in Seq(T)
         /\ Len(SubSeq(q, 1, n)) = n
         /\ q = SubSeq(q, 1, n) \o SubSeq(q, n + 1, Len(q))
<1>0. PICK b, c : b = SubSeq(q, 1, n) /\ c = SubSeq(q, n + 1, Len(q))
  OBVIOUS
<1>1. b \in Seq(T) /\ Len(b) = n /\ \A j \in 1..n : b[j] = q[j]
  BY <1>0, SubSeqProperties
<1>2. c \in Seq(T) /\ Len(c) = Len(q) - n /\ \A j \in 1..(Len(q) - n) : c[j] = q[n + j]
  BY <1>0, SubSeqProperties
<1>3. PICK d : d = b \o c
  OBVIOUS
<1>4. /\ d \in Seq(T) /\ Len(d) = Len(b) + Len(c)
      /\ \A j \in 1..Len(b) : d[j] = b[j]
      /\ \A k \in 1..Len(c) : d[Len(b) + k] = c[k]
  BY ONLY <1>1, <1>2, <1>3, Concat
<1>5. Len(d) = Len(q) /\ Len(q) \in Nat /\ n \in Nat /\ n <= Len(q)
  BY <1>1, <1>2, <1>4
<1>6. ASSUME NEW j \in 1..Len(q) PROVE d[j] = q[j]
  <2>1. CASE j <= n
    <3>1. j \in 1..n
      BY <1>5, <2>1
    <3> QED BY <1>1, <1>4, <3>1
  <2>2. CASE ~(j <= n)
    <3>1. PICK k \in 1..(Len(q) - n) : n + k = j
      <4>1. j - n \in 1..(Len(q) - n) /\ n + (j - n) = j
        BY <1>5, <2>2
      <4> QED BY <4>1
    <3>2. d[n + k] = c[k]
      BY <1>1, <1>2, <1>4
    <3>3. c[k] = q[n + k]
      BY <1>2
    <3> QED BY <3>1, <3>2, <3>3
  <2> QED BY <2>1, <2>2
<1>7. q = d
  BY <1>4, <1>5, <1>6, SeqEqual
<1> QED BY <1>0, <1>1, <1>2, <1>3, <1>7

(* A part of what is on its way, from its beginning, which is taken from it.*)
LEMMA ReadsAre ==
  ASSUME ChanType, NEW r \in Reads
  PROVE  /\ r.buf \in Seq(Piece) /\ Len(r.buf) > 0
         /\ r.chan \in Seq(Line) /\ r.ssl \in Line /\ (r.ssl # <<>> => transport = "tls")
         /\ r.ssl \o FlattenSeq(r.chan) \in Seq(Piece)
         /\ Rest = r.buf \o (r.ssl \o FlattenSeq(r.chan))
<1>0. chan \in Seq(Seq(Piece)) /\ ssl \in Seq(Piece) /\ BufSize \in Nat /\ BufSize # 0
  BY SensorAssumption DEF ChanType, Line
<1>1. CASE transport # "tls"
  <2>1. PICK stream : stream = FlattenSeq(chan)
    OBVIOUS
  <2>2. stream \in Seq(Piece) /\ Len(stream) \in Nat
    BY <1>0, <2>1, FlattenType
  <2>3. PICK n \in 1..(IF Len(stream) < BufSize THEN Len(stream) ELSE BufSize) :
          r = [buf  |-> SubSeq(stream, 1, n),
               chan |-> IF n = Len(stream) THEN <<>> ELSE <<SubSeq(stream, n + 1, Len(stream))>>,
               ssl  |-> <<>>]
    BY <1>1, <2>1 DEF Reads, StreamReads
  <2>4. n \in 0..Len(stream) /\ n > 0
    BY <1>0, <2>2
  <2>5. PICK c : c = SubSeq(stream, n + 1, Len(stream))
    OBVIOUS
  <2>6. /\ r.buf \in Seq(Piece) /\ c \in Seq(Piece) /\ Len(r.buf) = n
        /\ stream = r.buf \o c
    <3>1. r.buf = SubSeq(stream, 1, n)
      BY <2>3
    <3> QED BY <2>2, <2>4, <2>5, <3>1, Parts
  <2>7. r.chan \in Seq(Seq(Piece)) /\ FlattenSeq(r.chan) = c
    <3>1. CASE n = Len(stream)
      <4>1. r.chan = <<>>
        BY <2>3, <3>1
      <4>2. Len(c) = 0
        <5>1. Len(stream) = Len(r.buf) + Len(c)
          BY ONLY <2>6, ConcatProperties
        <5> QED BY <2>2, <2>6, <3>1, <5>1
      <4>3. c = <<>>
        BY <2>6, <4>2, EmptySeq
      <4> QED BY <4>1, <4>3, FlattenNone
    <3>2. CASE n # Len(stream)
      <4>1. r.chan = <<c>>
        BY <2>3, <2>5, <3>2
      <4> QED BY <2>6, <4>1, FlattenOne
    <3> QED BY <3>1, <3>2
  <2>8. r.ssl = <<>> /\ ssl = <<>>
    BY <1>1, <2>3 DEF ChanType
  <2>9. r.ssl \o FlattenSeq(r.chan) = c /\ Rest = stream
    BY <2>1, <2>2, <2>6, <2>7, <2>8, ConcatEmptySeq DEF Rest
  <2> QED BY <2>4, <2>6, <2>7, <2>8, <2>9 DEF Line
<1>2. CASE transport = "tls"
  <2> DEFINE fresh  == ssl = <<>> /\ chan # <<>>
             taken  == IF fresh THEN Head(chan) ELSE ssl
             left   == IF fresh THEN Tail(chan) ELSE chan
  <2>1. PICK record, rest : record = taken /\ rest = left
    OBVIOUS
  <2>2. /\ record \in Seq(Piece) /\ rest \in Seq(Seq(Piece))
        /\ Rest = record \o FlattenSeq(rest)
    <3>1. CASE fresh
      <4>1. record = Head(chan) /\ rest = Tail(chan) /\ ssl = <<>> /\ chan # <<>>
        BY <2>1, <3>1
      <4>2. record \in Seq(Piece) /\ rest \in Seq(Seq(Piece))
        BY <1>0, <4>1, HeadTailProperties
      <4>3. FlattenSeq(chan) = record \o FlattenSeq(rest)
        BY <1>0, <4>1, FlattenFirst
      <4>4. Rest = FlattenSeq(chan)
        BY <1>0, <4>1, FlattenType, ConcatEmptySeq DEF Rest
      <4> QED BY <4>2, <4>3, <4>4
    <3>2. CASE ~fresh
      BY <1>0, <2>1, <3>2 DEF Rest
    <3> QED BY <3>1, <3>2
  <2>3. /\ record # <<>>
        /\ r = [buf  |-> SubSeq(record, 1, IF Len(record) < BufSize THEN Len(record) ELSE BufSize),
                chan |-> rest,
                ssl  |-> SubSeq(record, BufSize + 1, Len(record))]
    <3>1. r \in RecordReads
      BY <1>2 DEF Reads
    <3>2. record # <<>>
      BY <2>1, <3>1 DEF RecordReads
    <3> QED BY <2>1, <3>1, <3>2 DEF RecordReads
  <2> HIDE DEF fresh, taken, left
  <2>4. Len(record) \in Nat /\ Len(record) # 0
    BY <2>2, <2>3, EmptySeq
  <2>5. PICK n \in 0..Len(record) : n = (IF Len(record) < BufSize THEN Len(record) ELSE BufSize) /\ n > 0
    BY <1>0, <2>4
  <2>6. r.ssl = SubSeq(record, n + 1, Len(record))
    <3>1. CASE n = BufSize
      BY <2>3, <3>1
    <3>2. CASE n # BufSize
      <4>1. n = Len(record) /\ BufSize + 1 > Len(record) /\ n + 1 > Len(record)
        BY <1>0, <2>4, <2>5, <3>2
      <4>2. r.ssl = SubSeq(record, BufSize + 1, Len(record))
        BY <2>3
      <4>3. /\ SubSeq(record, BufSize + 1, Len(record)) = <<>>
            /\ SubSeq(record, n + 1, Len(record)) = <<>>
        <5>1. /\ BufSize + 1 \in Int /\ n + 1 \in Int /\ Len(record) \in Int
              /\ Len(record) < BufSize + 1 /\ Len(record) < n + 1
          BY <1>0, <2>4, <4>1
        <5> QED BY <5>1, SubSeqEmpty
      <4> QED BY <4>2, <4>3
    <3> QED BY <3>1, <3>2
  <2>7. /\ r.buf \in Seq(Piece) /\ r.ssl \in Seq(Piece) /\ Len(r.buf) = n
        /\ record = r.buf \o r.ssl
    <3>1. r.buf = SubSeq(record, 1, IF Len(record) < BufSize THEN Len(record) ELSE BufSize)
      BY <2>3
    <3>2. r.buf = SubSeq(record, 1, n)
      BY ONLY <2>5, <3>1, Zenon
    <3>3. PICK b, c : b = r.buf /\ c = r.ssl
      OBVIOUS
    <3>4. b = SubSeq(record, 1, n) /\ c = SubSeq(record, n + 1, Len(record))
      BY ONLY <2>6, <3>2, <3>3, Zenon
    <3>5. record \in Seq(Piece) /\ n \in 0..Len(record)
      BY <2>2, <2>5
    <3>6. b \in Seq(Piece) /\ c \in Seq(Piece) /\ Len(b) = n /\ record = b \o c
      BY ONLY <3>4, <3>5, Parts
    <3> QED BY ONLY <3>3, <3>6, Zenon
  <2>8. r.chan = rest
    BY <2>3
  <2>9. PICK b, c, d : b = r.buf /\ c = r.ssl /\ d = FlattenSeq(rest)
    OBVIOUS
  <2>10. b \in Seq(Piece) /\ c \in Seq(Piece) /\ d \in Seq(Piece)
    BY <2>2, <2>7, <2>9, FlattenType
  <2>11. (b \o c) \o d = b \o (c \o d) /\ c \o d \in Seq(Piece)
    BY ONLY <2>10, SMTT(30)
  <2>12. Rest = (b \o c) \o d
    BY <2>2, <2>7, <2>9
  <2> QED BY <1>2, <2>2, <2>5, <2>7, <2>8, <2>9, <2>11, <2>12 DEF Line
<1> QED BY <1>1, <1>2

-----------------------------------------------------------------------------
(* The inductive invariant.                                                *)

TypeInv ==
  /\ transport \in Transports
  /\ main \in {"while", "report", "poll", "process_commands", "shutdown",
              "exit0", "exit1", "sigpipe", "abort"}
  /\ run_flag \in {0, 1} /\ start_flag \in {0, 1}
  /\ temp_unit \in {"FAHRENHEIT", "CELSIUS"}
  /\ period \in {1, 2, Misread}
  /\ peer \in {"open", "closed"}
  /\ sock_err \in {"none", "EPIPE", "ECONNRESET"}
  /\ unread \in 0..MaxUnread
  /\ hist \in [sent : Seq(Lines), split : BOOLEAN, late : Nat]
  /\ Len(hist.sent) <= MaxLines
  /\ ChanType

(* A report is late only when the button was pressed before it.            *)
LateInv ==
  /\ hist.late <= 1 /\ (hist.late = 1 => transport = "stdin")
  /\ run_flag = 1 => hist.late = 0
  /\ run_flag = 0 /\ main = "report" => hist.late = 0 /\ transport = "stdin"

(* The lines that were read are logged and obeyed, the rest is on its way. *)
StreamOf(lines, of, at) ==
  /\ log = IF main \in {"exit0", "abort"} THEN Append(lines, <<"SHUTDOWN">>) ELSE lines
  /\ LogFine(lines, hist.sent)
  /\ Marks(hist.sent, Len(lines), Rest, of, at)
  /\ ~hist.split => /\ Whole(Rest, at)
                    /\ Flags(Networked, start_flag, temp_unit, run_flag, hist.sent, Len(lines))

Stream == \E lines \in Seq(Line) : \E of, at : StreamOf(lines, of, at)

IInv == TypeInv /\ LateInv /\ Stream

LEMMA RestType == ChanType => Rest \in Seq(Piece)
<1> SUFFICES ASSUME ChanType PROVE Rest \in Seq(Piece)
  OBVIOUS
<1>1. ssl \in Seq(Piece) /\ FlattenSeq(chan) \in Seq(Piece)
  BY FlattenType DEF ChanType, Line
<1> QED BY <1>1, ConcatProperties DEF Rest

LEMMA SentKnown == TypeInv => hist.sent \in Seq(Known)
<1> SUFFICES ASSUME TypeInv PROVE hist.sent \in Seq(Known)
  OBVIOUS
<1>1. hist.sent \in Seq(Lines)
  BY DEF TypeInv
<1> QED BY <1>1, LinesKnown

LEMMA InitIInv == Init => IInv
<1> SUFFICES ASSUME Init PROVE IInv
  OBVIOUS
<1>1. TypeInv
  <2>1. ChanType
    BY EmptySeq DEF Init, ChanType, Line
  <2>2. hist \in [sent : Seq(Lines), split : BOOLEAN, late : Nat] /\ Len(hist.sent) = 0
    BY EmptySeq DEF Init
  <2>3. 0 <= MaxLines /\ {0, 1} \subseteq 0..MaxUnread
    BY SensorAssumption
  <2> QED BY <2>1, <2>2, <2>3 DEF Init, TypeInv
<1>2. LateInv
  BY DEF Init, LateInv
<1>3. StreamOf(<<>>, <<>>, <<>>)
  <2>1. hist.sent = <<>> /\ hist.split = FALSE /\ log = <<>> /\ main = "while"
    BY DEF Init
  <2>2. Rest = <<>>
    <3>1. <<>> \o <<>> = <<>>
      OBVIOUS
    <3> QED BY <3>1, FlattenNone DEF Init, Rest
  <2>3. LogFine(<<>>, hist.sent)
    BY DEF LogFine
  <2>4. Marks(hist.sent, Len(<<>>), Rest, <<>>, <<>>)
    BY <2>1, <2>2 DEF Marks
  <2>5. Whole(Rest, <<>>)
    BY <2>2 DEF Whole
  <2>6. \A lines, line : ~LastOf(hist.sent, Len(<<>>), lines, line)
    BY DEF LastOf
  <2>7. Flags(Networked, start_flag, temp_unit, run_flag, hist.sent, Len(<<>>))
    BY <2>6 DEF Flags, Init
  <2> QED BY <2>1, <2>3, <2>4, <2>5, <2>7 DEF StreamOf
<1>4. Stream
  BY <1>3, EmptySeq DEF Stream
<1> QED BY <1>1, <1>2, <1>4 DEF IInv

(* Steps that read and send nothing.                                       *)
LEMMA StreamKept ==
  ASSUME Stream, UNCHANGED <<log, chan, ssl, hist.sent, hist.split, settings, transport>>,
         main \notin {"exit0", "abort"}, main' \notin {"exit0", "abort"}
  PROVE  Stream'
<1>1a. PICK lines \in Seq(Line) : \E of, at : StreamOf(lines, of, at)
  BY DEF Stream
<1>1. PICK of, at : StreamOf(lines, of, at)
  BY <1>1a
<1>2. Rest' = Rest /\ Networked' = Networked
  BY DEF Rest, Networked
<1>3. StreamOf(lines, of, at)'
  BY <1>1, <1>2 DEF StreamOf, settings
<1> QED BY <1>3 DEF Stream

LEMMA WhileIInv == IInv /\ While => IInv'
<1> SUFFICES ASSUME IInv, While PROVE IInv'
  OBVIOUS
<1>1. TypeInv'
  BY DEF IInv, While, TypeInv, ChanType, settings, input, connection
<1>2. LateInv'
  BY DEF IInv, While, LateInv, TypeInv, settings
<1>3. Stream'
  BY StreamKept DEF IInv, While, settings, input, connection
<1> QED BY <1>1, <1>2, <1>3 DEF IInv

LEMMA WriteType ==
  ASSUME TypeInv, NEW next, Write(next)
  PROVE  /\ main' \in {next, "sigpipe"}
         /\ sock_err' \in {"none", "EPIPE", "ECONNRESET"} /\ unread' \in 0..MaxUnread
<1>1. sock_err \in {"none", "EPIPE", "ECONNRESET"} /\ unread \in 0..MaxUnread
  BY DEF TypeInv
<1>2. CASE ~Networked
  BY <1>1, <1>2 DEF Write, connection
<1>3. CASE Networked /\ peer = "open" /\ unread < MaxUnread
  BY <1>1, <1>3, SensorAssumption DEF Write, TypeInv
<1>4. CASE Networked /\ peer = "closed"
  BY <1>1, <1>4 DEF Write
<1> QED BY <1>2, <1>3, <1>4 DEF Write

LEMMA ReportIInv == IInv /\ Report => IInv'
<1> SUFFICES ASSUME IInv, Report PROVE IInv'
  OBVIOUS
<1>1. /\ main = "report" /\ main' \in {"poll", "sigpipe"}
      /\ sock_err' \in {"none", "EPIPE", "ECONNRESET"} /\ unread' \in 0..MaxUnread
      /\ UNCHANGED <<transport, settings, log, input>>
  BY WriteType DEF IInv, Report
<1>2. /\ hist' = [hist EXCEPT !.late = IF run_flag = 0 THEN @ + 1 ELSE @]
      /\ hist \in [sent : Seq(Lines), split : BOOLEAN, late : Nat]
  BY DEF Report, IInv, TypeInv
<1>3. /\ hist' \in [sent : Seq(Lines), split : BOOLEAN, late : Nat]
      /\ hist'.sent = hist.sent /\ hist'.split = hist.split
      /\ hist'.late = IF run_flag = 0 THEN hist.late + 1 ELSE hist.late
      /\ hist.late \in Nat
  <2> DEFINE S == Seq(Lines)
  <2>1. hist \in [sent : S, split : BOOLEAN, late : Nat]
    BY <1>2
  <2> HIDE DEF S
  <2>2. /\ hist' \in [sent : S, split : BOOLEAN, late : Nat]
        /\ hist'.sent = hist.sent /\ hist'.split = hist.split
        /\ hist'.late = IF run_flag = 0 THEN hist.late + 1 ELSE hist.late
        /\ hist.late \in Nat
    BY <1>2, <2>1
  <2> QED BY <2>2 DEF S
<1>4. TypeInv'
  BY <1>1, <1>3 DEF IInv, TypeInv, ChanType, settings, input, connection
<1>5. LateInv'
  BY <1>1, <1>3 DEF IInv, LateInv, TypeInv, settings
<1>6. Stream'
  BY <1>1, <1>3, StreamKept DEF IInv, settings, input, connection
<1> QED BY <1>4, <1>5, <1>6 DEF IInv

LEMMA PollIInv == IInv /\ Poll => IInv'
<1> SUFFICES ASSUME IInv, Poll PROVE IInv'
  OBVIOUS
<1>1. TypeInv'
  BY DEF IInv, Poll, TypeInv, ChanType, settings, input, connection
<1>2. LateInv'
  BY DEF IInv, Poll, LateInv, TypeInv, settings
<1>3. Stream'
  BY StreamKept DEF IInv, Poll, settings, input, connection
<1> QED BY <1>1, <1>2, <1>3 DEF IInv

LEMMA ReadNothingIInv == IInv /\ ReadNothing => IInv'
<1> SUFFICES ASSUME IInv, ReadNothing PROVE IInv'
  OBVIOUS
<1>0. main = "process_commands" /\ main' \in {"while", "exit1"}
  BY DEF ReadNothing
<1>1. TypeInv'
  BY <1>0 DEF IInv, ReadNothing, TypeInv, ChanType, settings, input, connection
<1>2. LateInv'
  BY <1>0 DEF IInv, ReadNothing, LateInv, TypeInv, settings
<1>3. Stream'
  BY <1>0, StreamKept DEF IInv, ReadNothing, settings, input, connection
<1> QED BY <1>1, <1>2, <1>3 DEF IInv

LEMMA PeerReadsIInv == IInv /\ PeerReads => IInv'
<1> SUFFICES ASSUME IInv, PeerReads PROVE IInv'
  OBVIOUS
<1>1. unread' \in 0..MaxUnread
  BY SensorAssumption DEF IInv, TypeInv, PeerReads
<1>2. TypeInv'
  BY <1>1 DEF IInv, PeerReads, TypeInv, ChanType, settings, input
<1>3. LateInv'
  BY DEF IInv, PeerReads, LateInv, settings
<1>4. Stream'
  <2>1. Rest' = Rest /\ Networked' = Networked
    BY DEF PeerReads, input, Rest, Networked
  <2> QED BY <2>1 DEF IInv, PeerReads, Stream, StreamOf, input, settings
<1> QED BY <1>2, <1>3, <1>4 DEF IInv

LEMMA CloseIInv == IInv /\ Close => IInv'
<1> SUFFICES ASSUME IInv, Close PROVE IInv'
  OBVIOUS
<1>1. TypeInv'
  BY DEF IInv, Close, TypeInv, ChanType, settings, connection
<1>2. LateInv'
  BY DEF IInv, Close, LateInv, TypeInv, settings
<1>3. Stream'
  BY StreamKept DEF IInv, Close, settings, Ended
<1> QED BY <1>1, <1>2, <1>3 DEF IInv

LEMMA ShutdownIInv == IInv /\ Shutdown => IInv'
<1> SUFFICES ASSUME IInv, Shutdown PROVE IInv'
  OBVIOUS
<1>1. /\ main = "shutdown" /\ main' \in {"exit0", "abort", "sigpipe"}
      /\ sock_err' \in {"none", "EPIPE", "ECONNRESET"} /\ unread' \in 0..MaxUnread
      /\ UNCHANGED <<transport, settings, input, hist>>
      /\ log' = IF main' = "sigpipe" THEN log ELSE Append(log, <<"SHUTDOWN">>)
  <2>1. PICK end \in {"exit0", "abort"} : Write(end)
    BY DEF Shutdown
  <2> QED BY <2>1, WriteType DEF IInv, Shutdown
<1>2. TypeInv'
  BY <1>1 DEF IInv, TypeInv, ChanType, settings, input, connection
<1>3. LateInv'
  BY <1>1 DEF IInv, LateInv, TypeInv, settings
<1>4. Stream'
  <2>1a. PICK lines \in Seq(Line) : \E of, at : StreamOf(lines, of, at)
    BY DEF IInv, Stream
  <2>1. PICK of, at : StreamOf(lines, of, at)
    BY <2>1a
  <2>2. Rest' = Rest /\ Networked' = Networked
    BY <1>1 DEF Rest, Networked, input
  <2>3. log = lines
    BY <1>1, <2>1 DEF StreamOf
  <2>4. log' = IF main' \in {"exit0", "abort"} THEN Append(lines, <<"SHUTDOWN">>) ELSE lines
    BY <1>1, <2>3
  <2>5. StreamOf(lines, of, at)'
    BY <1>1, <2>1, <2>2, <2>4 DEF StreamOf, settings
  <2> QED BY <2>5 DEF Stream
<1> QED BY <1>2, <1>3, <1>4 DEF IInv

LEMMA PressButtonIInv == IInv /\ PressButton => IInv'
<1> SUFFICES ASSUME IInv, PressButton PROVE IInv'
  OBVIOUS
<1>1. TypeInv'
  BY DEF IInv, PressButton, TypeInv, ChanType, input, connection
<1>2. LateInv'
  BY DEF IInv, PressButton, LateInv, TypeInv
<1>3. Stream'
  <2>1a. PICK lines \in Seq(Line) : \E of, at : StreamOf(lines, of, at)
    BY DEF IInv, Stream
  <2>1. PICK of, at : StreamOf(lines, of, at)
    BY <2>1a
  <2>2. Rest' = Rest /\ Networked' = FALSE
    BY DEF PressButton, Rest, Networked, input
  <2>3. Flags(Networked, start_flag, temp_unit, run_flag, hist.sent, Len(lines))
          => Flags(FALSE, start_flag, temp_unit, 0, hist.sent, Len(lines))
    BY DEF Flags
  <2>4. StreamOf(lines, of, at)'
    BY <2>1, <2>2, <2>3 DEF StreamOf, PressButton
  <2> QED BY <2>4 DEF Stream
<1> QED BY <1>1, <1>2, <1>3 DEF IInv

(* What was sent before keeps its number.                                  *)
LEMMA SentMore ==
  ASSUME NEW T, NEW sent \in Seq(T), NEW line \in T, NEW net, NEW start, NEW unit, NEW run,
         NEW lines \in Seq(Line), Len(lines) <= Len(sent)
  PROVE  /\ LogFine(lines, sent) => LogFine(lines, Append(sent, line))
         /\ Flags(net, start, unit, run, sent, Len(lines))
              => Flags(net, start, unit, run, Append(sent, line), Len(lines))
<1>0. PICK m \in Nat : m = Len(lines)
  BY LenProperties
<1>1. PICK sent2 : sent2 = Append(sent, line) /\ m = Len(lines)
  BY <1>0
<1>2. m <= Len(sent) /\ Len(sent) \in Nat
  BY <1>1
<1>3. Len(sent2) = Len(sent) + 1 /\ \A k \in 1..m : sent2[k] = sent[k]
  <2>1. Len(sent2) = Len(sent) + 1 /\ \A k \in 1..Len(sent) : sent2[k] = sent[k]
    BY <1>1, Appended
  <2> QED BY <1>2, <2>1
<1>4. \A which, l : LastOf(sent2, m, which, l) <=> LastOf(sent, m, which, l)
  BY <1>3 DEF LastOf
<1>5. LogFine(lines, sent) => LogFine(lines, sent2)
  <2> SUFFICES ASSUME LogFine(lines, sent), NEW k \in 1..m
               PROVE  k <= Len(sent2) /\ IsSuffix(Append(lines[k], "\n"), PiecesOf[sent2[k]])
    BY <1>1 DEF LogFine
  <2>1. k <= Len(sent2)
    BY <1>2, <1>3
  <2> QED BY <1>1, <1>3, <2>1 DEF LogFine
<1>6. Flags(net, start, unit, run, sent, m) => Flags(net, start, unit, run, sent2, m)
  BY <1>4 DEF Flags
<1> QED BY <1>1, <1>5, <1>6

(* No more lines are read than were sent.                                  *)
LEMMA ReadOfSent ==
  ASSUME NEW sent \in Seq(Known), NEW n \in Nat, NEW rest \in Seq(Piece), NEW of, NEW at,
         Marks(sent, n, rest, of, at)
  PROVE  n <= Len(sent)
<1>1. Len(sent) \in Nat /\ Len(rest) \in Nat
  OBVIOUS
<1>2. CASE Len(rest) = 0
  BY <1>1, <1>2 DEF Marks
<1>3. CASE Len(rest) # 0
  <2>1. 1 \in 1..Len(rest)
    BY <1>1, <1>3
  <2>2. of[1] = n + 1 /\ of[1] \in 1..Len(sent)
    BY <1>3, <2>1 DEF Marks
  <2> QED BY <1>1, <2>2
<1> QED BY <1>2, <1>3

LEMMA SendIInv == IInv /\ Send => IInv'
<1> SUFFICES ASSUME IInv, Send PROVE IInv'
  OBVIOUS
<1>1. PICK line \in Lines :
        /\ hist' = [hist EXCEPT !.sent = Append(@, line)]
        /\ \/ /\ transport = "tls" \/ chan = <<>>
              /\ chan' = Append(chan, PiecesOf[line])
           \/ /\ chan # <<>>
              /\ chan' = Append(Front(chan), Last(chan) \o PiecesOf[line])
  BY DEF Send
<1>2. line \in Known
  BY LinesKnown
<1>3. PICK pieces, sent : pieces = PiecesOf[line] /\ sent = hist.sent
  OBVIOUS
<1>4. pieces \in Seq(Piece) /\ sent \in Seq(Known) /\ sent \in Seq(Lines)
  <2>1. pieces \in Seq(Piece)
    BY <1>2, <1>3, LineShape
  <2>2. sent \in Seq(Known)
    BY <1>3, SentKnown DEF IInv
  <2>3. sent \in Seq(Lines)
    BY <1>3 DEF IInv, TypeInv
  <2> QED BY <2>1, <2>2, <2>3
<1>5. /\ hist' \in [sent : Seq(Lines), split : BOOLEAN, late : Nat]
      /\ hist'.sent = Append(sent, line) /\ hist'.split = hist.split /\ hist'.late = hist.late
  <2> DEFINE S == Seq(Lines)
  <2>1. PICK more : more = Append(sent, line)
    OBVIOUS
  <2>2. more \in S
    BY <1>4, <2>1, AppendProperties
  <2>3. hist \in [sent : S, split : BOOLEAN, late : Nat] /\ hist' = [hist EXCEPT !.sent = more]
    BY <1>1, <1>3, <2>1 DEF IInv, TypeInv
  <2> HIDE DEF S
  <2>4. /\ hist' \in [sent : S, split : BOOLEAN, late : Nat]
        /\ hist'.sent = more /\ hist'.split = hist.split /\ hist'.late = hist.late
    BY <2>2, <2>3
  <2> QED BY <2>1, <2>4 DEF S
<1>6. Len(hist'.sent) <= MaxLines
  <2>1. Len(hist.sent) < MaxLines
    BY DEF Send
  <2>2. Len(hist'.sent) = Len(sent) + 1 /\ Len(sent) \in Nat
    BY <1>4, <1>5, AppendProperties
  <2> QED BY <1>3, <2>1, <2>2, SensorAssumption
<1>7. chan \in Seq(Seq(Piece)) /\ ssl \in Seq(Piece)
  BY DEF IInv, TypeInv, ChanType, Line
<1>8. chan' \in Seq(Seq(Piece)) /\ FlattenSeq(chan') = FlattenSeq(chan) \o pieces
  <2>1. CASE chan' = Append(chan, PiecesOf[line])
    <3>1. chan' = Append(chan, pieces)
      BY <1>3, <2>1
    <3> QED BY <1>4, <1>7, <3>1, FlattenMore, AppendProperties
  <2>2. CASE chan # <<>> /\ chan' = Append(Front(chan), Last(chan) \o PiecesOf[line])
    <3>1. chan' = Append(Front(chan), Last(chan) \o pieces)
      BY <1>3, <2>2
    <3> QED BY <1>4, <1>7, <2>2, <3>1, FlattenLast
  <2> QED BY <1>1, <2>1, <2>2
<1>9. Rest \in Seq(Piece) /\ Rest' = Rest \o pieces
  <2>1. PICK a, b : a = ssl /\ b = FlattenSeq(chan)
    OBVIOUS
  <2>2. a \in Seq(Piece) /\ b \in Seq(Piece) /\ pieces \in Seq(Piece)
    BY <1>4, <1>7, <2>1, FlattenType
  <2>3. (a \o b) \o pieces = a \o (b \o pieces)
    BY ONLY <2>2, SMTT(30)
  <2>4. Rest' = a \o (b \o pieces)
    BY <1>8, <2>1 DEF Rest, Send
  <2>5. Rest = a \o b
    BY <2>1 DEF Rest
  <2> QED BY <2>3, <2>4, <2>5, RestType DEF IInv, TypeInv
<1>10. TypeInv'
  <2>1. ChanType'
    BY <1>8 DEF IInv, TypeInv, ChanType, Line, Send
  <2> QED BY <1>5, <1>6, <2>1 DEF IInv, TypeInv, Send, settings, connection
<1>11. LateInv'
  BY <1>5 DEF IInv, LateInv, Send, settings
<1>12. Stream'
  <2>1a. PICK lines \in Seq(Line) : \E of, at : StreamOf(lines, of, at)
    BY DEF IInv, Stream
  <2>1. PICK of, at : StreamOf(lines, of, at)
    BY <2>1a
  <2>2. PICK rest : rest = Rest
    OBVIOUS
  <2>3. Marks(sent, Len(lines), rest, of, at) /\ rest \in Seq(Piece)
    BY <1>3, <1>9, <2>1, <2>2 DEF StreamOf
  <2>4. Len(lines) \in Nat
    BY LenProperties
  <2>5. Len(lines) <= Len(sent)
    BY <1>4, <2>3, <2>4, ReadOfSent
  <2>6. PICK of2, at2 :
          /\ Marks(Append(sent, line), Len(lines), rest \o PiecesOf[line], of2, at2)
          /\ Whole(rest, at) => Whole(rest \o PiecesOf[line], at2)
    BY <1>2, <1>4, <2>3, MarksSent
  <2>7. Rest' = rest \o PiecesOf[line]
    BY <1>3, <1>9, <2>2
  <2>8. LogFine(lines, hist'.sent)
    <3>1. LogFine(lines, sent)
      BY <1>3, <2>1 DEF StreamOf
    <3> QED BY <1>2, <1>4, <1>5, <2>5, <3>1, SentMore
  <2>9. ASSUME ~hist'.split
        PROVE  /\ Whole(Rest', at2)
               /\ Flags(Networked', start_flag', temp_unit', run_flag', hist'.sent, Len(lines))
    <3>1. /\ Whole(rest, at)
          /\ Flags(Networked, start_flag, temp_unit, run_flag, sent, Len(lines))
      BY <1>3, <1>5, <2>1, <2>2, <2>9 DEF StreamOf
    <3>2. PICK net, start, unit, run : net = Networked /\ start = start_flag
                                       /\ unit = temp_unit /\ run = run_flag
      OBVIOUS
    <3>3. Flags(net, start, unit, run, Append(sent, line), Len(lines))
      BY <1>2, <1>4, <2>5, <3>1, <3>2, SentMore
    <3>4. net = Networked' /\ start = start_flag' /\ unit = temp_unit' /\ run = run_flag'
      BY <3>2 DEF Send, settings, Networked
    <3> QED BY <1>5, <2>6, <2>7, <3>1, <3>3, <3>4
  <2>10. log' = IF main' \in {"exit0", "abort"} THEN Append(lines, <<"SHUTDOWN">>) ELSE lines
    BY <2>1 DEF StreamOf, Send
  <2>11. StreamOf(lines, of2, at2)'
    BY <1>5, <2>6, <2>7, <2>8, <2>9, <2>10 DEF StreamOf
  <2> QED BY <2>11 DEF Stream
<1> QED BY <1>10, <1>11, <1>12 DEF IInv

LEMMA ParsedType ==
  ASSUME TypeInv, NEW lines \in Seq(Line), log = lines
  PROVE  /\ Parsed \in ParseState /\ Parsed.start_index = 1 /\ Parsed.log = lines
         /\ Parsed.start_flag = start_flag /\ Parsed.temp_unit = temp_unit
         /\ Parsed.run_flag = run_flag
<1> DEFINE S == Seq(Line)
<1>1. lines \in S
  OBVIOUS
<1> HIDE DEF S
<1>2. /\ run_flag \in {0, 1} /\ start_flag \in {0, 1}
      /\ temp_unit \in {"FAHRENHEIT", "CELSIUS"} /\ period \in {1, 2, Misread}
  BY DEF TypeInv
<1>3. Parsed \in [start_index : Nat, run_flag : {0, 1}, start_flag : {0, 1},
                  temp_unit : {"FAHRENHEIT", "CELSIUS"}, period : {1, 2, Misread}, log : S]
  BY <1>1, <1>2 DEF Parsed
<1>4. /\ Parsed.start_index = 1 /\ Parsed.log = lines
      /\ Parsed.start_flag = start_flag /\ Parsed.temp_unit = temp_unit
      /\ Parsed.run_flag = run_flag
  BY DEF Parsed
<1> QED BY <1>3, <1>4 DEF ParseState, S

LEMMA ProcessCommandsIInv == IInv /\ ProcessCommands => IInv'
<1> SUFFICES ASSUME IInv, ProcessCommands PROVE IInv'
  OBVIOUS
<1> DEFINE obeys(r, p) ==
        /\ run_flag' = p.run_flag /\ start_flag' = p.start_flag
        /\ temp_unit' = p.temp_unit /\ period' = p.period
        /\ log' = p.log
        /\ chan' = r.chan /\ ssl' = r.ssl
        /\ hist' = [hist EXCEPT !.split = @ \/ Last(r.buf) # "\n"]
<1>1a. PICK r \in Reads, beyond \in {0, Misread} : obeys(r, Parse(r.buf, beyond))
  BY DEF ProcessCommands
<1>1. PICK p : p = Parse(r.buf, beyond) /\ obeys(r, p)
  BY <1>1a
<1>2. main = "process_commands" /\ main' = "while" /\ UNCHANGED <<transport, peer, connection>>
  BY DEF ProcessCommands
<1>3a. PICK lines \in Seq(Line) : \E of, at : StreamOf(lines, of, at)
  BY DEF IInv, Stream
<1>3. PICK of, at : StreamOf(lines, of, at)
  BY <1>3a
<1>4. TypeInv /\ ChanType
  BY DEF IInv, TypeInv
<1>5. PICK sent, rest, buf, after, net, first :
        /\ sent = hist.sent /\ rest = Rest /\ buf = r.buf
        /\ after = r.ssl \o FlattenSeq(r.chan)
        /\ net = Networked /\ first = Parsed
  OBVIOUS
<1>6. /\ sent \in Seq(Known) /\ rest \in Seq(Piece)
      /\ buf \in Seq(Piece) /\ after \in Seq(Piece) /\ Len(buf) > 0 /\ rest = buf \o after
      /\ r.chan \in Seq(Line) /\ r.ssl \in Line /\ (r.ssl # <<>> => transport = "tls")
      /\ net \in BOOLEAN
  <2>1. /\ r.buf \in Seq(Piece) /\ Len(r.buf) > 0
        /\ r.chan \in Seq(Line) /\ r.ssl \in Line /\ (r.ssl # <<>> => transport = "tls")
        /\ r.ssl \o FlattenSeq(r.chan) \in Seq(Piece)
        /\ Rest = r.buf \o (r.ssl \o FlattenSeq(r.chan))
    BY <1>4, ReadsAre
  <2>2. sent \in Seq(Known) /\ rest \in Seq(Piece)
    BY <1>4, <1>5, SentKnown, RestType
  <2>3. net \in BOOLEAN
    BY <1>5 DEF Networked
  <2> QED BY <1>5, <2>1, <2>2, <2>3
<1>7. /\ Len(rest) = Len(buf) + Len(after)
      /\ \A j \in 1..Len(buf) : buf[j] = rest[j]
      /\ \A j \in 1..Len(after) : rest[Len(buf) + j] = after[j]
  BY ONLY <1>6, Concat
<1>8. Len(buf) \in Nat /\ Len(after) \in Nat /\ Len(buf) <= Len(rest) /\ Len(rest) > 0
  BY <1>6, <1>7
<1>9. log = lines
  BY <1>2, <1>3 DEF StreamOf
<1>10. /\ first \in ParseState /\ first.start_index = 1 /\ first.log = lines
       /\ first.start_flag = start_flag /\ first.temp_unit = temp_unit
       /\ first.run_flag = run_flag
  BY <1>4, <1>5, <1>9, ParsedType
<1>11. Marks(sent, Len(lines), rest, of, at) /\ LogFine(lines, sent)
  BY <1>3, <1>5 DEF StreamOf
(* Without splits the buffer begins with a line.                           *)
<1>12. PICK whole \in BOOLEAN : whole <=> ~hist.split
  BY Zenon
<1>13. whole => /\ at[1] = 1
                /\ Flags(net, start_flag, temp_unit, run_flag, sent, Len(lines))
  BY <1>3, <1>5, <1>8, <1>12 DEF StreamOf, Whole
<1>14. PICK f : IsParse(f, Len(buf), buf, beyond, first) /\ p = f[Len(buf)]
  BY <1>1, <1>5, <1>6, ParseIs
<1>15. ParseInv(sent, rest, of, at, net, whole, first, Len(buf), p)
  <2>1. /\ first.start_index = 1 /\ Len(first.log) = Len(lines) /\ LogFine(first.log, sent)
        /\ whole => /\ at[1] = 1
                    /\ Flags(net, first.start_flag, first.temp_unit, first.run_flag, sent, Len(lines))
    BY <1>10, <1>11, <1>13
  <2>2. ParseInv(sent, rest, of, at, net, whole, first, Len(buf), f[Len(buf)])
    <3>1. beyond \in {0, Misread} /\ whole \in BOOLEAN
      OBVIOUS
    <3>2. sent \in Seq(Known) /\ rest \in Seq(Piece) /\ buf \in Seq(Piece) /\ net \in BOOLEAN
      BY <1>6
    <3>3. PICK n : n = Len(lines)
      OBVIOUS
    <3>4. /\ Marks(sent, n, rest, of, at) /\ Len(first.log) = n
          /\ whole => /\ at[1] = 1
                      /\ Flags(net, first.start_flag, first.temp_unit, first.run_flag, sent, n)
      BY <1>11, <2>1, <3>3
    <3>5. first \in ParseState /\ first.start_index = 1 /\ LogFine(first.log, sent)
      BY <1>10, <2>1
    <3>6. /\ Len(buf) <= Len(rest) /\ Len(buf) > 0 /\ \A j \in 1..Len(buf) : buf[j] = rest[j]
          /\ IsParse(f, Len(buf), buf, beyond, first)
      BY <1>6, <1>7, <1>8, <1>14
    <3> QED BY ONLY <3>1, <3>2, <3>4, <3>5, <3>6, ParseReads, ZenonT(60)
  <2> QED BY <1>14, <2>2
<1>16. PICK read : read = p.log
  OBVIOUS
<1>17. read \in Seq(Line) /\ LogFine(read, sent)
  BY <1>15, <1>16 DEF ParseInv, ParseState
<1>18. PICK of2, at2 : /\ Marks(sent, Len(read), after, of2, at2)
                       /\ Len(after) > 0 => at2[1] = at[Len(buf) + 1]
  <2>1. Len(after) = 0 => Len(read) = Len(sent)
    BY <1>7, <1>8, <1>15, <1>16 DEF ParseInv
  <2>2. Len(after) # 0 => of[Len(buf) + 1] = Len(read) + 1
    BY <1>7, <1>8, <1>15, <1>16 DEF ParseInv
  <2>3. LinesRead(sent, of, buf, after, Len(read))
    BY <2>1, <2>2 DEF LinesRead
  <2>4. Follows(rest, buf, after)
    BY <1>7 DEF Follows
  <2>5. /\ sent \in Seq(Known) /\ rest \in Seq(Piece) /\ buf \in Seq(Piece)
        /\ after \in Seq(Piece)
    BY <1>6
  <2> QED BY ONLY <1>11, <2>3, <2>4, <2>5, MarksRead
<1>19. /\ hist' \in [sent : Seq(Lines), split : BOOLEAN, late : Nat]
       /\ hist'.sent = sent /\ hist'.late = hist.late
       /\ hist'.split <=> hist.split \/ buf[Len(buf)] # "\n"
  <2> DEFINE S == Seq(Lines)
  <2>1. hist \in [sent : S, split : BOOLEAN, late : Nat]
    BY <1>4 DEF TypeInv
  <2>2. PICK ends \in BOOLEAN : ends <=> buf[Len(buf)] # "\n"
    BY Zenon
  <2>3. hist' = [hist EXCEPT !.split = hist.split \/ ends]
    BY <1>1, <1>5, <2>2 DEF Last
  <2> HIDE DEF S
  <2>4. /\ hist' \in [sent : S, split : BOOLEAN, late : Nat]
        /\ hist'.sent = hist.sent /\ hist'.late = hist.late
        /\ hist'.split = (hist.split \/ ends)
    BY <2>1, <2>3
  <2> QED BY <1>5, <2>2, <2>4 DEF S
(* After a newline a line begins.                                          *)
<1>20. buf[Len(buf)] = "\n" => Whole(after, at2)
  <2> SUFFICES ASSUME buf[Len(buf)] = "\n", Len(after) > 0 PROVE at2[1] = 1
    BY DEF Whole
  <2>1. Len(buf) \in 1..(Len(rest) - 1) /\ Len(buf) \in 1..Len(buf)
    BY <1>6, <1>7, <1>8
  <2>2. rest[Len(buf)] = "\n"
    BY <1>7, <2>1
  <2> QED BY <1>11, <1>18, <2>1, <2>2 DEF Marks
<1>21. Rest' = after
  BY <1>1, <1>5 DEF Rest
<1>22. Networked' = net
  BY <1>2, <1>5 DEF Networked
<1>23. StreamOf(read, of2, at2)'
  <2>1. log' = IF main' \in {"exit0", "abort"} THEN Append(read, <<"SHUTDOWN">>) ELSE read
    BY <1>1, <1>2, <1>16
  <2>2. ASSUME ~hist'.split
        PROVE  /\ Whole(Rest', at2)
               /\ Flags(Networked', start_flag', temp_unit', run_flag', hist'.sent, Len(read))
    <3>1. whole /\ buf[Len(buf)] = "\n"
      BY <1>12, <1>19, <2>2
    <3>2. Flags(net, p.start_flag, p.temp_unit, p.run_flag, sent, Len(read))
      BY <1>15, <1>16, <3>1 DEF ParseInv
    <3>3. /\ start_flag' = p.start_flag /\ temp_unit' = p.temp_unit /\ run_flag' = p.run_flag
      BY <1>1
    <3> QED BY <1>19, <1>20, <1>21, <1>22, <3>1, <3>2, <3>3
  <2>3. LogFine(read, hist'.sent) /\ Marks(hist'.sent, Len(read), Rest', of2, at2)
    BY <1>17, <1>18, <1>19, <1>21
  <2> QED BY <2>1, <2>2, <2>3 DEF StreamOf
<1>24. Stream'
  BY <1>17, <1>23 DEF Stream
<1>25. /\ run_flag' \in {0, 1} /\ start_flag' \in {0, 1}
       /\ temp_unit' \in {"FAHRENHEIT", "CELSIUS"} /\ period' \in {1, 2, Misread}
  <2>1. p \in ParseState
    BY <1>15 DEF ParseInv
  <2> QED BY <1>1, <2>1 DEF ParseState
<1>26. TypeInv'
  <2>1. ChanType'
    BY <1>1, <1>2, <1>6 DEF ChanType
  <2>2. Len(hist'.sent) <= MaxLines
    BY <1>4, <1>5, <1>19 DEF TypeInv
  <2> QED BY <1>2, <1>4, <1>19, <1>25, <2>1, <2>2 DEF TypeInv, connection
<1>27. run_flag' = 1 => run_flag = 1
  <2>1. p.run_flag = 1 => first.run_flag = 1
    BY <1>15 DEF ParseInv
  <2> QED BY <1>1, <1>10, <2>1
<1>28. LateInv'
  BY <1>2, <1>19, <1>27 DEF IInv, LateInv
<1> QED BY <1>24, <1>26, <1>28 DEF IInv

LEMMA NextIInv == IInv /\ [Next]_vars => IInv'
<1> SUFFICES ASSUME IInv, [Next]_vars PROVE IInv'
  OBVIOUS
<1>1. CASE Next
  BY <1>1, WhileIInv, ReportIInv, PollIInv, ProcessCommandsIInv, ReadNothingIInv, ShutdownIInv,
     PressButtonIInv, SendIInv, PeerReadsIInv, CloseIInv DEF Next, Main
<1>2. CASE UNCHANGED vars
  <2>1. Rest' = Rest /\ Networked' = Networked
    BY <1>2 DEF vars, input, Rest, Networked
  <2>2. TypeInv' /\ LateInv'
    BY <1>2 DEF IInv, TypeInv, LateInv, ChanType, vars, input, settings, connection
  <2>3. Stream'
    BY <1>2, <2>1 DEF IInv, Stream, StreamOf, vars, input, settings, connection
  <2> QED BY <2>2, <2>3 DEF IInv
<1> QED BY <1>1, <1>2

LEMMA Inductive == Spec => []IInv
BY InitIInv, NextIInv, PTL DEF Spec

-----------------------------------------------------------------------------
(* What follows from it.                                                   *)

(* The lines that are read are the first ones of the log.                  *)
LEMMA ReadIs ==
  ASSUME IInv, NEW lines \in Seq(Line), NEW of, NEW at, StreamOf(lines, of, at)
  PROVE  /\ Len(lines) \in Nat /\ Len(lines) <= Len(hist.sent)
         /\ Read = 1..Len(lines)
         /\ \A k \in 1..Len(lines) : log[k] = lines[k]
         /\ Len(log) <= Len(lines) + 1
<1>1. PICK n \in Nat : n = Len(lines)
  BY LenProperties
<1>2. n <= Len(hist.sent)
  <2>1. hist.sent \in Seq(Known) /\ Rest \in Seq(Piece)
    BY SentKnown, RestType DEF IInv, TypeInv
  <2>2. Marks(hist.sent, n, Rest, of, at)
    BY <1>1 DEF StreamOf
  <2> QED BY <2>1, <2>2, ReadOfSent
<1>3. \A k \in 1..n : lines[k] # <<"SHUTDOWN">>
  <2> SUFFICES ASSUME NEW k \in 1..n PROVE lines[k] # <<"SHUTDOWN">>
    OBVIOUS
  <2>1. lines[k] \in Seq(Piece)
    <3>1. lines[k] \in Line
      BY <1>1, ElementOfSeq
    <3> QED BY <3>1 DEF Line
  <2>2. "SHUTDOWN" \notin Piece
    BY DEF Piece
  <2>3. ASSUME NEW q \in Seq(Piece), q = <<"SHUTDOWN">> PROVE FALSE
    <3>1. Len(q) = 1 /\ q[1] = "SHUTDOWN"
      BY <2>3
    <3>2. q[1] \in Piece
      BY <3>1
    <3> QED BY <2>2, <3>1, <3>2
  <2> QED BY <2>1, <2>3
<1>4. CASE main \in {"exit0", "abort"}
  <2>1. PICK sd : sd = <<"SHUTDOWN">>
    OBVIOUS
  <2>2. log = Append(lines, sd)
    BY <1>4, <2>1 DEF StreamOf
  <2> DEFINE T == Line \cup {sd}
  <2>3. lines \in Seq(T) /\ sd \in T
    OBVIOUS
  <2> HIDE DEF T
  <2>4. /\ Len(log) = n + 1 /\ log[n + 1] = sd /\ DOMAIN log = 1..(n + 1)
        /\ \A k \in 1..n : log[k] = lines[k]
    BY <1>1, <2>2, <2>3, Appended
  <2>5. Read = 1..n
    <3>1. \A k \in 1..(n + 1) : k \in 1..n \/ k = n + 1
      OBVIOUS
    <3> QED BY <1>3, <2>1, <2>4, <3>1 DEF Read
  <2> QED BY <1>1, <1>2, <2>4, <2>5
<1>5. CASE main \notin {"exit0", "abort"}
  <2>1. log = lines
    BY <1>5 DEF StreamOf
  <2>2. DOMAIN lines = 1..n
    BY <1>1, LenProperties
  <2> QED BY <1>1, <1>2, <1>3, <2>1, <2>2 DEF Read
<1> QED BY <1>4, <1>5

(* Each variable of the sensor programs has its type.                      *)
THEOREM TypeCorrect == Spec => []TypeOK
<1>1. IInv => TypeOK
  <2> SUFFICES ASSUME IInv PROVE TypeOK
    OBVIOUS
  <2>1a. PICK lines \in Seq(Line) : \E of, at : StreamOf(lines, of, at)
    BY DEF IInv, Stream
  <2>1. PICK of, at : StreamOf(lines, of, at)
    BY <2>1a
  <2>2. Len(log) <= MaxLines + 1
    <3>1. /\ Len(lines) \in Nat /\ Len(lines) <= Len(hist.sent) /\ Len(log) <= Len(lines) + 1
          /\ Len(log) \in Int
      BY <2>1, ReadIs
    <3>2. Len(hist.sent) <= MaxLines /\ Len(hist.sent) \in Nat /\ MaxLines \in Nat
      BY SensorAssumption DEF IInv, TypeInv
    <3> QED BY <3>1, <3>2
  <2> QED BY <2>2 DEF IInv, TypeInv, ChanType, TypeOK
<1> QED BY <1>1, Inductive, PTL

(* main() looks at run_flag before each report, so the button is too late  *)
(* for one report, and OFF for none.                                       *)
THEOREM OneLate == Spec => []OneLateReport
<1>1. IInv => OneLateReport
  BY DEF IInv, LateInv, TypeInv, OneLateReport
<1> QED BY <1>1, Inductive, PTL

(* process_commands() logs each line that was sent once, and in order: all *)
(* of it, or an end of it if a read() ended inside.                        *)
THEOREM LoggedInOrder == Spec => []LogInOrder
<1>1. IInv => LogInOrder
  <2> SUFFICES ASSUME IInv PROVE LogInOrder
    OBVIOUS
  <2>1a. PICK lines \in Seq(Line) : \E of, at : StreamOf(lines, of, at)
    BY DEF IInv, Stream
  <2>1. PICK of, at : StreamOf(lines, of, at)
    BY <2>1a
  <2>2. Read = 1..Len(lines) /\ \A k \in 1..Len(lines) : log[k] = lines[k]
    BY <2>1, ReadIs
  <2>3. LogFine(lines, hist.sent)
    BY <2>1 DEF StreamOf
  <2> QED BY <2>2, <2>3 DEF LogFine, LogInOrder
<1> QED BY <1>1, Inductive, PTL

(* While each read() ends with a line, the flags of process_commands() are *)
(* those that the lines it has read ask for, however many a read returned. *)
THEOREM FlagsObeyed == Spec => []CommandsObeyed
<1>1. IInv => CommandsObeyed
  <2> SUFFICES ASSUME IInv PROVE CommandsObeyed
    OBVIOUS
  <2>1a. PICK lines \in Seq(Line) : \E of, at : StreamOf(lines, of, at)
    BY DEF IInv, Stream
  <2>1. PICK of, at : StreamOf(lines, of, at)
    BY <2>1a
  <2>2. Read = 1..Len(lines)
    BY <2>1, ReadIs
  <2>3. \A which, line : ReadLast(which, line) <=> LastOf(hist.sent, Len(lines), which, line)
    BY <2>2 DEF ReadLast, LastOf
  <2> QED BY <2>1, <2>3 DEF StreamOf, Flags, CommandsObeyed
<1> QED BY <1>1, Inductive, PTL

-----------------------------------------------------------------------------
(* The time waited for locks.                                              *)

USE TimeAssumption

Updating(t) == pc[t] \in {"load", "store", "op"}

(* The lock of a sublist belongs to the one thread that has activated it;  *)
(* what a += has read is not more than has been waited, and with a single  *)
(* sublist it is still the sum.                                            *)
TimeInv ==
  /\ TimeTypeOK
  /\ \A t \in Threads : Updating(t) => list_index[t] \in Lists /\ turns[t] < NumTurns
  /\ sync # "none" => \A t \in Threads, l \in Lists :
                        lock[l] = t <=> Updating(t) /\ list_index[t] = l
  /\ lock_time <= waited
  /\ \A t \in Threads : pc[t] = "store" => reg[t] <= waited
  /\ num_lists = 1 /\ sync # "none" =>
       /\ lock_time = waited
       /\ \A t \in Threads : pc[t] = "store" => reg[t] = lock_time

LEMMA OneAtATime ==
  ASSUME TimeInv, num_lists = 1, sync # "none",
         NEW t \in Threads, NEW u \in Threads, Updating(t), Updating(u)
  PROVE  t = u
<1>1. Lists = {0}
  BY SMT DEF Lists
<1>2. list_index[t] = 0 /\ list_index[u] = 0
  BY <1>1 DEF TimeInv
<1>3. lock[0] = t /\ lock[0] = u
  BY <1>1, <1>2 DEF TimeInv
<1> QED BY <1>3

LEMMA TimeInductive == TimeSpec => []TimeInv
<1>1. TimeInit => TimeInv
  <2>1. NoThread \notin Threads
    BY SMT DEF NoThread, Threads
  <2> QED BY <2>1, SMT DEF TimeInit, TimeInv, TimeTypeOK, Labels, Updating
<1>2. TimeInv /\ [TimeNext]_timeVars => TimeInv'
  <2> SUFFICES ASSUME TimeInv, [TimeNext]_timeVars PROVE TimeInv'
    OBVIOUS
  <2> USE DEF TimeInv, TimeTypeOK, Labels, Updating, Goto, setup, Lists
  <2>0. NoThread \notin Threads
    BY SMT DEF NoThread, Threads
  <2>1. ASSUME NEW t \in Threads, Activate(t) PROVE TimeInv'
    <3>1. PICK l \in Lists, w \in Waits :
            /\ list_index' = [list_index EXCEPT ![t] = l]
            /\ wait' = [wait EXCEPT ![t] = w]
            /\ IF sync = "none" THEN UNCHANGED lock
               ELSE lock[l] = NoThread /\ lock' = [lock EXCEPT ![l] = t]
      BY <2>1 DEF Activate
    <3>2. l \in Nat /\ w \in Nat
      BY SMT DEF Lists
    <3>3. TimeTypeOK'
      BY <2>1, <3>1, <3>2, SMTT(30) DEF Activate
    <3>4. sync # "none" => \A u \in Threads, k \in Lists :
            lock'[k] = u <=> Updating(u)' /\ list_index'[u] = k
      BY <2>0, <2>1, <3>1 DEF Activate
    <3> QED BY <2>1, <3>1, <3>3, <3>4, SMTT(30) DEF Activate
  <2>2. ASSUME NEW t \in Threads, LoadTime(t) PROVE TimeInv'
    BY <2>2 DEF LoadTime
  <2>3. ASSUME NEW t \in Threads, StoreTime(t) PROVE TimeInv'
    <3>1. /\ lock_time \in Nat /\ waited \in Nat /\ wait[t] \in Nat /\ reg[t] \in Nat
          /\ reg[t] <= waited
      BY <2>3 DEF StoreTime
    <3>2. /\ reg[t] + wait[t] \in Nat /\ waited + wait[t] \in Nat
          /\ reg[t] + wait[t] <= waited + wait[t]
          /\ waited <= waited + wait[t]
      BY <3>1, SMT
    <3>3. lock_time' <= waited' /\ lock_time' \in Nat /\ waited' \in Nat /\ waited <= waited'
      BY <2>3, <3>2 DEF StoreTime
    <3>4. TimeTypeOK'
      BY <2>3, <3>3 DEF StoreTime
    <3>5. \A u \in Threads : pc'[u] = "store" => reg'[u] <= waited'
      BY <2>3, <3>3, SMT DEF StoreTime
    <3>6. num_lists = 1 /\ sync # "none" =>
            /\ lock_time' = waited'
            /\ \A u \in Threads : pc'[u] # "store"
      BY <2>3, OneAtATime DEF StoreTime
    <3>7. sync # "none" => \A u \in Threads, k \in Lists :
            lock'[k] = u <=> Updating(u)' /\ list_index'[u] = k
      BY <2>3, SMTT(30) DEF StoreTime
    <3> QED BY <2>3, <3>3, <3>4, <3>5, <3>6, <3>7, SMTT(30) DEF StoreTime
  <2>4. ASSUME NEW t \in Threads, Deactivate(t) PROVE TimeInv'
    <3>1. turns[t] + 1 \in 0..NumTurns
      BY <2>4, SMT DEF Deactivate
    <3> QED BY <2>0, <2>4, <3>1, SMTT(30) DEF Deactivate
  <2>5. CASE UNCHANGED timeVars
    BY <2>5 DEF timeVars
  <2> QED BY <2>1, <2>2, <2>3, <2>4, <2>5 DEF TimeNext, Finished
<1> QED BY <1>1, <1>2, PTL DEF TimeSpec

(* lock_time never exceeds the time waited, with or without locks.         *)
THEOREM TimeNeverOverstated == TimeSpec => []NeverOverstated
<1>1. TimeInv => NeverOverstated
  BY DEF TimeInv, NeverOverstated
<1> QED BY TimeInductive, <1>1, PTL

(* With one sublist and a lock, lock_time is exactly the time waited.      *)
THEOREM TimeExactForOneList == TimeSpec => []ExactForOneList
<1>1. TimeInv => ExactForOneList
  BY DEF TimeInv, ExactForOneList
<1> QED BY TimeInductive, <1>1, PTL

=============================================================================
