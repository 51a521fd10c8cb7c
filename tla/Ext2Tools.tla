------------------------------- MODULE Ext2Tools -------------------------------
(***************************************************************************)
(* lab3a and then lab3b on its output, for a set of images, sound ones and *)
(* damaged ones.  What is reported is compared with what is wrong with the *)
(* image itself.                                                           *)
(***************************************************************************)
EXTENDS Ext2Summary, Ext2Checker

CONSTANT Images

ToolsInit == img \in Images /\ SummaryInit /\ TablesInit

Ended == scan = "endless" \/ step \in {"done", "crashed"}

ToolsNext ==
  \/ SummaryNext /\ UNCHANGED checkerVars
  \/ scan = "exit" /\ CheckerNext /\ UNCHANGED summaryVars
  \/ Ended /\ UNCHANGED <<csv, summaryVars, checkerVars>>

toolsVars == <<csv, summaryVars, checkerVars>>
ToolsSpec == ToolsInit /\ [][ToolsNext]_toolsVars

-----------------------------------------------------------------------------
(* What an image says, by the layout of ext2 and not by the programs.  The *)
(* blocks before img.firstData hold the metadata: where the inode table    *)
(* ends depends on the image, where lab3b has a constant.                  *)

Metadata == 1..(img.firstData - 1)

InodesInUse == {n \in 1..NumInodes : img.inode[n].type # "-" /\ img.inode[n].links # 0}
Directories == {n \in InodesInUse : img.inode[n].type = "d"}

(* A place for a block number is a path: <<n, k>> is pointer k of inode n, *)
(* <<n, k, i>> word i of the index block that is named there, and so on.   *)
RECURSIVE At(_)
At(p) == IF Len(p) = 2 THEN img.inode[p[1]].ptrs[p[2]]
         ELSE LET b == At(Front(p)) IN IF b < NumBlocks THEN img.words[b][Last(p)] ELSE 0

(* The level of the block named at p: 0 is data.                           *)
Depth(p) == Indirection(p[2]) - (Len(p) - 2)

(* The data blocks below a block of level l, and the place in the file of  *)
(* the first one below p: those of the pointers and words before come      *)
(* first.                                                                  *)
Span(l) == PtrsPerBlock ^ l
RECURSIVE OffsetAt(_)
OffsetAt(p) ==
  IF Len(p) > 2 THEN OffsetAt(Front(p)) + (Last(p) - 1) * Span(Depth(p))
  ELSE MapThenSumSet(LAMBDA k : Span(Indirection(k)), 1..(p[2] - 1))

(* A symbolic link without blocks has its target where the pointers are;   *)
(* devices have their numbers there.                                       *)
HasPointers(n) == \/ img.inode[n].type \in {"f", "d"}
                  \/ img.inode[n].type = "s" /\ img.inode[n].blocks # 0

InodePlaces ==
  {<<n, k>> : n \in {n \in InodesInUse : HasPointers(n)}, k \in Pointers}
InodePointers == {p \in InodePlaces : At(p) # 0}

Below(P) == {Append(p, i) : p \in {p \in P : Depth(p) > 0}, i \in 1..PtrsPerBlock}
WordPointers ==
  LET NonZero(P) == {p \in P : At(p) # 0}
      one == NonZero(Below(InodePointers))
      two == NonZero(Below(one))
  IN  one \cup two \cup NonZero(Below(two))

AllPointers == InodePointers \cup WordPointers
Named == {At(p) : p \in AllPointers}

EntriesOf(d) ==
  UNION {ToSet(img.dir[img.inode[d].ptrs[k]].entries) :
           k \in {k \in 1..NumDirect : img.inode[d].ptrs[k] \in 1..(NumBlocks - 1)}}
Links(n) == MapThenSumSet(LAMBDA d : Cardinality({e \in EntriesOf(d) : e.inode = n}), Directories)

IsParent(d, n) ==
  IF n = 2 THEN d = 2
  ELSE d \in Directories /\ \E e \in EntriesOf(d) : e.inode = n /\ e.name \notin {".", ".."}

(* What is wrong with the image, as far as the pointers P, block numbers   *)
(* above top, the metadata blocks R, the blocks B, the inodes I and the    *)
(* ".." of the directories D are concerned.  An entry of inode 0 is one    *)
(* that is not used, and as such not wrong.                                *)
Wrong(P, top, R, B, I, D) ==
  LET free  == img.freeBlocks
      ifree == img.freeInodes
      Line(kind, p)  == <<kind, Signed(At(p)), p[1], Depth(p), OffsetAt(p)>>
      EntryOf(kind, d, e) == <<kind, d, e.name, Signed(e.inode)>>
      Entries(kind, S, Bad(_, _)) ==
        UNION {{EntryOf(kind, d, e) : e \in {e \in EntriesOf(d) : Bad(d, e)}} : d \in S}
      IsInode(n) == n \in 1..NumInodes
  IN  {<<"UNREFERENCED BLOCK", b>> : b \in (B \ Metadata) \ (free \cup Named)}
        \cup {<<"ALLOCATED BLOCK", b>> : b \in B \cap free \cap Named}
        \cup {Line("DUPLICATE", p) : p \in {p \in P : \E q \in AllPointers : q # p /\ At(q) = At(p)}}
        \cup {Line("INVALID", p) : p \in {p \in P : At(p) > top}}
        \cup {Line("RESERVED", p) : p \in {p \in P : At(p) \in R}}
        \cup {<<"UNALLOCATED INODE", n>> :
                n \in {n \in I : n >= FirstInode} \ (ifree \cup InodesInUse)}
        \cup {<<"ALLOCATED INODE", n>> : n \in I \cap ifree \cap InodesInUse}
        \cup {<<"LINKS", n, Links(n)>> : n \in {n \in InodesInUse : Links(n) # img.inode[n].links}}
        \cup Entries("INVALID INODE", Directories, LAMBDA d, e : e.inode # 0 /\ ~IsInode(e.inode))
        \cup Entries("UNALLOCATED ENTRY", Directories,
                     LAMBDA d, e : IsInode(e.inode) /\ e.inode \notin InodesInUse)
        \cup Entries("DOT", Directories, LAMBDA d, e : e.name = "." /\ e.inode # d)
        \cup Entries("DOT DOT", D, LAMBDA d, e : e.name = ".." /\ ~IsParent(e.inode, d))

AllWrong ==
  Wrong(AllPointers, NumBlocks - 1, Metadata, 1..(NumBlocks - 1), 1..NumInodes, Directories)

(* The blind spots of lab3b are what is missing here: what index blocks    *)
(* name, the number NumBlocks, what its constant takes for metadata or for *)
(* data, the last inode, ".." below the root.                              *)
Looked ==
  Wrong(InodePointers, NumBlocks, Metadata \cap 1..(Reserved - 1), DataBlocks,
        1..(NumInodes - 1), Directories \cap {2})

(* A line about a duplicate gives the offset 0 for every direct pointer.   *)
AsPrinted(line) ==
  IF line[1] = "DUPLICATE" /\ line[4] = 0 THEN [line EXCEPT ![5] = 0] ELSE line

(* The images whose report can be relied on.  In the others an index block *)
(* is looked for outside the image, an inline target is long enough to     *)
(* reach the index pointers (read by lab3a as if it were a file), a target *)
(* has the length at which lab3b does not look for its block, or a         *)
(* directory has entries in use that are not in its first block, the one   *)
(* that lab3a reads (in those of lost+found none is).                      *)
IndexInside == \A p \in AllPointers : Depth(p) > 0 => At(p) < NumBlocks
InlineShort(n)  == HasPointers(n) \/ \A l \in 1..3 : img.inode[n].ptrs[NumDirect + l] = 0
TargetClear(n)  == img.inode[n].type = "s" => (HasPointers(n) <=> img.inode[n].size > InlineSize)
OneDirBlock(n)  ==
  img.inode[n].type = "d" =>
    \A k \in Pointers :
      LET b == img.inode[n].ptrs[k]
          unused == \A e \in ToSet(img.dir[b].entries) : e.inode = 0
      IN  IF k > NumDirect THEN b = 0
          ELSE IF b \in 1..(NumBlocks - 1) THEN k = 1 \/ unused ELSE k # 1 /\ b = 0
Reliable ==
  IndexInside /\ \A n \in InodesInUse : InlineShort(n) /\ TargetClear(n) /\ OneDirBlock(n)

-----------------------------------------------------------------------------
(* Properties.                                                             *)

(* The walk over the index blocks writes one INDIRECT row for every block  *)
(* number in an index block of a file, however often index blocks name     *)
(* each other.  The offset is right where only first words lead (beyond,   *)
(* what the calls below counted is lost, as the offset is passed by        *)
(* value).                                                                 *)
IndexBlocksWalked ==
  scan = "exit" /\ Reliable =>
    LET rows == {i \in 1..Len(csv) : csv[i].row = "INDIRECT"}
        Of(p) == [inode |-> p[1], level |-> Depth(p) + 1, block |-> At(Front(p)), ref |-> At(p)]
        RowOf(i) == [inode |-> csv[i].inode, level |-> csv[i].level, block |-> csv[i].block,
                     ref |-> csv[i].ref]
        Straight(p) == \A j \in 3..Len(p) : p[j] = 1 \/ Indirection(p[2]) - (j - 3) = 1
    IN  /\ Cardinality(rows) = Cardinality(WordPointers)
        /\ \A p \in WordPointers :
             /\ Cardinality({i \in rows : RowOf(i) = Of(p)})
                  = Cardinality({q \in WordPointers : Of(q) = Of(p)})
             /\ Straight(p) =>
                  \E i \in rows : /\ RowOf(i) = Of(p)
                                  /\ csv[i].offset = OffsetAt(p)

(* Every line that is printed is true of the image, with the offset as it  *)
(* is printed: nothing that got between the image and the report (the      *)
(* order of the rows, the tables) makes up an inconsistency.  The false    *)
(* alarms are these: a block number that was printed as negative is called *)
(* RESERVED as well as INVALID; where the metadata does not end at the     *)
(* constant of lab3b, a metadata block behind it is UNREFERENCED and a     *)
(* data block below it RESERVED; an entry that is not used is INVALID.     *)
OnlyKnownFalseAlarms ==
  step = "done" /\ Reliable =>
    \A line \in report \ {AsPrinted(l) : l \in AllWrong} :
      \/ line[1] = "RESERVED" /\ (line[2] < 0 \/ line[2] \in img.firstData..(Reserved - 1))
      \/ line[1] = "UNREFERENCED BLOCK" /\ line[2] \in Reserved..(img.firstData - 1)
      \/ line[1] = "INVALID INODE" /\ line[4] = 0

(* Whatever is wrong with an image is printed, unless it is in one of the  *)
(* blind spots; but a large block number is negative in an INODE row and   *)
(* not in an INDIRECT row, and such a pair is not seen to be one.  An      *)
(* index pointer that leads out of the image, where lab3a goes on with     *)
(* whatever its variable held, is not passed over: the exit status tells.  *)
(* The exit status is always that of the lines printed.                    *)
FlawsReported ==
  step = "done" =>
    /\ ExitStatus
    /\ Reliable => \A line \in {AsPrinted(l) : l \in Looked} \ report :
                     line[1] = "DUPLICATE" /\ line[2] < 0
    /\ \A p \in InodePointers :
         Depth(p) > 0 /\ At(p) > NumBlocks /\ TargetClear(p[1]) => flaws

=============================================================================
