-------------------------------- MODULE MCExt2 --------------------------------
(***************************************************************************)
(* Images of 9 blocks and 5 inodes, two direct pointers to an inode and    *)
(* two block numbers to an index block.  Blocks 0 to 2 are the boot block  *)
(* and the metadata, as lab3b has it, in all images but two.               *)
(***************************************************************************)
EXTENDS Ext2Tools

Far == 25  \* is read as block 9, outside the image, and printed as -7

FileInode(type, links, size, blocks, ptrs) ==
  [type |-> type, links |-> links, size |-> size, blocks |-> blocks, ptrs |-> ptrs]
NoInode == FileInode("-", 0, 0, 0, <<0, 0, 0, 0, 0>>)

Entry(name, n) == [name |-> name, inode |-> n]
DirBlock(d, parent, others) ==
  [entries |-> <<Entry(".", d), Entry("..", parent)>> \o others, closes |-> TRUE]
Zeros == [entries |-> <<>>, closes |-> FALSE]

(* Block 1 starts with the numbers of inodes and blocks, a directory block *)
(* with an inode number, a length and a character.                         *)
Image(firstData, freeBlocks, freeInodes, inodes, words, dirs) ==
  [firstData |-> firstData, freeBlocks |-> freeBlocks, freeInodes |-> freeInodes, inode |-> inodes,
   words |-> [b \in 0..(NumBlocks - 1) |->
                IF b \in DOMAIN words THEN words[b]
                ELSE IF b = 1 THEN <<NumInodes, NumBlocks>>
                ELSE IF b \in DOMAIN dirs THEN <<dirs[b].entries[1].inode, Far>>
                ELSE <<0, 0>>],
   dir |-> [b \in 0..(NumBlocks - 1) |-> IF b \in DOMAIN dirs THEN dirs[b] ELSE Zeros]]

(* A subdirectory, and a file with two links and an index block.           *)
Tree ==
  Image(3, {8}, {5},
        <<NoInode,
          FileInode("d", 3, 1, 2, <<3, 0, 0, 0, 0>>),
          FileInode("f", 2, 3, 6, <<4, 0, 5, 0, 0>>),
          FileInode("d", 2, 1, 2, <<7, 0, 0, 0, 0>>),
          NoInode>>,
        5 :> <<0, 6>>,
        3 :> DirBlock(2, 2, <<Entry("file", 3), Entry("sub", 4)>>)
          @@ 7 :> DirBlock(4, 2, <<Entry("link", 3)>>))

(* A sparse file with a tree of three levels, a device, and a symbolic     *)
(* link whose target is in the inode.                                      *)
Triple ==
  Image(3, {}, {},
        <<NoInode,
          FileInode("d", 2, 1, 2, <<3, 0, 0, 0, 0>>),
          FileInode("f", 1, 9, 10, <<0, 0, 0, 0, 4>>),
          FileInode("s", 1, 10, 0, <<Far, 0, 0, 0, 0>>),
          FileInode("?", 1, 0, 0, <<3, 0, 0, 0, 0>>)>>,
        4 :> <<5, 0>> @@ 5 :> <<6, 0>> @@ 6 :> <<7, 8>>,
        3 :> DirBlock(2, 2, <<Entry("file", 3), Entry("link", 4), Entry("dev", 5)>>))

(* A tree of two levels, a symbolic link with a block, and a file that was *)
(* deleted but has its i_mode still.                                       *)
Double ==
  Image(3, {}, {5},
        <<NoInode,
          FileInode("d", 2, 1, 2, <<3, 0, 0, 0, 0>>),
          FileInode("f", 1, 9, 10, <<0, 0, 0, 4, 0>>),
          FileInode("s", 1, 61, 2, <<8, 0, 0, 0, 0>>),
          FileInode("f", 0, 1, 2, <<7, 0, 0, 0, 0>>)>>,
        4 :> <<5, 6>> @@ 5 :> <<7, 0>>,
        3 :> DirBlock(2, 2, <<Entry("file", 3), Entry("link", 4)>>))

(* The metadata takes one block more.  A second directory has two blocks,  *)
(* like lost+found, the second one without an entry that is used; in its   *)
(* first one an entry was deleted.                                         *)
Wide ==
  Image(4, {8}, {5},
        <<NoInode,
          FileInode("d", 3, 1, 2, <<4, 0, 0, 0, 0>>),
          FileInode("f", 1, 1, 2, <<5, 0, 0, 0, 0>>),
          FileInode("d", 2, 2, 4, <<6, 7, 0, 0, 0>>),
          NoInode>>,
        [b \in {} |-> <<>>],
        4 :> DirBlock(2, 2, <<Entry("file", 3), Entry("lost+found", 4)>>)
          @@ 6 :> DirBlock(4, 2, <<Entry("old", 0)>>)
          @@ 7 :> [entries |-> <<Entry("", 0)>>, closes |-> TRUE])

(* The metadata takes one block less; data starts with the root directory. *)
Narrow ==
  Image(2, {7, 8}, {5},
        <<NoInode,
          FileInode("d", 2, 1, 2, <<2, 0, 0, 0, 0>>),
          FileInode("f", 1, 3, 8, <<3, 4, 5, 0, 0>>),
          NoInode, NoInode>>,
        5 :> <<6, 0>>,
        2 :> DirBlock(2, 2, <<Entry("file", 3)>>))

Bases == {Tree, Triple, Double, Wide, Narrow}

-----------------------------------------------------------------------------
(* Damage: one field of an image holds another value.                      *)

Numbers == {0, 1, 3, 4, 5, 7, 8, 9, 10, Far}

Flip(S, x) == IF x \in S THEN S \ {x} ELSE S \cup {x}

InUse(g) == {n \in 1..NumInodes : g.inode[n].links # 0}
IndexBlocksOf(g) == {b \in 4..6 : g.words[b] # <<0, 0>> /\ g.dir[b] = Zeros}
DirBlocksOf(g)   == {b \in 1..(NumBlocks - 1) : g.dir[b] # Zeros}

Damaged(g) ==
  {[g EXCEPT !.freeBlocks = Flip(@, b)] : b \in 1..NumBlocks}
    \cup {[g EXCEPT !.freeInodes = Flip(@, n)] : n \in 1..NumInodes}
    \cup {[g EXCEPT !.inode[n].ptrs[k] = b] : n \in InUse(g), k \in Pointers, b \in Numbers}
    \cup {[g EXCEPT !.words[b][i] = c] : b \in IndexBlocksOf(g), i \in 1..PtrsPerBlock, c \in Numbers}
    \cup {[g EXCEPT !.inode[n].links = l] : n \in InUse(g), l \in 0..3}
    \cup {[g EXCEPT !.inode[n].size = s] : n \in {n \in InUse(g) : g.inode[n].type = "s"},
                                           s \in {InlineSize, InlineSize + 1}}
    \cup {[g EXCEPT !.inode[n].type = "-"] : n \in InUse(g)}
    \cup UNION {{[g EXCEPT !.dir[b].entries[i].inode = n] :
                   i \in 1..Len(g.dir[b].entries), n \in {0, 2, 3, 5, 6, Far}} : b \in DirBlocksOf(g)}

(* Damage to the block numbers that a file with one index block uses; two  *)
(* at once, as two pointers make a duplicate.                              *)
FileDamaged(g) ==
  {[g EXCEPT !.inode[3].ptrs[k] = b] : k \in 1..(NumDirect + 1), b \in Numbers}
    \cup {[g EXCEPT !.words[5][i] = b] : i \in 1..PtrsPerBlock, b \in Numbers}

MCImages == Bases \cup UNION {Damaged(g) : g \in Bases}
                  \cup UNION {FileDamaged(g) : g \in FileDamaged(Tree)}

=============================================================================
