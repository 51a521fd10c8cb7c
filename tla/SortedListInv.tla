----------------------------- MODULE SortedListInv -----------------------------
(***************************************************************************)
(* What holds of a list between any two accesses of the process that has   *)
(* it to itself: the invariant from which the proofs about Lab2aList and   *)
(* Lab2bList are made.  S is the set of elements in the list, where an     *)
(* insertion counts from the store that makes the element the end of a     *)
(* backward pointer, and a deletion from the store that unmakes it.        *)
(***************************************************************************)
EXTENDS SortedList

Fields == {"next", "prev"}
Values == Nodes \cup {Null}

(* The local variables that hold a node, and the labels at which no        *)
(* operation is going on.                                                  *)
Registers  == {"list", "elem", "curr", "tmp", "val"}
IdleLabels == {"unborn", "loop", "lock", "unlock", "returned"}

MemInv == mem \in [Nodes -> [Fields -> Values]]

RegisterInv ==
  /\ DOMAIN th = Procs
  /\ \A p \in Procs :
       /\ {"pc", "count"} \subseteq DOMAIN th[p]
       /\ th[p].count \in Nat
       /\ \A v \in Registers : v \in DOMAIN th[p] /\ th[p][v] \in Values
       /\ th[p].pc \in IdleLabels =>
            th[p].count = 0 /\ \A v \in Registers : th[p][v] = Null

-----------------------------------------------------------------------------
(* Rings, link by link.                                                    *)

RingNodes(l, S) == S \cup {Head(l)}

(* The elements that have a key, and no two of them the same.              *)
Keyed     == {e \in ListElements : key[e] \in Nat}
KeysApart == \A e, f \in Keyed : key[e] = key[f] => e = f

(* Element e of list l comes behind node q, or ahead of it.  All elements  *)
(* come behind the head, and ahead of it.                                  *)
Behind(l, q, e) == q = Head(l) \/ key[q] < key[e]
Ahead(l, e, q)  == q = Head(l) \/ key[e] < key[q]

(* In the ring through S node n follows node q.                            *)
Adjacent(l, S, q, n) ==
  /\ q \in RingNodes(l, S) /\ n \in RingNodes(l, S)
  /\ q # Head(l) /\ n # Head(l) => key[q] < key[n]
  /\ \A e \in S : ~(Behind(l, q, e) /\ Ahead(l, e, n))

NextLinks(l, S, from) == \A q \in from : Adjacent(l, S, q, mem[q].next)
PrevLinks(l, S, from) == \A q \in from : Adjacent(l, S, mem[q].prev, q)

Ring(l, S) ==
  NextLinks(l, S, RingNodes(l, S)) /\ PrevLinks(l, S, RingNodes(l, S))

(* All of S that is ahead of q is ahead of x, too.                         *)
PassedBy(l, S, x, q) == \A e \in S : Ahead(l, e, q) => key[e] < key[x]

(* x belongs between the neighbours q and n.                               *)
Between(l, S, q, x, n) ==
  Adjacent(l, S, q, n) /\ Behind(l, q, x) /\ Ahead(l, x, n)

-----------------------------------------------------------------------------
(* A process inside an operation on a list that no other process changes.  *)

FindLabels   == {"insert", "insertPrev", "first", "walk", "walkOn", "link1"}
LinkLabels   == {"link2", "link3", "link4", "link5"}
OnlyLabels   == {"only1", "only2", "only3", "only4"}
InsertLabels == FindLabels \cup LinkLabels \cup OnlyLabels \cup {"link6"}
LookupLabels == {"lookup", "seek", "seekOn", "delete"}
UnlinkLabels == {"unlink1", "unlink2", "unlink3", "unlink4", "unlink5", "unlink6"}
LengthLabels == {"length", "count", "countOn"}

(* Where the ring is whole.                                                *)
WholeLabels ==
  FindLabels \cup {"only1", "link2", "unlink1", "unlink2", "unlink3", "done"}
    \cup LookupLabels \cup LengthLabels

(* The element is not in the list yet.                                     *)
OutsideLabels == FindLabels \cup LinkLabels \cup {"only1", "only2"}

InsertInv(p, l, S) ==
  LET at   == th[p].pc
      x    == th[p].elem
      curr == th[p].curr
      tmp  == th[p].tmp
      h    == Head(l)
  IN
  /\ at \in OutsideLabels => x \in Keyed \ S
  /\ at \in OutsideLabels \ {"link5"} => mem[x].prev = Null
  /\ at = "insertPrev" => mem[h].next = h
  /\ at \in {"only1", "only2"} => S = {}
  /\ at = "only2" => mem[h].next = x /\ mem[h].prev = h
  /\ at \in {"only3", "only4"} =>
       x \in Keyed /\ S = {x} /\ mem[h].next = x /\ mem[h].prev = x
  /\ at = "only3" => mem[x].prev = Null
  /\ at = "only4" => mem[x].prev = h
  /\ at \in {"walk", "walkOn", "link1"} =>
       curr \in RingNodes(l, S) /\ PassedBy(l, S, x, curr)
  /\ at = "walkOn" => curr \in S /\ key[curr] < key[x]
  /\ at = "link1" => Ahead(l, x, curr)
  /\ at \in LinkLabels => Between(l, S, tmp, x, curr)
  /\ at \in {"link3", "link4", "link5"} =>
       /\ NextLinks(l, S \cup {x}, RingNodes(l, S))
       /\ PrevLinks(l, S, RingNodes(l, S))
  /\ at = "link5" => mem[x].prev = tmp
  /\ at = "link6" =>
       /\ x \in S /\ Adjacent(l, S, x, curr)
       /\ NextLinks(l, S, RingNodes(l, S) \ {x})
       /\ PrevLinks(l, S, RingNodes(l, S))

DeleteInv(p, l, S) ==
  LET at   == th[p].pc
      x    == th[p].elem
      curr == th[p].curr
  IN
  /\ at \in LookupLabels \cup UnlinkLabels => x \in S
  /\ at \in {"seek", "seekOn"} => curr \in RingNodes(l, S) /\ PassedBy(l, S, x, curr)
  /\ at = "seekOn" => curr \in S /\ key[curr] < key[x]
  /\ at \in {"unlink2", "unlink3"} => th[p].tmp = mem[x].prev
  /\ at = "unlink3" => th[p].val = mem[x].next
  /\ at \in {"unlink4", "unlink5", "unlink6"} =>
       /\ NextLinks(l, S \ {x}, RingNodes(l, S) \ {x})
       /\ PrevLinks(l, S, RingNodes(l, S))
       /\ Adjacent(l, S, x, mem[x].next)
  /\ at \in {"unlink5", "unlink6"} => th[p].tmp = mem[x].next
  /\ at = "unlink6" => th[p].val = mem[x].prev

LengthInv(p, l, S) ==
  LET at    == th[p].pc
      curr  == th[p].curr
      ahead == {e \in S : Ahead(l, e, curr)}
  IN
  /\ at = "count" => curr \in RingNodes(l, S) /\ th[p].count = Cardinality(ahead)
  /\ at = "countOn" => curr \in S /\ th[p].count = Cardinality(ahead) + 1
  /\ at \notin {"count", "countOn", "done"} => th[p].count = 0

Inside(p, l, S) ==
  /\ th[p].list = Head(l)
  /\ th[p].pc \in InsertLabels \cup LookupLabels \cup UnlinkLabels \cup LengthLabels
                  \cup {"done"}
  /\ th[p].pc \in WholeLabels => Ring(l, S)
  /\ InsertInv(p, l, S)
  /\ DeleteInv(p, l, S)
  /\ LengthInv(p, l, S)

(* Labels of an operation that has changed the list, or counted it, and    *)
(* the elements after the next step of p.                                  *)
MadeLabels == {"only3", "only4", "link6", "done"}

After(p, S) ==
  LET at == th[p].pc
      x  == th[p].elem
  IN  IF at \in {"only2", "link5"} THEN S \cup {x}
      ELSE IF at = "unlink6" THEN S \ {x} ELSE S

=============================================================================
