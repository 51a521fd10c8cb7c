------------------------------ MODULE SortedList ------------------------------
(***************************************************************************)
(* SortedList.c of lab2b, and of lab2a where SelfLoopCheck is FALSE: the   *)
(* operations on circular doubly linked lists, taken apart into single     *)
(* accesses to shared memory.  The programs are built without -O, so each  *)
(* C statement reads and writes memory in the order it says (for           *)
(*   element->prev->next = element->next   first prev, then next is read); *)
(* x86 store buffers, which only an unsynchronised run could tell from     *)
(* interleaving, are left out.  sched_yield() adds no behaviour.           *)
(*                                                                         *)
(* A process runs an operation by going to the label of its name; when it  *)
(* returns the process is at "done", or at "failed" after a delete(NULL).  *)
(***************************************************************************)
EXTENDS Integers, FiniteSets

CONSTANTS
  Procs,         \* the threads, and main()
  ListElements,  \* list_elements: pairs of naturals
  HeadIds,       \* the list heads that exist
  SelfLoopCheck, \* whether the code is lab2b's, with its "curr->next == curr"
  CountCap       \* bound of the model: a count that goes on for ever stops here,
                 \* above that of any sound list

ASSUME SortedListAssumption ==
  /\ ListElements \subseteq Nat \X Nat /\ IsFiniteSet(ListElements)
  /\ HeadIds \subseteq Nat
  /\ SelfLoopCheck \in BOOLEAN
  /\ CountCap \in Nat /\ CountCap >= Cardinality(ListElements)

VARIABLES
  mem,    \* the next and prev pointers of every node
  key,    \* rank of the key of every element under strcmp()
  th,     \* pc and local variables of every process
  outcome \* how the process ended, or "running"

Null    == <<-1, -1>>
Head(l) == <<-1, l>>
Heads   == {Head(l) : l \in HeadIds}
Nodes   == Heads \cup ListElements

(* The random keys are a permutation of 0, 1, ...                          *)
Keys ==
  {k \in [ListElements -> 0..(Cardinality(ListElements) - 1)] :
     \A e, f \in ListElements : k[e] = k[f] => e = f}

(* Every list is empty, the elements are not linked.                       *)
InitMem ==
  [q \in Nodes |-> IF q \in Heads THEN [next |-> q, prev |-> q]
                   ELSE [next |-> Null, prev |-> Null]]

Idle(label) ==
  [pc |-> label, list |-> Null, elem |-> Null, curr |-> Null, tmp |-> Null,
   val |-> Null, count |-> 0]

On(p, label) == outcome = "running" /\ th[p].pc = label

(* The fields of new, and those of old that new has not.  (This is @@ of   *)
(* TLC, which the provers do not expand.)                                  *)
Over(new, old) ==
  [f \in DOMAIN new \cup DOMAIN old |-> IF f \in DOMAIN new THEN new[f] ELSE old[f]]

Set(p, new) == th' = [th EXCEPT ![p] = Over(new, th[p])]

-----------------------------------------------------------------------------

(* The straight-line code of the operations.  label |-> <<p, f, r, next>>  *)
(* is r = p->f in Loads, and p->f = r in Stores, followed by label next.   *)
InsertLoads ==
  [first  |-> <<"list", "next", "curr", "walk">>,
   walkOn |-> <<"curr", "next", "curr", "walk">>,
   link1  |-> <<"curr", "prev", "tmp", "link2">>,
   link3  |-> <<"curr", "prev", "tmp", "link4">>]

(* Mutant: the back link of the successor is forgotten.                    *)
InsertStoresNoBack ==
  [only1 |-> <<"list", "next", "elem", "only2">>,
   only2 |-> <<"list", "prev", "elem", "only3">>,
   only3 |-> <<"elem", "prev", "list", "only4">>,
   only4 |-> <<"elem", "next", "list", "done">>,
   link2 |-> <<"tmp", "next", "elem", "link3">>,
   link4 |-> <<"elem", "prev", "tmp", "link6">>,
   link5 |-> <<"curr", "prev", "elem", "link6">>,
   link6 |-> <<"elem", "next", "curr", "done">>]

InsertStores ==
  [only1 |-> <<"list", "next", "elem", "only2">>,
   only2 |-> <<"list", "prev", "elem", "only3">>,
   only3 |-> <<"elem", "prev", "list", "only4">>,
   only4 |-> <<"elem", "next", "list", "done">>,
   link2 |-> <<"tmp", "next", "elem", "link3">>,
   link4 |-> <<"elem", "prev", "tmp", "link5">>,
   link5 |-> <<"curr", "prev", "elem", "link6">>,
   link6 |-> <<"elem", "next", "curr", "done">>]

DeleteLoads ==
  [unlink1 |-> <<"elem", "prev", "tmp", "unlink2">>,
   unlink2 |-> <<"elem", "next", "val", "unlink3">>,
   unlink4 |-> <<"elem", "next", "tmp", "unlink5">>,
   unlink5 |-> <<"elem", "prev", "val", "unlink6">>]

DeleteStores ==
  [unlink3 |-> <<"tmp", "next", "val", "unlink4">>,
   unlink6 |-> <<"tmp", "prev", "val", "done">>]

LookupLoads ==
  [lookup |-> <<"list", "next", "curr", "seek">>,
   seekOn |-> <<"curr", "next", "curr", "seek">>]

LengthLoads ==
  [length  |-> <<"list", "next", "curr", "count">>,
   countOn |-> <<"curr", "next", "curr", "count">>]

Loads  == Over(Over(InsertLoads, DeleteLoads), Over(LookupLoads, LengthLoads))
Stores == Over(InsertStores, DeleteStores)

Load(p) ==
  /\ outcome = "running" /\ th[p].pc \in DOMAIN Loads
  /\ LET code == Loads[th[p].pc]
         base == th[p][code[1]]
     IN  /\ base # Null
         /\ Set(p, [v \in {code[3], "pc"} |->
                      IF v = "pc" THEN code[4] ELSE mem[base][code[2]]])
  /\ UNCHANGED <<mem, outcome>>

Store(p) ==
  /\ outcome = "running" /\ th[p].pc \in DOMAIN Stores
  /\ LET code == Stores[th[p].pc]
         base == th[p][code[1]]
     IN  /\ base # Null
         /\ mem' = [mem EXCEPT ![base][code[2]] = th[p][code[3]]]
         /\ Set(p, [pc |-> code[4]])
  /\ UNCHANGED outcome

-----------------------------------------------------------------------------

(* The branches of the operations.                                         *)

IsHead(q) == q \in Heads

SelfLoop(q) == SelfLoopCheck /\ mem[q].next = q

(* insert: an empty list, both pointers of whose head point to itself, is  *)
(* linked at once.                                                         *)
TestEmpty(p) ==
  /\ \/ On(p, "insert") /\ LET l == th[p].list IN
          Set(p, [pc |-> IF mem[l].next = l THEN "insertPrev" ELSE "first"])
     \/ On(p, "insertPrev") /\ LET l == th[p].list IN
          Set(p, [pc |-> IF mem[l].prev = l THEN "only1" ELSE "first"])
  /\ UNCHANGED <<mem, outcome>>

(* insert: on to the first node with a key not below that of the element.  *)
Walk(p) ==
  /\ On(p, "walk") /\ th[p].curr # Null
  /\ LET q == th[p].curr IN
       Set(p, [pc |-> IF IsHead(q) THEN "link1"
                      ELSE IF key[q] >= key[th[p].elem] \/ SelfLoop(q) THEN "link1"
                      ELSE "walkOn"])
  /\ UNCHANGED <<mem, outcome>>

(* delete: NULL is refused.                                                *)
TestElement(p) ==
  /\ On(p, "delete")
  /\ Set(p, [pc |-> IF th[p].elem = Null THEN "failed" ELSE "unlink1"])
  /\ UNCHANGED <<mem, outcome>>

(* lookup: elem carries the key that is looked for, and then the result,   *)
(* which every caller hands to delete.                                     *)
Found(p, q) == Set(p, [pc |-> "delete", elem |-> q])

(* Mutant: the search ends at the first key that is not smaller.           *)
SeekNotSmaller(p) ==
  /\ On(p, "seek")
  /\ LET q == th[p].curr IN
       IF SelfLoopCheck /\ (q = Null \/ q = th[p].list) THEN Found(p, Null)
       ELSE /\ q # Null
            /\ IF SelfLoop(q) THEN Found(p, Null)
               ELSE IF IsHead(q) /\ ~SelfLoopCheck THEN Found(p, q)
               ELSE IF ~IsHead(q) /\ key[q] >= key[th[p].elem] THEN Found(p, q)
               ELSE Set(p, [pc |-> "seekOn"])
  /\ UNCHANGED <<mem, outcome>>

(* lab2b gives up at NULL, at the head and at a node that is its own       *)
(* successor; lab2a stops at the head, too, but returns it.                *)
Seek(p) ==
  /\ On(p, "seek")
  /\ LET q == th[p].curr IN
       IF SelfLoopCheck /\ (q = Null \/ q = th[p].list) THEN Found(p, Null)
       ELSE /\ q # Null
            /\ IF SelfLoop(q) THEN Found(p, Null)
               ELSE IF IsHead(q) /\ ~SelfLoopCheck THEN Found(p, q)
               ELSE IF ~IsHead(q) /\ key[q] = key[th[p].elem] THEN Found(p, q)
               ELSE Set(p, [pc |-> "seekOn"])
  /\ UNCHANGED <<mem, outcome>>

(* length: counts up to a head.                                            *)
Count(p) ==
  /\ On(p, "count") /\ th[p].curr # Null
  /\ LET q == th[p].curr IN
       IF IsHead(q) \/ SelfLoop(q) THEN Set(p, [pc |-> "done"])
       ELSE Set(p, [pc |-> "countOn",
                    count |-> IF th[p].count < CountCap THEN th[p].count + 1 ELSE CountCap])
  /\ UNCHANGED <<mem, outcome>>

(* A NULL pointer is followed: signalHandler() exits the program.          *)
FollowsNull(p) ==
  LET at == th[p].pc IN
    \/ at \in DOMAIN Loads /\ th[p][Loads[at][1]] = Null
    \/ at \in DOMAIN Stores /\ th[p][Stores[at][1]] = Null
    \/ at \in {"walk", "count"} /\ th[p].curr = Null
    \/ at = "seek" /\ th[p].curr = Null /\ ~SelfLoopCheck

SegFault(p) ==
  /\ outcome = "running" /\ FollowsNull(p)
  /\ outcome' = "segfault"
  /\ UNCHANGED <<mem, th>>

Operate(p) ==
  \/ Load(p) \/ Store(p) \/ TestEmpty(p) \/ Walk(p) \/ TestElement(p)
  \/ Seek(p) \/ Count(p) \/ SegFault(p)

-----------------------------------------------------------------------------

(* Labels of a process that is inside an operation.                        *)
OperationLabels ==
  DOMAIN Loads \cup DOMAIN Stores \cup
  {"insert", "insertPrev", "walk", "delete", "seek", "count"}

InOperation(p) == th[p].pc \in OperationLabels

(* The nodes met from the head of list l along field f in n steps.         *)
Path(l, f, n) ==
  LET at[i \in 0..n] ==
        IF i = 0 THEN Head(l)
        ELSE IF at[i - 1] = Null THEN Null ELSE mem[at[i - 1]][f]
  IN  at

(* The elements met from the head of list l along field f, up to a head.   *)
Chain(l, f) ==
  LET n  == Cardinality(ListElements)
      at == Path(l, f, n)
  IN  {at[i] : i \in {m \in 1..n : \A j \in 1..m : at[j] \in ListElements}}

(* The list of head l is a ring through exactly the elements of a set:     *)
(* forwards it comes back to the head through ascending keys, and every    *)
(* backward pointer undoes a forward one.                                  *)
IsRing(l, elements) ==
  LET n == Cardinality(elements)
      node == Path(l, "next", n + 1)
  IN  /\ {node[i] : i \in 1..n} = elements
      /\ node[n + 1] = Head(l)
      /\ \A i \in 0..n : mem[node[i + 1]].prev = node[i]
      /\ \A i \in 1..(n - 1) : key[node[i]] < key[node[i + 1]]

=============================================================================
