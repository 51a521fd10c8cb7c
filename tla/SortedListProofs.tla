---------------------------- MODULE SortedListProofs ----------------------------
(***************************************************************************)
(* What the operations of SortedList.c do to a list that one process has   *)
(* to itself, for lists of any length: every store leaves the ring as the  *)
(* next access needs it, NULL is never followed, and the elements change   *)
(* by one store.  Lab2aListProofs and Lab2bListProofs build on it.         *)
(***************************************************************************)
EXTENDS SortedListInv, FiniteSetTheorems, TLAPS

-----------------------------------------------------------------------------
(* Induction, from the well-founded order of the finite sets of naturals:  *)
(* of the intervals 0..m with m in T one contains no other.                *)

LEMMA Least ==
  ASSUME NEW T \in SUBSET Nat, T # {}
  PROVE  \E m \in T : \A k \in T : m <= k
<1> DEFINE R == StrictSubsetOrdering(Nat)
           U == {0..m : m \in T}
<1>1. \A m \in T : 0..m \in FiniteSubsetsOf(Nat)
  BY FS_Interval DEF FiniteSubsetsOf
<1>2. U \subseteq FiniteSubsetsOf(Nat) /\ U # {}
  BY <1>1
<1>3. IsWellFoundedOn(R, FiniteSubsetsOf(Nat))
  BY FS_StrictSubsetOrderingWellFounded
<1> HIDE DEF R
<1>4. PICK x \in U : \A y \in U : ~ (<<y, x>> \in R)
  BY <1>2, <1>3, WFMin
<1>5. PICK m \in T : x = 0..m
  BY <1>4
<1>6. ASSUME NEW k \in T, k < m PROVE FALSE
  <2>1. (0..k) \subseteq (0..m) /\ (0..k) # (0..m)
    BY <1>6
  <2>2. <<0..k, 0..m>> \in R
    BY <2>1 DEF R, StrictSubsetOrdering
  <2> QED BY <1>4, <1>5, <2>2
<1> QED BY <1>6

LEMMA Induction ==
  ASSUME NEW T, 0 \in T, \A n \in Nat : n \in T => n + 1 \in T
  PROVE  \A n \in Nat : n \in T
<1> SUFFICES ASSUME {n \in Nat : n \notin T} # {} PROVE FALSE
  OBVIOUS
<1>1. PICK m \in {n \in Nat : n \notin T} : \A k \in {n \in Nat : n \notin T} : m <= k
  BY Least
<1>2. m # 0 /\ m - 1 \in Nat /\ m - 1 \notin {n \in Nat : n \notin T}
  BY <1>1
<1> QED BY <1>1, <1>2

(* A walk of n steps exists, so Path(l, f, n) is one.                      *)
IsPath(g, l, f, n) ==
  g = [i \in 0..n |-> IF i = 0 THEN Head(l)
                      ELSE IF g[i - 1] = Null THEN Null ELSE mem[g[i - 1]][f]]

LEMMA PathExists ==
  ASSUME NEW l, NEW f
  PROVE  \A n \in Nat : \E g : IsPath(g, l, f, n)
<1> DEFINE T == {n \in Nat : \E g : IsPath(g, l, f, n)}
<1>1. 0 \in T
  <2> DEFINE h == [i \in 0..0 |-> Head(l)]
  <2>1. h = [i \in 0..0 |-> IF i = 0 THEN Head(l)
                            ELSE IF h[i - 1] = Null THEN Null ELSE mem[h[i - 1]][f]]
    OBVIOUS
  <2> HIDE DEF h
  <2>2. IsPath(h, l, f, 0)
    BY <2>1 DEF IsPath
  <2> QED BY <2>2
<1>2. ASSUME NEW m \in Nat, m \in T PROVE m + 1 \in T
  <2>1. PICK g : IsPath(g, l, f, m)
    BY <1>2
  <2> DEFINE next(q) == IF q = Null THEN Null ELSE mem[q][f]
             h == [i \in 0..(m + 1) |-> IF i = m + 1 THEN next(g[m]) ELSE g[i]]
  <2>2. \A i \in 0..m : g[i] = IF i = 0 THEN Head(l) ELSE next(g[i - 1])
    BY <2>1 DEF IsPath
  <2> HIDE DEF next
  <2>3. \A i \in 0..(m + 1) : h[i] = IF i = 0 THEN Head(l) ELSE next(h[i - 1])
    <3> SUFFICES ASSUME NEW i \in 0..(m + 1)
                 PROVE  h[i] = IF i = 0 THEN Head(l) ELSE next(h[i - 1])
      OBVIOUS
    <3>1. CASE i = 0
      BY <2>2, <3>1
    <3>2. CASE i = m + 1
      <4>1. h[i] = next(g[m]) /\ h[i - 1] = g[m]
        BY <3>2
      <4> QED BY <3>2, <4>1
    <3>3. CASE i # 0 /\ i # m + 1
      <4>1. i \in 0..m /\ h[i] = g[i] /\ h[i - 1] = g[i - 1]
        BY <3>3
      <4> QED BY <2>2, <3>3, <4>1
    <3> QED BY <3>1, <3>2, <3>3
  <2>4. h = [i \in 0..(m + 1) |-> h[i]]
    OBVIOUS
  <2> HIDE DEF h
  <2>5. h = [i \in 0..(m + 1) |-> IF i = 0 THEN Head(l) ELSE next(h[i - 1])]
    BY <2>3, <2>4
  <2>6. IsPath(h, l, f, m + 1)
    BY <2>5 DEF IsPath, next
  <2> QED BY <2>6
<1> HIDE DEF T
<1>3. \A n \in Nat : n \in T
  BY <1>1, <1>2, Induction
<1> QED BY <1>3 DEF T

LEMMA PathSteps ==
  ASSUME NEW l, NEW f, NEW n \in Nat
  PROVE  /\ Path(l, f, n)[0] = Head(l)
         /\ \A i \in 1..n : Path(l, f, n)[i] =
              IF Path(l, f, n)[i - 1] = Null THEN Null ELSE mem[Path(l, f, n)[i - 1]][f]
<1> DEFINE at == Path(l, f, n)
<1>1. at = CHOOSE g : IsPath(g, l, f, n)
  BY DEF Path, IsPath
<1>2. \E g : IsPath(g, l, f, n)
  BY PathExists
<1> HIDE DEF at
<1>3. IsPath(at, l, f, n)
  BY <1>1, <1>2
<1>4. at = [i \in 0..n |-> IF i = 0 THEN Head(l)
                           ELSE IF at[i - 1] = Null THEN Null ELSE mem[at[i - 1]][f]]
  BY <1>3 DEF IsPath
<1>5. \A i \in 0..n : at[i] = IF i = 0 THEN Head(l)
                           ELSE IF at[i - 1] = Null THEN Null ELSE mem[at[i - 1]][f]
  BY <1>4
<1>6. at[0] = Head(l) /\ \A i \in 1..n : at[i] = IF at[i - 1] = Null THEN Null ELSE mem[at[i - 1]][f]
  BY <1>5
<1> QED BY <1>6 DEF at

-----------------------------------------------------------------------------
(* The tables of straight-line code.                                       *)

LEMMA LoadTable ==
  /\ DOMAIN Loads = {"first", "walkOn", "link1", "link3", "unlink1", "unlink2", "unlink4",
                     "unlink5", "lookup", "seekOn", "length", "countOn"}
  /\ Loads["first"]  = <<"list", "next", "curr", "walk">>
  /\ Loads["walkOn"] = <<"curr", "next", "curr", "walk">>
  /\ Loads["link1"]  = <<"curr", "prev", "tmp", "link2">>
  /\ Loads["link3"]  = <<"curr", "prev", "tmp", "link4">>
  /\ Loads["unlink1"] = <<"elem", "prev", "tmp", "unlink2">>
  /\ Loads["unlink2"] = <<"elem", "next", "val", "unlink3">>
  /\ Loads["unlink4"] = <<"elem", "next", "tmp", "unlink5">>
  /\ Loads["unlink5"] = <<"elem", "prev", "val", "unlink6">>
  /\ Loads["lookup"] = <<"list", "next", "curr", "seek">>
  /\ Loads["seekOn"] = <<"curr", "next", "curr", "seek">>
  /\ Loads["length"] = <<"list", "next", "curr", "count">>
  /\ Loads["countOn"] = <<"curr", "next", "curr", "count">>
<1>1. DOMAIN InsertLoads = {"first", "walkOn", "link1", "link3"}
  BY DEF InsertLoads
<1>2. DOMAIN DeleteLoads = {"unlink1", "unlink2", "unlink4", "unlink5"}
  BY DEF DeleteLoads
<1>3. DOMAIN LookupLoads = {"lookup", "seekOn"} /\ DOMAIN LengthLoads = {"length", "countOn"}
  BY DEF LookupLoads, LengthLoads
<1>4. \A at \in DOMAIN InsertLoads : at \in DOMAIN Loads /\ Loads[at] = InsertLoads[at]
  BY DEF Loads, Over
<1>5. \A at \in DOMAIN DeleteLoads : at \in DOMAIN Loads /\ Loads[at] = DeleteLoads[at]
  BY <1>1, <1>2 DEF Loads, Over
<1>6. \A at \in DOMAIN LookupLoads : at \in DOMAIN Loads /\ Loads[at] = LookupLoads[at]
  BY <1>1, <1>2, <1>3 DEF Loads, Over
<1>7. \A at \in DOMAIN LengthLoads : at \in DOMAIN Loads /\ Loads[at] = LengthLoads[at]
  BY <1>1, <1>2, <1>3 DEF Loads, Over
<1>8. DOMAIN Loads = (DOMAIN InsertLoads \cup DOMAIN DeleteLoads)
                       \cup (DOMAIN LookupLoads \cup DOMAIN LengthLoads)
  BY DEF Loads, Over
<1>9. /\ Loads["first"]  = <<"list", "next", "curr", "walk">>
      /\ Loads["walkOn"] = <<"curr", "next", "curr", "walk">>
      /\ Loads["link1"]  = <<"curr", "prev", "tmp", "link2">>
      /\ Loads["link3"]  = <<"curr", "prev", "tmp", "link4">>
  BY <1>1, <1>4 DEF InsertLoads
<1>10. /\ Loads["unlink1"] = <<"elem", "prev", "tmp", "unlink2">>
       /\ Loads["unlink2"] = <<"elem", "next", "val", "unlink3">>
       /\ Loads["unlink4"] = <<"elem", "next", "tmp", "unlink5">>
       /\ Loads["unlink5"] = <<"elem", "prev", "val", "unlink6">>
  BY <1>2, <1>5 DEF DeleteLoads
<1>11. /\ Loads["lookup"] = <<"list", "next", "curr", "seek">>
       /\ Loads["seekOn"] = <<"curr", "next", "curr", "seek">>
       /\ Loads["length"] = <<"list", "next", "curr", "count">>
       /\ Loads["countOn"] = <<"curr", "next", "curr", "count">>
  BY <1>3, <1>6, <1>7 DEF LookupLoads, LengthLoads
<1> QED BY <1>1, <1>2, <1>3, <1>8, <1>9, <1>10, <1>11

LEMMA StoreTable ==
  /\ DOMAIN Stores = {"only1", "only2", "only3", "only4", "link2", "link4", "link5", "link6",
                      "unlink3", "unlink6"}
  /\ Stores["only1"] = <<"list", "next", "elem", "only2">>
  /\ Stores["only2"] = <<"list", "prev", "elem", "only3">>
  /\ Stores["only3"] = <<"elem", "prev", "list", "only4">>
  /\ Stores["only4"] = <<"elem", "next", "list", "done">>
  /\ Stores["link2"] = <<"tmp", "next", "elem", "link3">>
  /\ Stores["link4"] = <<"elem", "prev", "tmp", "link5">>
  /\ Stores["link5"] = <<"curr", "prev", "elem", "link6">>
  /\ Stores["link6"] = <<"elem", "next", "curr", "done">>
  /\ Stores["unlink3"] = <<"tmp", "next", "val", "unlink4">>
  /\ Stores["unlink6"] = <<"tmp", "prev", "val", "done">>
<1>1. DOMAIN InsertStores = {"only1", "only2", "only3", "only4", "link2", "link4", "link5", "link6"}
  BY DEF InsertStores
<1>2. DOMAIN DeleteStores = {"unlink3", "unlink6"}
  BY DEF DeleteStores
<1>3. \A at \in DOMAIN InsertStores : Stores[at] = InsertStores[at]
  BY DEF Stores, Over
<1>4. \A at \in DOMAIN DeleteStores : Stores[at] = DeleteStores[at]
  BY <1>1, <1>2 DEF Stores, Over
<1>5. DOMAIN Stores = DOMAIN InsertStores \cup DOMAIN DeleteStores
  BY DEF Stores, Over
<1>6. /\ Stores["only1"] = <<"list", "next", "elem", "only2">>
      /\ Stores["only2"] = <<"list", "prev", "elem", "only3">>
      /\ Stores["only3"] = <<"elem", "prev", "list", "only4">>
      /\ Stores["only4"] = <<"elem", "next", "list", "done">>
      /\ Stores["link2"] = <<"tmp", "next", "elem", "link3">>
      /\ Stores["link4"] = <<"elem", "prev", "tmp", "link5">>
      /\ Stores["link5"] = <<"curr", "prev", "elem", "link6">>
      /\ Stores["link6"] = <<"elem", "next", "curr", "done">>
  BY <1>1, <1>3 DEF InsertStores
<1>7. /\ Stores["unlink3"] = <<"tmp", "next", "val", "unlink4">>
      /\ Stores["unlink6"] = <<"tmp", "prev", "val", "done">>
  BY <1>2, <1>4 DEF DeleteStores
<1> QED BY <1>1, <1>2, <1>5, <1>6, <1>7

LEMMA LoadCode ==
  ASSUME NEW at \in DOMAIN Loads
  PROVE  /\ Loads[at][1] \in Registers /\ Loads[at][2] \in Fields
         /\ Loads[at][3] \in {"curr", "tmp", "val"}
         /\ at \notin IdleLabels /\ Loads[at][4] \notin IdleLabels
BY LoadTable DEF Registers, Fields, IdleLabels

LEMMA StoreCode ==
  ASSUME NEW at \in DOMAIN Stores
  PROVE  /\ Stores[at][1] \in Registers /\ Stores[at][2] \in Fields
         /\ Stores[at][3] \in Registers
         /\ at \notin IdleLabels /\ Stores[at][4] \notin IdleLabels
BY StoreTable DEF Registers, Fields, IdleLabels

(* What an assignment to variables of one process does.                    *)
LEMMA SetEffect ==
  ASSUME DOMAIN th = Procs, NEW p \in Procs, NEW new, Set(p, new)
  PROVE  /\ DOMAIN th' = Procs
         /\ \A q \in Procs : q # p => th'[q] = th[q]
         /\ DOMAIN th'[p] = DOMAIN new \cup DOMAIN th[p]
         /\ \A f \in DOMAIN new : th'[p][f] = new[f]
         /\ \A f \in DOMAIN th[p] : f \notin DOMAIN new => th'[p][f] = th[p][f]
BY DEF Set, Over

(* From one step between operations to another, or from any with all       *)
(* variables reset.                                                        *)
LEMMA SetIdle ==
  ASSUME RegisterInv, NEW p \in Procs, NEW at \in IdleLabels,
         \/ th[p].pc \in IdleLabels /\ Set(p, [pc |-> at])
         \/ Set(p, Idle(at))
  PROVE  /\ RegisterInv' /\ th'[p].pc = at
         /\ \A q \in Procs : q # p => th'[q] = th[q]
<1>1. DOMAIN th = Procs
  BY DEF RegisterInv
<1>2. PICK new : /\ Set(p, new) /\ "pc" \in DOMAIN new /\ new["pc"] = at
                 /\ \/ th[p].pc \in IdleLabels /\ DOMAIN new = {"pc"}
                    \/ /\ Registers \cup {"count"} \subseteq DOMAIN new
                       /\ new["count"] = 0 /\ \A v \in Registers : new[v] = Null
  <2>1. CASE th[p].pc \in IdleLabels /\ Set(p, [pc |-> at])
    BY <2>1
  <2>2. CASE Set(p, Idle(at))
    BY <2>2 DEF Idle, Registers
  <2> QED BY <2>1, <2>2
<1>3. /\ DOMAIN th' = Procs
      /\ \A q \in Procs : q # p => th'[q] = th[q]
      /\ DOMAIN th'[p] = DOMAIN new \cup DOMAIN th[p]
      /\ \A f \in DOMAIN new : th'[p][f] = new[f]
      /\ \A f \in DOMAIN th[p] : f \notin DOMAIN new => th'[p][f] = th[p][f]
  BY <1>1, <1>2, SetEffect
<1>4. /\ {"pc", "count"} \subseteq DOMAIN th'[p] /\ th'[p].count = 0
      /\ \A v \in Registers : v \in DOMAIN th'[p] /\ th'[p][v] = Null
  <2> SUFFICES ASSUME NEW v \in Registers
               PROVE  /\ {"pc", "count"} \subseteq DOMAIN th'[p] /\ th'[p].count = 0
                      /\ v \in DOMAIN th'[p] /\ th'[p][v] = Null
    BY DEF Registers
  <2>1. v # "pc" /\ v # "count"
    BY DEF Registers
  <2> QED BY <1>2, <1>3, <2>1 DEF RegisterInv
<1>5. Null \in Values
  BY DEF Values
<1>6. Values' = Values
  BY DEF Values, Nodes, Heads
<1>7. th'[p].pc = at
  BY <1>2, <1>3
<1>8. ASSUME NEW q \in Procs, q # p
      PROVE  /\ {"pc", "count"} \subseteq DOMAIN th'[q]
             /\ th'[q].count \in Nat
             /\ \A v \in Registers : v \in DOMAIN th'[q] /\ th'[q][v] \in Values
             /\ th'[q].pc \in IdleLabels =>
                  th'[q].count = 0 /\ \A v \in Registers : th'[q][v] = Null
  BY <1>3, <1>8 DEF RegisterInv
<1> QED BY <1>3, <1>4, <1>5, <1>6, <1>7, <1>8 DEF RegisterInv

(* The call of an operation.                                               *)
LEMMA SetCall ==
  ASSUME RegisterInv, NEW p \in Procs, NEW new, Set(p, new), th[p].pc \in IdleLabels,
         \/ DOMAIN new = {"pc", "list"}
         \/ DOMAIN new = {"pc", "list", "elem"} /\ new["elem"] \in Values,
         new["pc"] \notin IdleLabels, new["list"] \in Values
  PROVE  /\ RegisterInv' /\ th'[p].pc = new["pc"] /\ th'[p].list = new["list"]
         /\ "elem" \in DOMAIN new => th'[p].elem = new["elem"]
         /\ th'[p].count = 0
         /\ \A q \in Procs : q # p => th'[q] = th[q]
<1>1. DOMAIN th = Procs /\ th[p].count = 0 /\ "count" \in DOMAIN th[p]
  BY DEF RegisterInv
<1>2. /\ DOMAIN th' = Procs
      /\ \A q \in Procs : q # p => th'[q] = th[q]
      /\ DOMAIN th'[p] = DOMAIN new \cup DOMAIN th[p]
      /\ \A f \in DOMAIN new : th'[p][f] = new[f]
      /\ \A f \in DOMAIN th[p] : f \notin DOMAIN new => th'[p][f] = th[p][f]
  BY <1>1, SetEffect
<1>3. ASSUME NEW v \in Registers
      PROVE  v \in DOMAIN th'[p] /\ th'[p][v] \in Values
  <2>1. v # "pc" /\ v \in DOMAIN th[p] /\ th[p][v] \in Values
    BY DEF Registers, RegisterInv
  <2>2. CASE v \notin DOMAIN new
    BY <1>2, <2>1, <2>2
  <2>3. CASE v \in DOMAIN new
    BY <1>2, <2>1, <2>3
  <2> QED BY <2>2, <2>3
<1>4. /\ th'[p].pc = new["pc"] /\ th'[p].list = new["list"] /\ th'[p].count = 0
      /\ "elem" \in DOMAIN new => th'[p].elem = new["elem"]
  BY <1>1, <1>2
<1>5. {"pc", "count"} \subseteq DOMAIN th'[p]
  BY <1>1, <1>2
<1>6. RegisterInv'
  <2>1. Values' = Values
    BY DEF Values, Nodes, Heads
  <2>2. ASSUME NEW q \in Procs
        PROVE  /\ {"pc", "count"} \subseteq DOMAIN th'[q]
               /\ th'[q].count \in Nat
               /\ \A v \in Registers : v \in DOMAIN th'[q] /\ th'[q][v] \in Values
               /\ th'[q].pc \in IdleLabels =>
                    th'[q].count = 0 /\ \A v \in Registers : th'[q][v] = Null
    <3>1. CASE q = p
      <4>1. th'[p].pc \notin IdleLabels
        BY <1>4
      <4> QED BY <1>3, <1>4, <1>5, <3>1, <4>1
    <3>2. CASE q # p
      BY <1>2, <3>2 DEF RegisterInv
    <3> QED BY <3>1, <3>2
  <2> QED BY <1>2, <2>1, <2>2 DEF RegisterInv
<1> QED BY <1>2, <1>4, <1>6

(* An access to memory: the registers but one, or all, stay.               *)
LEMMA LoadEffect ==
  ASSUME RegisterInv, MemInv, NEW p \in Procs, Load(p)
  PROVE  LET code == Loads[th[p].pc]
             base == th[p][code[1]]
         IN  /\ th[p].pc \in DOMAIN Loads
             /\ base \in Nodes /\ mem[base][code[2]] \in Values
             /\ th'[p].pc = code[4] /\ th'[p][code[3]] = mem[base][code[2]]
             /\ th'[p].count = th[p].count
             /\ \A v \in Registers \ {code[3]} : th'[p][v] = th[p][v]
             /\ \A q \in Procs : q # p => th'[q] = th[q]
             /\ mem' = mem /\ outcome' = outcome
             /\ RegisterInv'
<1> DEFINE code == Loads[th[p].pc]
           base == th[p][code[1]]
           new  == [v \in {code[3], "pc"} |-> IF v = "pc" THEN code[4] ELSE mem[base][code[2]]]
<1>1. /\ th[p].pc \in DOMAIN Loads /\ base # Null /\ Set(p, new)
      /\ mem' = mem /\ outcome' = outcome
  BY DEF Load
<1>2. /\ code[1] \in Registers /\ code[2] \in Fields /\ code[3] \in {"curr", "tmp", "val"}
      /\ code[4] \notin IdleLabels
  BY <1>1, LoadCode
<1>3. base \in Nodes /\ mem[base][code[2]] \in Values
  <2>1. base \in Nodes
    BY <1>1, <1>2 DEF RegisterInv, Values
  <2> HIDE DEF code, base
  <2> QED BY <1>2, <2>1 DEF MemInv
<1>4. /\ DOMAIN new = {code[3], "pc"} /\ new["pc"] = code[4]
      /\ new[code[3]] = mem[base][code[2]]
  BY <1>2
<1> HIDE DEF code, base, new
<1>5. /\ DOMAIN th' = Procs
      /\ \A q \in Procs : q # p => th'[q] = th[q]
      /\ DOMAIN th'[p] = DOMAIN new \cup DOMAIN th[p]
      /\ \A f \in DOMAIN new : th'[p][f] = new[f]
      /\ \A f \in DOMAIN th[p] : f \notin DOMAIN new => th'[p][f] = th[p][f]
  BY <1>1, SetEffect DEF RegisterInv
<1>6. \A v \in Registers : v \in DOMAIN th[p] /\ v # "pc" /\ v # "count"
  BY DEF RegisterInv, Registers
<1>7. /\ th'[p].pc = code[4] /\ th'[p][code[3]] = mem[base][code[2]]
      /\ \A v \in Registers \ {code[3]} : th'[p][v] = th[p][v]
  BY <1>2, <1>4, <1>5, <1>6
<1>8. th'[p].count = th[p].count
  BY <1>2, <1>4, <1>5 DEF RegisterInv
<1>9. code[3] \in Registers
  BY <1>2 DEF Registers
<1>10. \A v \in Registers : v \in DOMAIN th'[p] /\ th'[p][v] \in Values
  BY <1>3, <1>5, <1>6, <1>7, <1>9 DEF RegisterInv
<1>11. RegisterInv'
  BY <1>2, <1>5, <1>7, <1>8, <1>10 DEF RegisterInv
<1> QED BY <1>1, <1>3, <1>5, <1>7, <1>8, <1>11 DEF code, base

LEMMA StoreEffect ==
  ASSUME RegisterInv, MemInv, NEW p \in Procs, Store(p)
  PROVE  LET code == Stores[th[p].pc]
             base == th[p][code[1]]
         IN  /\ th[p].pc \in DOMAIN Stores
             /\ base \in Nodes
             /\ \A q \in Nodes, f \in Fields :
                  mem'[q][f] = IF q = base /\ f = code[2] THEN th[p][code[3]] ELSE mem[q][f]
             /\ \A q \in Nodes : q # base => mem'[q] = mem[q]
             /\ th'[p].pc = code[4]
             /\ th'[p].count = th[p].count
             /\ \A v \in Registers : th'[p][v] = th[p][v]
             /\ \A q \in Procs : q # p => th'[q] = th[q]
             /\ outcome' = outcome
             /\ RegisterInv' /\ MemInv'
<1> DEFINE code == Stores[th[p].pc]
           base == th[p][code[1]]
           new  == [pc |-> code[4]]
<1>1. /\ th[p].pc \in DOMAIN Stores /\ base # Null /\ Set(p, new)
      /\ mem' = [mem EXCEPT ![base][code[2]] = th[p][code[3]]] /\ outcome' = outcome
  BY DEF Store
<1>2. /\ code[1] \in Registers /\ code[2] \in Fields /\ code[3] \in Registers
      /\ code[4] \notin IdleLabels
  BY <1>1, StoreCode
<1>3. base \in Nodes /\ th[p][code[3]] \in Values
  BY <1>1, <1>2 DEF RegisterInv, Values
<1>4. DOMAIN new = {"pc"} /\ new["pc"] = code[4]
  OBVIOUS
<1> HIDE DEF code, base, new
<1>5. /\ \A q \in Nodes, f \in Fields :
           mem'[q][f] = IF q = base /\ f = code[2] THEN th[p][code[3]] ELSE mem[q][f]
      /\ \A q \in Nodes : q # base => mem'[q] = mem[q]
      /\ MemInv'
  BY <1>1, <1>2, <1>3 DEF MemInv
<1>6. /\ DOMAIN th' = Procs
      /\ \A q \in Procs : q # p => th'[q] = th[q]
      /\ DOMAIN th'[p] = DOMAIN new \cup DOMAIN th[p]
      /\ \A f \in DOMAIN new : th'[p][f] = new[f]
      /\ \A f \in DOMAIN th[p] : f \notin DOMAIN new => th'[p][f] = th[p][f]
  BY <1>1, SetEffect DEF RegisterInv
<1>7. \A v \in Registers : v \in DOMAIN th[p] /\ v # "pc"
  BY DEF RegisterInv, Registers
<1>8. /\ th'[p].pc = code[4] /\ th'[p].count = th[p].count
      /\ \A v \in Registers : th'[p][v] = th[p][v]
  BY <1>4, <1>6, <1>7 DEF RegisterInv
<1>9. RegisterInv'
  BY <1>2, <1>6, <1>7, <1>8 DEF RegisterInv
<1> QED BY <1>1, <1>3, <1>5, <1>6, <1>8, <1>9 DEF code, base

-----------------------------------------------------------------------------
(* The order of a list.  Keys are naturals, and no two are the same.       *)

LEMMA KeyFacts ==
  ASSUME KeysApart
  PROVE  /\ \A e \in Keyed : key[e] \in Nat
         /\ \A e, f \in Keyed : key[e] = key[f] => e = f
         /\ Keyed \subseteq ListElements
BY DEF Keyed, KeysApart

LEMMA KeyedElements == Keyed \subseteq ListElements
BY DEF Keyed

LEMMA KeyedKept ==
  ASSUME UNCHANGED key
  PROVE  Keyed' = Keyed
BY DEF Keyed

(* A permutation of 0, 1, ... gives a key to every element.                *)
LEMMA AllKeyed ==
  ASSUME key \in Keys
  PROVE  KeysApart /\ Keyed = ListElements
BY SortedListAssumption, FS_CardinalityType DEF Keys, Keyed, KeysApart

LEMMA NodeFacts ==
  ASSUME NEW l \in HeadIds
  PROVE  /\ Head(l) \in Nodes /\ Head(l) \in Heads /\ Head(l) \notin ListElements
         /\ Head(l) # Null
         /\ \A e \in ListElements : e \in Nodes /\ e \notin Heads /\ e # Null
         /\ \A e \in Keyed : e \in ListElements /\ e \in Nodes /\ e \notin Heads /\ e # Null
         /\ \A q \in Nodes : q # Null
         /\ \A m \in HeadIds : Head(m) = Head(l) => m = l
<1>1. Head(l) \in Heads /\ Head(l)[1] = -1 /\ Head(l)[2] = l /\ l \in Nat
  BY SortedListAssumption DEF Heads, Head
<1>2. \A e \in ListElements : e[1] \in Nat /\ e # Null
  BY SortedListAssumption DEF Null
<1>3. \A q \in Heads : q[1] = -1 /\ q # Null
  BY SortedListAssumption DEF Heads, Head, Null
<1>4. \A m \in HeadIds : Head(m)[2] = m
  BY DEF Head
<1>5. \A e \in ListElements : e \in Nodes /\ e \notin Heads
  BY <1>2, <1>3 DEF Nodes
<1>6. Head(l) \in Nodes /\ Head(l) \notin ListElements /\ Head(l) # Null
  BY <1>1, <1>3, <1>5 DEF Nodes
<1>7. \A q \in Nodes : q # Null
  BY <1>2, <1>3 DEF Nodes
<1>8. \A m \in HeadIds : Head(m) = Head(l) => m = l
  BY <1>1, <1>4
<1>9. Keyed \subseteq ListElements
  BY DEF Keyed
<1> QED BY <1>1, <1>2, <1>5, <1>6, <1>7, <1>8, <1>9

LEMMA NextUnique ==
  ASSUME KeysApart, NEW l \in HeadIds, NEW S \in SUBSET Keyed,
         NEW q, NEW m, NEW n, Adjacent(l, S, q, m), Adjacent(l, S, q, n)
  PROVE  m = n
<1>1. \A a, b : Adjacent(l, S, q, a) /\ Adjacent(l, S, q, b) /\ a # b /\ a # Head(l) =>
        b # Head(l) /\ ~ (key[a] < key[b])
  BY DEF Adjacent, RingNodes, Behind, Ahead
<1>2. m # Head(l) /\ n # Head(l) => key[m] \in Nat /\ key[n] \in Nat /\ (key[m] = key[n] => m = n)
  BY KeyFacts DEF Adjacent, RingNodes
<1>3. m # n /\ m # Head(l) => n # Head(l) /\ ~ (key[m] < key[n])
  BY <1>1
<1>4. m # n /\ n # Head(l) => m # Head(l) /\ ~ (key[n] < key[m])
  BY <1>1
<1> QED BY <1>2, <1>3, <1>4

LEMMA PrevUnique ==
  ASSUME KeysApart, NEW l \in HeadIds, NEW S \in SUBSET Keyed,
         NEW q, NEW m, NEW n, Adjacent(l, S, m, q), Adjacent(l, S, n, q)
  PROVE  m = n
<1>1. \A a, b : Adjacent(l, S, a, q) /\ Adjacent(l, S, b, q) /\ a # b /\ a # Head(l) =>
        b # Head(l) /\ ~ (key[b] < key[a])
  BY DEF Adjacent, RingNodes, Behind, Ahead
<1>2. m # Head(l) /\ n # Head(l) => key[m] \in Nat /\ key[n] \in Nat /\ (key[m] = key[n] => m = n)
  BY KeyFacts DEF Adjacent, RingNodes
<1>3. m # n /\ m # Head(l) => n # Head(l) /\ ~ (key[n] < key[m])
  BY <1>1
<1>4. m # n /\ n # Head(l) => m # Head(l) /\ ~ (key[m] < key[n])
  BY <1>1
<1> QED BY <1>2, <1>3, <1>4

(* An element put between q and n is their neighbour, and the other links  *)
(* are those of a ring with it.                                            *)
LEMMA InsertBetween ==
  ASSUME KeysApart, NEW l \in HeadIds, NEW S \in SUBSET Keyed,
         NEW x \in Keyed \ S, NEW q, NEW n, Between(l, S, q, x, n)
  PROVE  /\ Adjacent(l, S \cup {x}, q, x) /\ Adjacent(l, S \cup {x}, x, n)
         /\ \A a, b : Adjacent(l, S, a, b) /\ (a # q \/ b # n) => Adjacent(l, S \cup {x}, a, b)
<1>1. /\ q \in RingNodes(l, S) /\ n \in RingNodes(l, S)
      /\ Adjacent(l, S, q, n)
      /\ q # Head(l) => key[q] < key[x]
      /\ n # Head(l) => key[x] < key[n]
  BY DEF Between, Adjacent, Behind, Ahead
<1>2. x # Head(l) /\ key[x] \in Nat /\ \A e \in S : key[e] \in Nat /\ e # Head(l) /\ key[e] # key[x]
  BY KeyFacts, NodeFacts
<1>3. \A a, b \in S : key[a] = key[b] => a = b
  BY KeyFacts
<1>4. Adjacent(l, S \cup {x}, q, x)
  BY <1>1, <1>2 DEF Adjacent, RingNodes, Behind, Ahead
<1>5. Adjacent(l, S \cup {x}, x, n)
  BY <1>1, <1>2 DEF Adjacent, RingNodes, Behind, Ahead
<1>6. ASSUME NEW a, NEW b, Adjacent(l, S, a, b), a # q \/ b # n
      PROVE  Adjacent(l, S \cup {x}, a, b)
  <2>1. a # q
    BY <1>1, <1>6, NextUnique
  <2>2. ASSUME Behind(l, a, x), Ahead(l, x, b) PROVE FALSE
    <3>1. a \in RingNodes(l, S) /\ b \in RingNodes(l, S)
      BY <1>6 DEF Adjacent
    <3>2. a # Head(l) => a \in S /\ key[a] < key[x]
      BY <2>2, <3>1 DEF Behind, RingNodes
    <3>3. b # Head(l) => key[x] < key[b] /\ key[b] \in Nat
      BY <1>2, <2>2, <3>1 DEF Ahead, RingNodes
    <3>4. q # Head(l) => q \in S
      BY <1>1 DEF RingNodes
    <3>5. a # Head(l) => Ahead(l, a, n)
      BY <1>1, <1>2, <3>2 DEF Ahead, RingNodes
    <3>6. q # Head(l) => Ahead(l, q, b)
      BY <1>1, <1>2, <3>3, <3>4 DEF Ahead
    <3>7. ~ (q # Head(l) /\ Behind(l, a, q)) /\ ~ (a # Head(l) /\ Behind(l, q, a))
      BY <1>1, <1>6, <3>2, <3>4, <3>5, <3>6 DEF Adjacent
    <3> QED BY <1>2, <1>3, <2>1, <3>2, <3>4, <3>7 DEF Behind
  <2> QED BY <1>6, <2>2 DEF Adjacent, RingNodes
<1> QED BY <1>4, <1>5, <1>6

(* The neighbours of an element that is taken out are each other's.        *)
LEMMA RemoveBetween ==
  ASSUME KeysApart, NEW l \in HeadIds, NEW S \in SUBSET Keyed, NEW x \in S,
         NEW q, NEW n, Adjacent(l, S, q, x), Adjacent(l, S, x, n)
  PROVE  /\ Adjacent(l, S \ {x}, q, n) /\ q # x /\ n # x
         /\ \A a, b : Adjacent(l, S, a, b) /\ a # x /\ b # x => Adjacent(l, S \ {x}, a, b)
<1>1. x # Head(l) /\ key[x] \in Nat
      /\ \A e \in S : key[e] \in Nat /\ e # Head(l) /\ (key[e] = key[x] => e = x)
  BY KeyFacts, NodeFacts
<1>2. /\ q \in RingNodes(l, S) /\ n \in RingNodes(l, S)
      /\ q # Head(l) => key[q] < key[x]
      /\ n # Head(l) => key[x] < key[n]
  BY <1>1 DEF Adjacent
<1>3. q # x /\ n # x
  BY <1>1, <1>2
<1>4. ASSUME NEW e \in S, e # x, Behind(l, q, e), Ahead(l, e, n) PROVE FALSE
  <2>1. key[e] < key[x] \/ key[x] < key[e]
    BY <1>1, <1>4
  <2>2. ~ Ahead(l, e, x) /\ ~ Behind(l, x, e)
    BY <1>4 DEF Adjacent
  <2> QED BY <2>1, <2>2 DEF Ahead, Behind
<1>5. q # Head(l) /\ n # Head(l) => key[q] < key[n]
  BY <1>1, <1>2 DEF RingNodes
<1>6. Adjacent(l, S \ {x}, q, n)
  BY <1>2, <1>3, <1>4, <1>5 DEF Adjacent, RingNodes
<1>7. \A a, b : Adjacent(l, S, a, b) /\ a # x /\ b # x => Adjacent(l, S \ {x}, a, b)
  BY DEF Adjacent, RingNodes
<1> QED BY <1>3, <1>6, <1>7

-----------------------------------------------------------------------------
(* The steps of an operation of process p on list l, which holds S.        *)

Owns(p, l, S) ==
  /\ MemInv /\ RegisterInv /\ KeysApart
  /\ p \in Procs /\ l \in HeadIds /\ S \in SUBSET Keyed
  /\ Inside(p, l, S)

OperationOf(at) ==
  CASE at \in InsertLabels -> InsertLabels
    [] at \in LookupLabels \cup UnlinkLabels -> LookupLabels \cup UnlinkLabels
    [] at \in LengthLabels -> LengthLabels

(* The order does not change.                                              *)
LEMMA OrderKept ==
  ASSUME UNCHANGED key
  PROVE  /\ \A l, S, q, n : Adjacent(l, S, q, n)' <=> Adjacent(l, S, q, n)
         /\ \A l, S, q, x, n : Between(l, S, q, x, n)' <=> Between(l, S, q, x, n)
         /\ \A l, S, x, q : PassedBy(l, S, x, q)' <=> PassedBy(l, S, x, q)
         /\ \A l, e, q : Ahead(l, e, q)' <=> Ahead(l, e, q)
         /\ \A l, e, q : Behind(l, q, e)' <=> Behind(l, q, e)
         /\ Keyed' = Keyed /\ KeysApart' = KeysApart
BY DEF Adjacent, Between, PassedBy, Ahead, Behind, Keyed, KeysApart

LEMMA RingKept ==
  ASSUME UNCHANGED key, NEW l, NEW S, NEW R, \A q \in R : mem'[q] = mem[q]
  PROVE  /\ NextLinks(l, S, R)' <=> NextLinks(l, S, R)
         /\ PrevLinks(l, S, R)' <=> PrevLinks(l, S, R)
BY OrderKept DEF NextLinks, PrevLinks

(* The registers of a process that looks at the list only.                 *)
LEMMA LookStep ==
  ASSUME NEW p, NEW l, NEW S, Owns(p, l, S), UNCHANGED <<mem, key>>
  PROVE  /\ Ring(l, S)' <=> Ring(l, S)
         /\ \A R : NextLinks(l, S, R)' <=> NextLinks(l, S, R)
         /\ \A R : PrevLinks(l, S, R)' <=> PrevLinks(l, S, R)
BY RingKept DEF Ring

LEMMA LabelFacts ==
  /\ InsertLabels = {"insert", "insertPrev", "first", "walk", "walkOn", "link1", "link2",
                     "link3", "link4", "link5", "only1", "only2", "only3", "only4", "link6"}
  /\ \A at \in InsertLabels : OperationOf(at) = InsertLabels
  /\ \A at \in LookupLabels \cup UnlinkLabels :
       OperationOf(at) = LookupLabels \cup UnlinkLabels
  /\ \A at \in LengthLabels : OperationOf(at) = LengthLabels
<1>1. InsertLabels = {"insert", "insertPrev", "first", "walk", "walkOn", "link1", "link2",
                      "link3", "link4", "link5", "only1", "only2", "only3", "only4", "link6"}
  BY DEF InsertLabels, FindLabels, LinkLabels, OnlyLabels
<1>2. \A at \in LookupLabels \cup UnlinkLabels : at \notin InsertLabels /\ at \notin LengthLabels
  BY <1>1 DEF LookupLabels, UnlinkLabels, LengthLabels
<1>3. \A at \in LengthLabels : at \notin InsertLabels
  BY <1>1 DEF LengthLabels
<1> HIDE DEF InsertLabels
<1>4. /\ \A at \in InsertLabels : OperationOf(at) = InsertLabels
      /\ \A at \in LookupLabels \cup UnlinkLabels :
           OperationOf(at) = LookupLabels \cup UnlinkLabels
      /\ \A at \in LengthLabels : OperationOf(at) = LengthLabels
  BY <1>2, <1>3 DEF OperationOf
<1> QED BY <1>1, <1>4

(* Process p goes on with its operation, or is done with it, and has not   *)
(* touched anything else.                                                  *)
Moves(p, l, S) ==
  /\ MemInv' /\ RegisterInv' /\ outcome' = outcome
  /\ \A q \in Procs : q # p => th'[q] = th[q]
  /\ \A q \in Nodes : q \notin RingNodes(l, S) \cup {th[p].elem} => mem'[q] = mem[q]
  /\ th'[p].list = Head(l) /\ th'[p].elem = th[p].elem

(* A step of p that leaves T in the list.                                  *)
Advances(p, l, S, T) ==
  /\ Moves(p, l, S) /\ Inside(p, l, T)'
  /\ th[p].pc \in LengthLabels => mem' = mem
  /\ th'[p].pc \in OperationOf(th[p].pc) \cup {"done"}
  /\ th[p].pc # "count" =>
       (th'[p].pc \in MadeLabels <=> th[p].pc \in MadeLabels \cup {"only2", "link5", "unlink6"})
  /\ th'[p].pc = "done" => th'[p].count = IF th[p].pc = "count" THEN Cardinality(S) ELSE 0

LEMMA LoadAt ==
  ASSUME NEW p, NEW l, NEW S, Owns(p, l, S), Load(p),
         NEW r, NEW f, NEW d, NEW at, Loads[th[p].pc] = <<r, f, d, at>>
  PROVE  /\ th[p].pc \in DOMAIN Loads /\ th[p][r] \in Nodes
         /\ Moves(p, l, S) /\ mem' = mem
         /\ th'[p].pc = at /\ th'[p][d] = mem[th[p][r]][f]
         /\ \A v \in {"curr", "tmp", "val"} : v # d => th'[p][v] = th[p][v]
         /\ th'[p].count = th[p].count
         /\ th[p].pc \notin {"count", "countOn"} => th[p].count = 0
<1>1. MemInv /\ RegisterInv /\ p \in Procs /\ th[p].list = Head(l)
  BY DEF Owns, Inside
<1>2. /\ th[p].pc \in DOMAIN Loads
      /\ th[p][r] \in Nodes
      /\ th'[p].pc = at /\ th'[p][d] = mem[th[p][r]][f]
      /\ th'[p].count = th[p].count
      /\ \A v \in Registers \ {d} : th'[p][v] = th[p][v]
      /\ \A q \in Procs : q # p => th'[q] = th[q]
      /\ mem' = mem /\ outcome' = outcome
      /\ RegisterInv'
  <2> DEFINE code == Loads[th[p].pc]
  <2>1. code[1] = r /\ code[2] = f /\ code[3] = d /\ code[4] = at
    OBVIOUS
  <2> HIDE DEF code
  <2> QED BY <1>1, <2>1, LoadEffect DEF code
<1>3. d \in {"curr", "tmp", "val"}
  BY <1>2, LoadCode
<1>4. {"list", "elem"} \subseteq Registers \ {d} /\ {"curr", "tmp", "val"} \subseteq Registers
  BY <1>3 DEF Registers
<1>5. th'[p].list = Head(l) /\ th'[p].elem = th[p].elem
  BY <1>1, <1>2, <1>4
<1>6. MemInv'
  BY <1>1, <1>2 DEF MemInv
<1>7. th[p].pc \notin {"count", "countOn"} => th[p].count = 0
  <2>1. th[p].pc # "done"
    BY <1>2, LoadTable
  <2> QED BY <2>1 DEF Owns, Inside, LengthInv
<1> QED BY <1>2, <1>4, <1>5, <1>6, <1>7 DEF Moves

LEMMA StoreAt ==
  ASSUME NEW p, NEW l, NEW S, Owns(p, l, S), Store(p),
         NEW r, NEW f, NEW v, NEW at, Stores[th[p].pc] = <<r, f, v, at>>
  PROVE  /\ th[p].pc \in DOMAIN Stores /\ th[p][r] \in Nodes
         /\ th[p][r] \in RingNodes(l, S) \cup {th[p].elem} => Moves(p, l, S)
         /\ \A q \in Nodes, g \in Fields :
              mem'[q][g] = IF q = th[p][r] /\ g = f THEN th[p][v] ELSE mem[q][g]
         /\ th'[p].pc = at
         /\ \A u \in {"curr", "tmp", "val"} : th'[p][u] = th[p][u]
         /\ th'[p].count = 0
<1>1. MemInv /\ RegisterInv /\ p \in Procs /\ th[p].list = Head(l)
  BY DEF Owns, Inside
<1>2. /\ th[p].pc \in DOMAIN Stores
      /\ th[p][r] \in Nodes
      /\ \A q \in Nodes, g \in Fields :
           mem'[q][g] = IF q = th[p][r] /\ g = f THEN th[p][v] ELSE mem[q][g]
      /\ \A q \in Nodes : q # th[p][r] => mem'[q] = mem[q]
      /\ th'[p].pc = at
      /\ th'[p].count = th[p].count
      /\ \A u \in Registers : th'[p][u] = th[p][u]
      /\ \A q \in Procs : q # p => th'[q] = th[q]
      /\ outcome' = outcome
      /\ RegisterInv' /\ MemInv'
  <2> DEFINE code == Stores[th[p].pc]
  <2>1. code[1] = r /\ code[2] = f /\ code[3] = v /\ code[4] = at
    OBVIOUS
  <2> HIDE DEF code
  <2> QED BY <1>1, <2>1, StoreEffect DEF code
<1>3. {"list", "elem", "curr", "tmp", "val"} \subseteq Registers
  BY DEF Registers
<1>4. th[p].count = 0
  <2>1. th[p].pc \notin {"count", "countOn", "done"}
    BY <1>2, StoreTable
  <2> QED BY <2>1 DEF Owns, Inside, LengthInv
<1> QED BY <1>1, <1>2, <1>3, <1>4 DEF Moves

(* An assignment to variables of p that is not an access to memory.        *)
LEMMA SetAt ==
  ASSUME NEW p, NEW l, NEW S, Owns(p, l, S), NEW new, Set(p, new),
         UNCHANGED <<mem, outcome>>,
         "pc" \in DOMAIN new, DOMAIN new \subseteq {"pc", "elem", "count"},
         new["pc"] \notin IdleLabels,
         "elem" \in DOMAIN new => new["elem"] = th[p].elem,
         "count" \in DOMAIN new => new["count"] \in Nat
  PROVE  /\ Moves(p, l, S) /\ th'[p].pc = new["pc"]
         /\ \A v \in {"curr", "tmp", "val"} : th'[p][v] = th[p][v]
         /\ th'[p].count = IF "count" \in DOMAIN new THEN new["count"] ELSE th[p].count
<1>1. MemInv /\ RegisterInv /\ p \in Procs /\ th[p].list = Head(l)
  BY DEF Owns, Inside
<1>2. /\ DOMAIN th' = Procs
      /\ \A q \in Procs : q # p => th'[q] = th[q]
      /\ DOMAIN th'[p] = DOMAIN new \cup DOMAIN th[p]
      /\ \A f \in DOMAIN new : th'[p][f] = new[f]
      /\ \A f \in DOMAIN th[p] : f \notin DOMAIN new => th'[p][f] = th[p][f]
  BY <1>1, SetEffect DEF RegisterInv
<1>3. \A v \in Registers : v \in DOMAIN th[p] /\ th[p][v] \in Values /\ v # "pc" /\ v # "count"
  BY <1>1 DEF RegisterInv, Registers
<1>4. \A v \in Registers : v \in DOMAIN th'[p] /\ th'[p][v] = th[p][v]
  <2> SUFFICES ASSUME NEW v \in Registers
               PROVE  v \in DOMAIN th'[p] /\ th'[p][v] = th[p][v]
    OBVIOUS
  <2>1. CASE v \in DOMAIN new
    <3>1. v = "elem"
      BY <1>3, <2>1
    <3> QED BY <1>2, <1>3, <2>1, <3>1
  <2>2. CASE v \notin DOMAIN new
    BY <1>2, <1>3, <2>2
  <2> QED BY <2>1, <2>2
<1>5. /\ th'[p].pc = new["pc"]
      /\ th'[p].count = IF "count" \in DOMAIN new THEN new["count"] ELSE th[p].count
      /\ {"pc", "count"} \subseteq DOMAIN th'[p]
  BY <1>1, <1>2 DEF RegisterInv
<1>6. th'[p].count \in Nat
  BY <1>1, <1>5 DEF RegisterInv
<1>7. RegisterInv'
  <2>1. \A q \in Procs : q # p =>
          /\ {"pc", "count"} \subseteq DOMAIN th'[q]
          /\ th'[q].count \in Nat
          /\ \A v \in Registers : v \in DOMAIN th'[q] /\ th'[q][v] \in Values
          /\ th'[q].pc \in IdleLabels =>
               th'[q].count = 0 /\ \A v \in Registers : th'[q][v] = Null
    BY <1>1, <1>2 DEF RegisterInv
  <2>2. /\ {"pc", "count"} \subseteq DOMAIN th'[p]
        /\ th'[p].count \in Nat
        /\ \A v \in Registers : v \in DOMAIN th'[p] /\ th'[p][v] \in Values
        /\ th'[p].pc \notin IdleLabels
    BY <1>3, <1>4, <1>5, <1>6
  <2> QED BY <1>2, <2>1, <2>2 DEF RegisterInv
<1>8. {"list", "elem", "curr", "tmp", "val"} \subseteq Registers
  BY DEF Registers
<1>9. MemInv'
  BY <1>1 DEF MemInv
<1> QED BY <1>1, <1>2, <1>4, <1>5, <1>7, <1>8, <1>9 DEF Moves

(* A branch.                                                               *)
LEMMA JumpAt ==
  ASSUME NEW p, NEW l, NEW S, Owns(p, l, S), NEW at, Set(p, [pc |-> at]),
         UNCHANGED <<mem, outcome>>, at \notin IdleLabels
  PROVE  /\ Moves(p, l, S) /\ th'[p].pc = at
         /\ \A v \in {"curr", "tmp", "val"} : th'[p][v] = th[p][v]
         /\ th'[p].count = th[p].count
<1> DEFINE new == [pc |-> at]
<1>1. DOMAIN new = {"pc"} /\ new["pc"] = at /\ Set(p, new)
  OBVIOUS
<1> HIDE DEF new
<1> QED BY <1>1, SetAt

(* insert: the first node that is not smaller is looked for.               *)
LEMMA FirstStep ==
  ASSUME NEW p, NEW l, NEW S, Owns(p, l, S), UNCHANGED key, Load(p),
         th[p].pc \in {"first", "walkOn"}
  PROVE  Advances(p, l, S, S)
<1> DEFINE h == Head(l)
           x == th[p].elem
           base == IF th[p].pc = "first" THEN h ELSE th[p].curr
<1>1. /\ Moves(p, l, S) /\ mem' = mem /\ th'[p].pc = "walk" /\ th'[p].count = 0
      /\ th'[p].curr = mem[base].next
  <2>1. CASE th[p].pc = "first"
    BY <2>1, LoadAt, LoadTable DEF Owns, Inside
  <2>2. CASE th[p].pc = "walkOn"
    BY <2>2, LoadAt, LoadTable
  <2> QED BY <2>1, <2>2
<1>2. Ring(l, S) /\ x \in Keyed \ S /\ mem[x].prev = Null
  BY DEF Owns, Inside, InsertInv, WholeLabels, FindLabels, OutsideLabels
<1>3. base \in RingNodes(l, S) /\ (base # h => key[base] < key[x])
  BY DEF Owns, Inside, InsertInv, RingNodes
<1>4. Adjacent(l, S, base, mem[base].next)
  BY <1>2, <1>3 DEF Ring, NextLinks
<1>5. mem[base].next \in RingNodes(l, S)
  BY <1>4 DEF Adjacent
<1>6. PassedBy(l, S, x, mem[base].next)
  <2> SUFFICES ASSUME NEW e \in S, Ahead(l, e, mem[base].next) PROVE key[e] < key[x]
    BY DEF PassedBy
  <2>1. base # h /\ ~ (key[base] < key[e])
    BY <1>4 DEF Adjacent, Behind
  <2>2. key[base] \in Nat /\ key[e] \in Nat /\ key[x] \in Nat
    BY <1>2, <1>3, <2>1, KeyFacts DEF Owns, RingNodes
  <2> QED BY <1>3, <2>1, <2>2
<1>7. Inside(p, l, S)'
  <2>1. InsertInv(p, l, S)'
    BY <1>1, <1>2, <1>5, <1>6, OrderKept 
      DEF Moves, InsertInv, FindLabels, OutsideLabels, LinkLabels
  <2>2. DeleteInv(p, l, S)'
    BY <1>1 DEF DeleteInv, LookupLabels, UnlinkLabels
  <2>3. LengthInv(p, l, S)'
    BY <1>1 DEF LengthInv
  <2>4. Ring(l, S)'
    BY <1>1, <1>2, LookStep
  <2> QED BY <1>1, <2>1, <2>2, <2>3, <2>4 DEF Moves, Inside, InsertLabels, FindLabels
<1>8. th[p].pc \in InsertLabels
  BY LabelFacts
<1> QED BY <1>1, <1>7, <1>8, LabelFacts DEF Advances, LengthLabels, MadeLabels

(* insert: is the list empty?                                              *)
LEMMA TestEmptyStep ==
  ASSUME NEW p, NEW l, NEW S, Owns(p, l, S), UNCHANGED key, TestEmpty(p)
  PROVE  Advances(p, l, S, S)
<1> DEFINE h == Head(l)
           x == th[p].elem
<1>1. th[p].pc \in {"insert", "insertPrev"} /\ th[p].list = h /\ UNCHANGED <<mem, outcome>>
  BY DEF TestEmpty, On, Owns, Inside
<1>2. /\ Ring(l, S) /\ x \in Keyed \ S /\ mem[x].prev = Null /\ th[p].count = 0
      /\ th[p].pc = "insertPrev" => mem[h].next = h
  BY <1>1 DEF Owns, Inside, InsertInv, LengthInv, WholeLabels, FindLabels, OutsideLabels
<1>3. PICK at \in {"insertPrev", "first", "only1"} :
        /\ Set(p, [pc |-> at])
        /\ at = "insertPrev" => th[p].pc = "insert" /\ mem[h].next = h
        /\ at = "only1" => th[p].pc = "insertPrev" /\ mem[h].prev = h
  BY <1>1 DEF TestEmpty, On
<1>4. Moves(p, l, S) /\ th'[p].pc = at /\ th'[p].count = 0
  BY <1>1, <1>2, <1>3, JumpAt DEF IdleLabels
<1>5. at = "only1" => S = {}
  <2>1. Adjacent(l, S, mem[h].prev, h)
    BY <1>2 DEF Ring, PrevLinks, RingNodes
  <2> QED BY <1>3, <2>1 DEF Adjacent, Behind, Ahead
<1>6. Inside(p, l, S)'
  <2>1. InsertInv(p, l, S)'
    BY <1>1, <1>2, <1>3, <1>4, <1>5, KeyedKept
      DEF Moves, InsertInv, FindLabels, OutsideLabels, LinkLabels
  <2>2. DeleteInv(p, l, S)'
    BY <1>3, <1>4 DEF DeleteInv, LookupLabels, UnlinkLabels
  <2>3. LengthInv(p, l, S)'
    BY <1>3, <1>4 DEF LengthInv
  <2>4. Ring(l, S)'
    BY <1>1, <1>2, LookStep
  <2> QED BY <1>3, <1>4, <2>1, <2>2, <2>3, <2>4, LabelFacts DEF Moves, Inside
<1>7. th[p].pc \in InsertLabels
  BY <1>1, LabelFacts
<1> QED BY <1>1, <1>3, <1>4, <1>6, <1>7, LabelFacts DEF Advances, LengthLabels, MadeLabels

(* insert: is the node smaller?                                            *)
LEMMA WalkStep ==
  ASSUME NEW p, NEW l, NEW S, Owns(p, l, S), UNCHANGED key, Walk(p)
  PROVE  Advances(p, l, S, S)
<1> DEFINE h == Head(l)
           x == th[p].elem
           q == th[p].curr
<1>1. th[p].pc = "walk" /\ UNCHANGED <<mem, outcome>>
  BY DEF Walk, On
<1>2. /\ Ring(l, S) /\ x \in Keyed \ S /\ mem[x].prev = Null /\ th[p].count = 0
      /\ q \in RingNodes(l, S) /\ PassedBy(l, S, x, q)
  BY <1>1 DEF Owns, Inside, InsertInv, LengthInv, WholeLabels, FindLabels, OutsideLabels
<1>3. /\ IsHead(q) <=> q = h
      /\ q # h => /\ q \in S /\ key[q] \in Nat /\ key[x] \in Nat /\ key[q] # key[x]
                  /\ mem[q].next # q
  <2>1. Adjacent(l, S, q, mem[q].next)
    BY <1>2 DEF Ring, NextLinks
  <2>2. IsHead(q) <=> q = h
    BY <1>2, NodeFacts DEF Owns, IsHead, RingNodes
  <2>3. q # h => q \in S /\ key[q] \in Nat /\ key[x] \in Nat /\ key[q] # key[x]
    BY <1>2, KeyFacts DEF Owns, RingNodes
  <2> QED BY <2>1, <2>2, <2>3 DEF Adjacent
<1>4. PICK at \in {"link1", "walkOn"} :
        /\ Set(p, [pc |-> at])
        /\ at = "link1" => Ahead(l, x, q)
        /\ at = "walkOn" => q \in S /\ key[q] < key[x]
  <2>1. CASE q = h
    BY <1>3, <2>1 DEF Walk, Ahead
  <2>2. CASE q # h /\ key[q] >= key[x]
    BY <1>3, <2>2 DEF Walk, Ahead
  <2>3. CASE q # h /\ ~ (key[q] >= key[x])
    BY <1>3, <2>3 DEF Walk, SelfLoop
  <2> QED BY <2>1, <2>2, <2>3
<1>5. Moves(p, l, S) /\ th'[p].pc = at /\ th'[p].count = 0 /\ th'[p].curr = q
  BY <1>1, <1>2, <1>4, JumpAt DEF IdleLabels
<1>6. Inside(p, l, S)'
  <2>1. InsertInv(p, l, S)'
    BY <1>1, <1>2, <1>4, <1>5, OrderKept
    
      DEF Moves, InsertInv, FindLabels, OutsideLabels, LinkLabels
  <2>2. DeleteInv(p, l, S)'
    BY <1>4, <1>5 DEF DeleteInv, LookupLabels, UnlinkLabels
  <2>3. LengthInv(p, l, S)'
    BY <1>4, <1>5 DEF LengthInv
  <2>4. Ring(l, S)'
    BY <1>1, <1>2, LookStep
  <2> QED BY <1>4, <1>5, <2>1, <2>2, <2>3, <2>4, LabelFacts DEF Moves, Inside
<1>7. th[p].pc \in InsertLabels
  BY <1>1, LabelFacts
<1> QED BY <1>1, <1>4, <1>5, <1>6, <1>7, LabelFacts DEF Advances, LengthLabels, MadeLabels

(* insert: the predecessor is read, before and after it is given its new   *)
(* successor.                                                              *)
LEMMA LinkLoadStep ==
  ASSUME NEW p, NEW l, NEW S, Owns(p, l, S), UNCHANGED key, Load(p),
         th[p].pc \in {"link1", "link3"}
  PROVE  Advances(p, l, S, S)
<1> DEFINE x == th[p].elem
           c == th[p].curr
           next == IF th[p].pc = "link1" THEN "link2" ELSE "link4"
<1>1. /\ Moves(p, l, S) /\ mem' = mem /\ th'[p].pc = next /\ th'[p].count = 0
      /\ th'[p].tmp = mem[c].prev /\ th'[p].curr = c
  <2>1. CASE th[p].pc = "link1"
    BY <2>1, LoadAt, LoadTable
  <2>2. CASE th[p].pc = "link3"
    BY <2>2, LoadAt, LoadTable
  <2> QED BY <2>1, <2>2
<1>2. /\ x \in Keyed \ S /\ mem[x].prev = Null
      /\ PrevLinks(l, S, RingNodes(l, S))
      /\ th[p].pc = "link1" => Ring(l, S)
      /\ th[p].pc = "link3" => NextLinks(l, S \cup {x}, RingNodes(l, S))
  BY DEF Owns, Inside, InsertInv, WholeLabels, FindLabels, OutsideLabels, LinkLabels, Ring
<1>3. Between(l, S, mem[c].prev, x, c)
  <2>1. CASE th[p].pc = "link1"
    <3>1. c \in RingNodes(l, S) /\ PassedBy(l, S, x, c) /\ Ahead(l, x, c)
      BY <2>1 DEF Owns, Inside, InsertInv
    <3>2. Adjacent(l, S, mem[c].prev, c)
      BY <1>2, <3>1 DEF PrevLinks
    <3>3. mem[c].prev # Head(l) => mem[c].prev \in S /\ Ahead(l, mem[c].prev, c)
      BY <3>2 DEF Adjacent, RingNodes, Ahead
    <3> QED BY <3>1, <3>2, <3>3 DEF Between, Behind, PassedBy
  <2>2. CASE th[p].pc = "link3"
    <3>1. Between(l, S, th[p].tmp, x, c)
      BY <2>2 DEF Owns, Inside, InsertInv, LinkLabels
    <3>2. Adjacent(l, S, mem[c].prev, c)
      BY <1>2, <3>1 DEF PrevLinks, Between, Adjacent
    <3>3. mem[c].prev = th[p].tmp
      BY <3>1, <3>2, PrevUnique DEF Owns, Between
    <3> QED BY <3>1, <3>3
  <2> QED BY <2>1, <2>2
<1>4. Inside(p, l, S)'
  <2>1. InsertInv(p, l, S)'
    <3>1. th'[p].elem = x /\ mem'[x].prev = Null /\ x \in Keyed \ S
      BY <1>1, <1>2 DEF Moves
    <3>2. Between(l, S, th[p].tmp, x, th[p].curr)'
      BY <1>1, <1>3, <3>1, OrderKept
    <3>3. /\ PrevLinks(l, S, RingNodes(l, S))'
          /\ th'[p].pc = "link4" => NextLinks(l, S \cup {x}, RingNodes(l, S))'
      BY <1>1, <1>2, <3>1, RingKept
    <3> QED BY <1>1, <3>1, <3>2, <3>3, KeyedKept DEF InsertInv, FindLabels, OutsideLabels, LinkLabels
  <2>2. DeleteInv(p, l, S)'
    BY <1>1 DEF DeleteInv, LookupLabels, UnlinkLabels
  <2>3. LengthInv(p, l, S)'
    BY <1>1 DEF LengthInv
  <2>4. th[p].pc = "link1" => Ring(l, S)'
    BY <1>1, <1>2, LookStep
  <2> QED BY <1>1, <2>1, <2>2, <2>3, <2>4, LabelFacts
          DEF Moves, Inside, WholeLabels, FindLabels, LookupLabels, LengthLabels
<1>5. th[p].pc \in InsertLabels
  BY LabelFacts
<1> QED BY <1>1, <1>4, <1>5, LabelFacts DEF Advances, LengthLabels, MadeLabels

(* insert: element->prev->next... the predecessor is given its successor.  *)
LEMMA Link2Step ==
  ASSUME NEW p, NEW l, NEW S, Owns(p, l, S), UNCHANGED key, Store(p), th[p].pc = "link2"
  PROVE  Advances(p, l, S, S)
<1> DEFINE x == th[p].elem
           c == th[p].curr
           t == th[p].tmp
<1>1. /\ x \in Keyed \ S /\ mem[x].prev = Null /\ Ring(l, S) /\ Between(l, S, t, x, c)
      /\ KeysApart /\ l \in HeadIds /\ S \in SUBSET Keyed
  BY DEF Owns, Inside, InsertInv, OutsideLabels, WholeLabels, LinkLabels
<1>2. t \in RingNodes(l, S) /\ x \notin RingNodes(l, S)
  BY <1>1, NodeFacts DEF Between, Adjacent, RingNodes
<1>3. /\ Moves(p, l, S) /\ th'[p].pc = "link3" /\ th'[p].count = 0
      /\ th'[p].tmp = t /\ th'[p].curr = c
      /\ \A q \in Nodes, g \in Fields :
           mem'[q][g] = IF q = t /\ g = "next" THEN x ELSE mem[q][g]
  BY <1>2, StoreAt, StoreTable
<1>4. RingNodes(l, S) \subseteq Nodes /\ x \in Nodes
  BY <1>1, NodeFacts DEF RingNodes, Nodes
<1>5. NextLinks(l, S \cup {x}, RingNodes(l, S))'
  <2> SUFFICES ASSUME NEW q \in RingNodes(l, S)
               PROVE  Adjacent(l, S \cup {x}, q, mem'[q].next)
    BY <1>3, OrderKept DEF NextLinks, Moves
  <2>1. Adjacent(l, S, q, mem[q].next)
    BY <1>1 DEF Ring, NextLinks
  <2>2. /\ Adjacent(l, S \cup {x}, t, x)
        /\ \A a, b : Adjacent(l, S, a, b) /\ (a # t \/ b # c) => Adjacent(l, S \cup {x}, a, b)
    <3> HIDE DEF x, t, c
    <3> QED BY <1>1, InsertBetween
  <2>3. mem'[q].next = IF q = t THEN x ELSE mem[q].next
    BY <1>3, <1>4 DEF Fields
  <2> HIDE DEF x, t, c
  <2> QED BY <2>1, <2>2, <2>3
<1>6. PrevLinks(l, S, RingNodes(l, S))'
  <2> SUFFICES ASSUME NEW q \in RingNodes(l, S)
               PROVE  Adjacent(l, S, mem'[q].prev, q)
    BY OrderKept DEF PrevLinks
  <2> QED BY <1>1, <1>3, <1>4 DEF Ring, PrevLinks, Fields
<1>7. mem'[x].prev = Null /\ th'[p].elem = x
  BY <1>1, <1>3, <1>4 DEF Fields, Moves
<1>8. Inside(p, l, S)'
  <2>1. Between(l, S, t, x, c)'
    BY <1>1, <1>3, <1>7, OrderKept
  <2>2. InsertInv(p, l, S)'
    BY <1>1, <1>3, <1>5, <1>6, <1>7, <2>1, KeyedKept
    DEF InsertInv, FindLabels, OutsideLabels, LinkLabels
  <2>3. DeleteInv(p, l, S)' /\ LengthInv(p, l, S)'
    BY <1>3 DEF DeleteInv, LookupLabels, UnlinkLabels, LengthInv
  <2> QED BY <1>3, <2>2, <2>3, LabelFacts
          DEF Moves, Inside, WholeLabels, FindLabels, LookupLabels, LengthLabels
<1>9. th[p].pc \in InsertLabels
  BY LabelFacts
<1> QED BY <1>3, <1>8, <1>9, LabelFacts DEF Advances, LengthLabels, MadeLabels

LEMMA Link4Step ==
  ASSUME NEW p, NEW l, NEW S, Owns(p, l, S), UNCHANGED key, Store(p), th[p].pc = "link4"
  PROVE  Advances(p, l, S, S)
<1> DEFINE x == th[p].elem
           c == th[p].curr
           t == th[p].tmp
<1>1. /\ x \in Keyed \ S /\ Between(l, S, t, x, c)
      /\ NextLinks(l, S \cup {x}, RingNodes(l, S)) /\ PrevLinks(l, S, RingNodes(l, S))
      /\ KeysApart /\ l \in HeadIds /\ S \in SUBSET Keyed
  BY DEF Owns, Inside, InsertInv, OutsideLabels, LinkLabels
<1>2. x \notin RingNodes(l, S) /\ RingNodes(l, S) \subseteq Nodes /\ x \in Nodes
  BY <1>1, NodeFacts DEF RingNodes, Nodes
<1>3. /\ Moves(p, l, S) /\ th'[p].pc = "link5" /\ th'[p].count = 0
      /\ th'[p].tmp = t /\ th'[p].curr = c
      /\ \A q \in Nodes, g \in Fields :
           mem'[q][g] = IF q = x /\ g = "prev" THEN t ELSE mem[q][g]
  BY StoreAt, StoreTable
<1>4. th'[p].elem = x /\ mem'[x].prev = t
  BY <1>2, <1>3 DEF Fields, Moves
<1>5. \A q \in RingNodes(l, S) : mem'[q].next = mem[q].next /\ mem'[q].prev = mem[q].prev
  BY <1>2, <1>3 DEF Fields
<1>6. NextLinks(l, S \cup {x}, RingNodes(l, S))' /\ PrevLinks(l, S, RingNodes(l, S))'
  BY <1>1, <1>4, <1>5, OrderKept DEF NextLinks, PrevLinks
<1>7. Inside(p, l, S)'
  <2>1. Between(l, S, t, x, c)'
    BY <1>1, <1>3, <1>4, OrderKept
  <2>2. InsertInv(p, l, S)'
    BY <1>1, <1>3, <1>4, <1>6, <2>1, KeyedKept
    DEF InsertInv, FindLabels, OutsideLabels, LinkLabels
  <2>3. DeleteInv(p, l, S)' /\ LengthInv(p, l, S)'
    BY <1>3 DEF DeleteInv, LookupLabels, UnlinkLabels, LengthInv
  <2> QED BY <1>3, <2>2, <2>3, LabelFacts
          DEF Moves, Inside, WholeLabels, FindLabels, LookupLabels, LengthLabels
<1>8. th[p].pc \in InsertLabels
  BY LabelFacts
<1> QED BY <1>3, <1>7, <1>8, LabelFacts DEF Advances, LengthLabels, MadeLabels

(* insert: the store that puts the element into the list.                  *)
LEMMA Link5Step ==
  ASSUME NEW p, NEW l, NEW S, Owns(p, l, S), UNCHANGED key, Store(p), th[p].pc = "link5",
         NEW T, T = S \cup {th[p].elem}
  PROVE  Advances(p, l, S, T)
<1> DEFINE x == th[p].elem
           c == th[p].curr
           t == th[p].tmp
<1>1. /\ x \in Keyed \ S /\ Between(l, S, t, x, c) /\ mem[x].prev = t
      /\ NextLinks(l, T, RingNodes(l, S)) /\ PrevLinks(l, S, RingNodes(l, S))
      /\ KeysApart /\ l \in HeadIds /\ S \in SUBSET Keyed
  BY DEF Owns, Inside, InsertInv, OutsideLabels, LinkLabels
<1>2. /\ x \notin RingNodes(l, S) /\ RingNodes(l, S) \subseteq Nodes /\ x \in Nodes
      /\ c \in RingNodes(l, S) /\ Adjacent(l, S, t, c)
  BY <1>1, NodeFacts DEF RingNodes, Nodes, Between, Adjacent
<1>3. /\ Moves(p, l, S) /\ th'[p].pc = "link6" /\ th'[p].count = 0
      /\ th'[p].tmp = t /\ th'[p].curr = c
      /\ \A q \in Nodes, g \in Fields :
           mem'[q][g] = IF q = c /\ g = "prev" THEN x ELSE mem[q][g]
  BY <1>2, StoreAt, StoreTable
<1>4. th'[p].elem = x /\ RingNodes(l, T) = RingNodes(l, S) \cup {x} /\ x \in T
  BY <1>3 DEF Moves, RingNodes
<1>5. /\ Adjacent(l, T, t, x) /\ Adjacent(l, T, x, c)
      /\ \A a, b : Adjacent(l, S, a, b) /\ b # c => Adjacent(l, T, a, b)
  BY <1>1, InsertBetween
<1>6. NextLinks(l, T, RingNodes(l, T) \ {x})'
  <2> SUFFICES ASSUME NEW q \in RingNodes(l, S) PROVE Adjacent(l, T, q, mem'[q].next)
    BY <1>4, OrderKept DEF NextLinks
  <2> QED BY <1>1, <1>2, <1>3 DEF NextLinks, Fields
<1>7. PrevLinks(l, T, RingNodes(l, T))'
  <2> SUFFICES ASSUME NEW q \in RingNodes(l, T) PROVE Adjacent(l, T, mem'[q].prev, q)
    BY OrderKept DEF PrevLinks
  <2>1. CASE q = x
    BY <1>1, <1>2, <1>3, <1>5, <2>1 DEF Fields
  <2>2. CASE q = c
    BY <1>2, <1>3, <1>5, <2>2 DEF Fields
  <2>3. CASE q # x /\ q # c
    <3>1. q \in RingNodes(l, S) /\ mem'[q].prev = mem[q].prev
      BY <1>2, <1>3, <1>4, <2>3 DEF Fields
    <3>2. Adjacent(l, S, mem[q].prev, q)
      BY <1>1, <3>1 DEF PrevLinks
    <3> QED BY <1>5, <2>3, <3>1, <3>2
  <2> QED BY <2>1, <2>2, <2>3
<1>8. Inside(p, l, T)'
  <2>1. Adjacent(l, T, x, c)'
    BY <1>3, <1>4, <1>5, OrderKept
  <2>2. InsertInv(p, l, T)'
    BY <1>3, <1>4, <1>6, <1>7, <2>1
    DEF InsertInv, FindLabels, OutsideLabels, LinkLabels
  <2>3. DeleteInv(p, l, T)' /\ LengthInv(p, l, T)'
    BY <1>3 DEF DeleteInv, LookupLabels, UnlinkLabels, LengthInv
  <2> QED BY <1>3, <2>2, <2>3, LabelFacts
          DEF Moves, Inside, WholeLabels, FindLabels, LookupLabels, LengthLabels
<1>9. th[p].pc \in InsertLabels
  BY LabelFacts
<1> QED BY <1>3, <1>8, <1>9, LabelFacts DEF Advances, LengthLabels, MadeLabels

LEMMA Link6Step ==
  ASSUME NEW p, NEW l, NEW S, Owns(p, l, S), UNCHANGED key, Store(p), th[p].pc = "link6"
  PROVE  Advances(p, l, S, S)
<1> DEFINE x == th[p].elem
           c == th[p].curr
<1>1. /\ x \in S /\ Adjacent(l, S, x, c)
      /\ NextLinks(l, S, RingNodes(l, S) \ {x}) /\ PrevLinks(l, S, RingNodes(l, S))
      /\ KeysApart /\ l \in HeadIds /\ S \in SUBSET Keyed
  BY DEF Owns, Inside, InsertInv
<1>2. RingNodes(l, S) \subseteq Nodes /\ x \in RingNodes(l, S)
  BY <1>1, NodeFacts DEF RingNodes, Nodes
<1>3. /\ Moves(p, l, S) /\ th'[p].pc = "done" /\ th'[p].count = 0
      /\ \A q \in Nodes, g \in Fields :
           mem'[q][g] = IF q = x /\ g = "next" THEN c ELSE mem[q][g]
  BY StoreAt, StoreTable
<1>4. Ring(l, S)'
  <2> SUFFICES ASSUME NEW q \in RingNodes(l, S)
               PROVE  Adjacent(l, S, q, mem'[q].next) /\ Adjacent(l, S, mem'[q].prev, q)
    BY OrderKept DEF Ring, NextLinks, PrevLinks
  <2> QED BY <1>1, <1>2, <1>3 DEF NextLinks, PrevLinks, Fields
<1>5. Inside(p, l, S)'
  <2>1. InsertInv(p, l, S)'
    BY <1>3 DEF InsertInv, FindLabels, OutsideLabels, LinkLabels
  <2>2. DeleteInv(p, l, S)' /\ LengthInv(p, l, S)'
    BY <1>3 DEF DeleteInv, LookupLabels, UnlinkLabels, LengthInv
  <2> QED BY <1>3, <1>4, <2>1, <2>2 DEF Moves, Inside
<1>6. th[p].pc \in InsertLabels
  BY LabelFacts
<1> QED BY <1>3, <1>5, <1>6, LabelFacts DEF Advances, LengthLabels, MadeLabels

(* insert into an empty list: the second store puts the element into it.   *)
LEMMA OnlyStep ==
  ASSUME NEW p, NEW l, NEW S, Owns(p, l, S), UNCHANGED key, Store(p),
         th[p].pc \in {"only1", "only3", "only4"}
  PROVE  Advances(p, l, S, S)
<1> DEFINE x == th[p].elem
           h == Head(l)
<1>1. /\ KeysApart /\ l \in HeadIds /\ S \in SUBSET Keyed /\ th[p].list = h
      /\ th[p].pc \in InsertLabels /\ h \in RingNodes(l, S)
  BY LabelFacts DEF Owns, Inside, RingNodes
<1>2. x \in Keyed /\ x \in Nodes /\ h \in Nodes /\ x # h
  BY <1>1, NodeFacts DEF Owns, Inside, InsertInv, OutsideLabels
<1>3. CASE th[p].pc = "only1"
  <2>1. S = {} /\ x \in Keyed \ S /\ mem[x].prev = Null /\ Ring(l, S)
    BY <1>3 DEF Owns, Inside, InsertInv, OutsideLabels, WholeLabels
  <2>2. mem[h].prev = h
    BY <2>1 DEF Ring, PrevLinks, Adjacent, RingNodes
  <2>3. /\ Moves(p, l, S) /\ th'[p].pc = "only2" /\ th'[p].count = 0
        /\ mem'[h].next = x /\ mem'[h].prev = h /\ mem'[x].prev = Null /\ th'[p].elem = x
    BY <1>1, <1>2, <1>3, <2>1, <2>2, StoreAt, StoreTable DEF Fields, Moves
  <2>4. InsertInv(p, l, S)'
    BY <2>1, <2>3, KeyedKept DEF InsertInv, FindLabels, OutsideLabels, LinkLabels
  <2>5. DeleteInv(p, l, S)' /\ LengthInv(p, l, S)'
    BY <2>3 DEF DeleteInv, LookupLabels, UnlinkLabels, LengthInv
  <2>6. Inside(p, l, S)'
    BY <2>3, <2>4, <2>5, LabelFacts
    DEF Moves, Inside, WholeLabels, FindLabels, LookupLabels, LengthLabels
  <2> QED BY <1>1, <1>3, <2>3, <2>6, LabelFacts DEF Advances, LengthLabels, MadeLabels
<1>4. CASE th[p].pc = "only3"
  <2>1. S = {x} /\ mem[h].next = x /\ mem[h].prev = x
    BY <1>4 DEF Owns, Inside, InsertInv
  <2>2. /\ Moves(p, l, S) /\ th'[p].pc = "only4" /\ th'[p].count = 0
        /\ mem'[h].next = x /\ mem'[h].prev = x /\ mem'[x].prev = h /\ th'[p].elem = x
    BY <1>1, <1>2, <1>4, <2>1, StoreAt, StoreTable DEF Fields, Moves
  <2>3. InsertInv(p, l, S)'
    BY <1>2, <2>1, <2>2, KeyedKept DEF InsertInv, FindLabels, OutsideLabels, LinkLabels
  <2>4. DeleteInv(p, l, S)' /\ LengthInv(p, l, S)'
    BY <2>2 DEF DeleteInv, LookupLabels, UnlinkLabels, LengthInv
  <2>5. Inside(p, l, S)'
    BY <2>2, <2>3, <2>4, LabelFacts
    DEF Moves, Inside, WholeLabels, FindLabels, LookupLabels, LengthLabels
  <2> QED BY <1>1, <1>4, <2>2, <2>5, LabelFacts DEF Advances, LengthLabels, MadeLabels
<1>5. CASE th[p].pc = "only4"
  <2>1. S = {x} /\ mem[h].next = x /\ mem[h].prev = x /\ mem[x].prev = h
    BY <1>5 DEF Owns, Inside, InsertInv
  <2>2. /\ Moves(p, l, S) /\ th'[p].pc = "done" /\ th'[p].count = 0
        /\ mem'[h].next = x /\ mem'[h].prev = x /\ mem'[x].prev = h /\ mem'[x].next = h
    BY <1>1, <1>2, <1>5, <2>1, StoreAt, StoreTable DEF Fields, Moves
  <2>3. Adjacent(l, S, h, x) /\ Adjacent(l, S, x, h)
    <3>1. key[x] \in Nat
      BY <1>1, <1>2, KeyFacts, KeyedElements
    <3> QED BY <1>2, <2>1, <3>1 DEF Adjacent, RingNodes, Behind, Ahead
  <2>4. Ring(l, S)'
    <3> SUFFICES ASSUME NEW q \in RingNodes(l, S)
                 PROVE  Adjacent(l, S, q, mem'[q].next) /\ Adjacent(l, S, mem'[q].prev, q)
      BY OrderKept DEF Ring, NextLinks, PrevLinks
    <3> QED BY <2>1, <2>2, <2>3 DEF RingNodes
  <2>5. InsertInv(p, l, S)' /\ DeleteInv(p, l, S)' /\ LengthInv(p, l, S)'
    BY <2>2
    DEF InsertInv, FindLabels, OutsideLabels, LinkLabels, DeleteInv, LookupLabels, UnlinkLabels,
        LengthInv
  <2>6. Inside(p, l, S)'
    BY <2>2, <2>4, <2>5 DEF Moves, Inside
  <2> QED BY <1>1, <1>5, <2>2, <2>6, LabelFacts DEF Advances, LengthLabels, MadeLabels
<1> QED BY <1>3, <1>4, <1>5

LEMMA Only2Step ==
  ASSUME NEW p, NEW l, NEW S, Owns(p, l, S), UNCHANGED key, Store(p), th[p].pc = "only2",
         NEW T, T = S \cup {th[p].elem}
  PROVE  Advances(p, l, S, T)
<1> DEFINE x == th[p].elem
           h == Head(l)
<1>1. /\ KeysApart /\ l \in HeadIds /\ S \in SUBSET Keyed /\ th[p].list = h
      /\ th[p].pc \in InsertLabels /\ h \in RingNodes(l, S)
  BY LabelFacts DEF Owns, Inside, RingNodes
<1>2. x \in Keyed /\ x \in Nodes /\ h \in Nodes /\ x # h
  BY <1>1, NodeFacts DEF Owns, Inside, InsertInv, OutsideLabels
<1>3. S = {} /\ mem[x].prev = Null /\ mem[h].next = x
  BY DEF Owns, Inside, InsertInv, OutsideLabels
<1>4. /\ Moves(p, l, S) /\ th'[p].pc = "only3" /\ th'[p].count = 0
      /\ mem'[h].next = x /\ mem'[h].prev = x /\ mem'[x].prev = Null /\ th'[p].elem = x
  BY <1>1, <1>2, <1>3, StoreAt, StoreTable DEF Fields, Moves
<1>5. InsertInv(p, l, T)'
  BY <1>2, <1>3, <1>4, KeyedKept DEF InsertInv, FindLabels, OutsideLabels, LinkLabels
<1>6. DeleteInv(p, l, T)' /\ LengthInv(p, l, T)'
  BY <1>4 DEF DeleteInv, LookupLabels, UnlinkLabels, LengthInv
<1>7. Inside(p, l, T)'
  BY <1>4, <1>5, <1>6, LabelFacts
  DEF Moves, Inside, WholeLabels, FindLabels, LookupLabels, LengthLabels
<1> QED BY <1>1, <1>4, <1>7, LabelFacts DEF Advances, LengthLabels, MadeLabels

(* lookup: on to the next node.                                            *)
LEMMA SeekLoadStep ==
  ASSUME NEW p, NEW l, NEW S, Owns(p, l, S), UNCHANGED key, Load(p),
         th[p].pc \in {"lookup", "seekOn"}
  PROVE  Advances(p, l, S, S)
<1> DEFINE h == Head(l)
           x == th[p].elem
           base == IF th[p].pc = "lookup" THEN h ELSE th[p].curr
<1>1. /\ Moves(p, l, S) /\ mem' = mem /\ th'[p].pc = "seek" /\ th'[p].count = 0
      /\ th'[p].curr = mem[base].next
  <2>1. CASE th[p].pc = "lookup"
    BY <2>1, LoadAt, LoadTable DEF Owns, Inside
  <2>2. CASE th[p].pc = "seekOn"
    BY <2>2, LoadAt, LoadTable
  <2> QED BY <2>1, <2>2
<1>2. Ring(l, S) /\ x \in S /\ x \in ListElements
  BY KeyedElements DEF Owns, Inside, DeleteInv, WholeLabels, LookupLabels
<1>3. base \in RingNodes(l, S) /\ (base # h => key[base] < key[x])
  BY DEF Owns, Inside, DeleteInv, RingNodes
<1>4. Adjacent(l, S, base, mem[base].next)
  BY <1>2, <1>3 DEF Ring, NextLinks
<1>5. mem[base].next \in RingNodes(l, S)
  BY <1>4 DEF Adjacent
<1>6. PassedBy(l, S, x, mem[base].next)
  <2> SUFFICES ASSUME NEW e \in S, Ahead(l, e, mem[base].next) PROVE key[e] < key[x]
    BY DEF PassedBy
  <2>1. base # h /\ ~ (key[base] < key[e])
    BY <1>4 DEF Adjacent, Behind
  <2>2. key[base] \in Nat /\ key[e] \in Nat /\ key[x] \in Nat
    BY <1>2, <1>3, <2>1, KeyFacts DEF Owns, RingNodes
  <2> QED BY <1>3, <2>1, <2>2
<1>7. Inside(p, l, S)'
  <2>1. DeleteInv(p, l, S)'
    BY <1>1, <1>2, <1>5, <1>6, OrderKept DEF Moves, DeleteInv, LookupLabels, UnlinkLabels
  <2>2. InsertInv(p, l, S)'
    BY <1>1 DEF InsertInv, FindLabels, OutsideLabels, LinkLabels
  <2>3. LengthInv(p, l, S)'
    BY <1>1 DEF LengthInv
  <2>4. Ring(l, S)'
    BY <1>1, <1>2, LookStep
  <2> QED BY <1>1, <2>1, <2>2, <2>3, <2>4 DEF Moves, Inside, LookupLabels
<1>8. th[p].pc \in LookupLabels
  BY DEF LookupLabels
<1> QED BY <1>1, <1>7, <1>8, LabelFacts DEF Advances, LengthLabels, MadeLabels, LookupLabels

(* lookup: the element that is looked for is found, and no other.          *)
LEMMA SeekStep ==
  ASSUME NEW p, NEW l, NEW S, Owns(p, l, S), UNCHANGED key, Seek(p)
  PROVE  Advances(p, l, S, S)
<1> DEFINE h == Head(l)
           x == th[p].elem
           q == th[p].curr
<1>1. th[p].pc = "seek" /\ th[p].list = h /\ UNCHANGED <<mem, outcome>>
  BY DEF Seek, On, Owns, Inside
<1>2. /\ Ring(l, S) /\ x \in S /\ x \in ListElements /\ th[p].count = 0
      /\ q \in RingNodes(l, S) /\ PassedBy(l, S, x, q)
  BY <1>1, KeyedElements DEF Owns, Inside, DeleteInv, LengthInv, WholeLabels, LookupLabels
<1>3. /\ q \in S /\ q # h /\ q # Null /\ ~IsHead(q) /\ mem[q].next # q
      /\ ~ (key[x] < key[q]) /\ key[q] \in Nat /\ key[x] \in Nat
      /\ key[q] = key[x] => q = x
  <2>1. key[x] \in Nat
    BY <1>2, KeyFacts DEF Owns
  <2>2. ~ Ahead(l, x, q)
    BY <1>2, <2>1 DEF PassedBy
  <2>3. q # h /\ ~ (key[x] < key[q])
    BY <2>2 DEF Ahead
  <2>4. q \in S
    BY <1>2, <2>3 DEF RingNodes
  <2>5. Adjacent(l, S, q, mem[q].next)
    BY <1>2 DEF Ring, NextLinks
  <2>6. /\ q # Null /\ ~IsHead(q) /\ key[q] \in Nat
        /\ key[q] = key[x] => q = x
    BY <1>2, <2>4, KeyFacts, NodeFacts DEF Owns, IsHead
  <2>7. mem[q].next # q
    BY <2>3, <2>5, <2>6 DEF Adjacent
  <2> QED BY <2>1, <2>3, <2>4, <2>6, <2>7
<1>4. PICK at \in {"delete", "seekOn"} :
        /\ Moves(p, l, S) /\ th'[p].pc = at /\ th'[p].count = 0 /\ th'[p].curr = q
        /\ at = "seekOn" => key[q] < key[x]
  <2>1. CASE key[q] = key[x]
    <3> DEFINE new == [pc |-> "delete", elem |-> q]
    <3>1. Set(p, new)
      BY <1>1, <1>3, <2>1 DEF Seek, SelfLoop, Found
    <3>2. DOMAIN new = {"pc", "elem"} /\ new["pc"] = "delete" /\ new["elem"] = x
      BY <1>3, <2>1
    <3> HIDE DEF new
    <3> QED BY <1>1, <1>2, <3>1, <3>2, SetAt DEF IdleLabels
  <2>2. CASE key[q] # key[x]
    <3>1. Set(p, [pc |-> "seekOn"])
      BY <1>1, <1>3, <2>2 DEF Seek, SelfLoop
    <3> QED BY <1>1, <1>2, <1>3, <2>2, <3>1, JumpAt DEF IdleLabels
  <2> QED BY <2>1, <2>2
<1>5. Inside(p, l, S)'
  <2>1. DeleteInv(p, l, S)'
    BY <1>2, <1>3, <1>4, OrderKept DEF Moves, DeleteInv, LookupLabels, UnlinkLabels
  <2>2. InsertInv(p, l, S)'
    BY <1>4 DEF InsertInv, FindLabels, OutsideLabels, LinkLabels
  <2>3. LengthInv(p, l, S)'
    BY <1>4 DEF LengthInv
  <2>4. Ring(l, S)'
    BY <1>1, <1>2, LookStep
  <2> QED BY <1>4, <2>1, <2>2, <2>3, <2>4 DEF Moves, Inside, LookupLabels
<1>6. th[p].pc \in LookupLabels
  BY <1>1 DEF LookupLabels
<1> QED BY <1>1, <1>4, <1>5, <1>6, LabelFacts DEF Advances, LengthLabels, MadeLabels, LookupLabels

(* delete: the element is not NULL.                                        *)
LEMMA TestElementStep ==
  ASSUME NEW p, NEW l, NEW S, Owns(p, l, S), UNCHANGED key, TestElement(p)
  PROVE  Advances(p, l, S, S)
<1> DEFINE x == th[p].elem
<1>1. th[p].pc = "delete" /\ UNCHANGED <<mem, outcome>>
  BY DEF TestElement, On
<1>2. Ring(l, S) /\ x \in S /\ th[p].count = 0
  BY <1>1 DEF Owns, Inside, DeleteInv, LengthInv, WholeLabels, LookupLabels
<1>3. Set(p, [pc |-> "unlink1"])
  BY <1>2, NodeFacts DEF TestElement, Owns
<1>4. Moves(p, l, S) /\ th'[p].pc = "unlink1" /\ th'[p].count = 0
  BY <1>1, <1>2, <1>3, JumpAt DEF IdleLabels
<1>5. Inside(p, l, S)'
  <2>1. DeleteInv(p, l, S)'
    BY <1>2, <1>4 DEF Moves, DeleteInv, LookupLabels, UnlinkLabels
  <2>2. InsertInv(p, l, S)' /\ LengthInv(p, l, S)'
    BY <1>4 DEF InsertInv, FindLabels, OutsideLabels, LinkLabels, LengthInv
  <2>3. Ring(l, S)'
    BY <1>1, <1>2, LookStep
  <2> QED BY <1>4, <2>1, <2>2, <2>3 DEF Moves, Inside, UnlinkLabels
<1>6. th[p].pc \in LookupLabels
  BY <1>1 DEF LookupLabels
<1> QED BY <1>1, <1>4, <1>5, <1>6, LabelFacts DEF Advances, LengthLabels, MadeLabels, UnlinkLabels

(* delete: the neighbours of the element are read.                         *)
LEMMA UnlinkLoadStep ==
  ASSUME NEW p, NEW l, NEW S, Owns(p, l, S), UNCHANGED key, Load(p),
         th[p].pc \in {"unlink1", "unlink2", "unlink4", "unlink5"}
  PROVE  Advances(p, l, S, S)
<1> DEFINE x == th[p].elem
<1>1. /\ Moves(p, l, S) /\ mem' = mem /\ th'[p].count = 0
      /\ \/ /\ th[p].pc = "unlink1" /\ th'[p].pc = "unlink2" /\ th'[p].tmp = mem[x].prev
         \/ /\ th[p].pc = "unlink2" /\ th'[p].pc = "unlink3" /\ th'[p].val = mem[x].next
            /\ th'[p].tmp = th[p].tmp
         \/ /\ th[p].pc = "unlink4" /\ th'[p].pc = "unlink5" /\ th'[p].tmp = mem[x].next
         \/ /\ th[p].pc = "unlink5" /\ th'[p].pc = "unlink6" /\ th'[p].val = mem[x].prev
            /\ th'[p].tmp = th[p].tmp
  <2>1. CASE th[p].pc = "unlink1"
    BY <2>1, LoadAt, LoadTable
  <2>2. CASE th[p].pc = "unlink2"
    BY <2>2, LoadAt, LoadTable
  <2>3. CASE th[p].pc = "unlink4"
    BY <2>3, LoadAt, LoadTable
  <2>4. CASE th[p].pc = "unlink5"
    BY <2>4, LoadAt, LoadTable
  <2> QED BY <2>1, <2>2, <2>3, <2>4
<1>2. th[p].pc \in UnlinkLabels /\ th'[p].pc \in UnlinkLabels /\ th'[p].elem = x
  BY <1>1 DEF UnlinkLabels, Moves
<1>3. DeleteInv(p, l, S) /\ x \in S
  BY <1>2 DEF Owns, Inside, DeleteInv
<1>4. DeleteInv(p, l, S)'
  <2>1. \A R : /\ NextLinks(l, S \ {x}, R)' <=> NextLinks(l, S \ {x}, R)
               /\ PrevLinks(l, S, R)' <=> PrevLinks(l, S, R)
    BY <1>1, <1>2, RingKept
  <2>2. Adjacent(l, S, x, mem[x].next)' <=> Adjacent(l, S, x, mem[x].next)
    BY <1>1, <1>2, OrderKept
  <2>3. th'[p].pc \in {"unlink5", "unlink6"} =>
          /\ NextLinks(l, S \ {x}, RingNodes(l, S) \ {x})
          /\ PrevLinks(l, S, RingNodes(l, S))
          /\ Adjacent(l, S, x, mem[x].next)
    BY <1>1, <1>3 DEF DeleteInv
  <2>4. /\ th'[p].pc \in {"unlink2", "unlink3"} => th'[p].tmp = mem[x].prev
        /\ th'[p].pc = "unlink3" => th'[p].val = mem[x].next
        /\ th'[p].pc \in {"unlink5", "unlink6"} => th'[p].tmp = mem[x].next
        /\ th'[p].pc = "unlink6" => th'[p].val = mem[x].prev
    BY <1>1, <1>3 DEF DeleteInv
  <2>5. th'[p].pc \notin {"seek", "seekOn", "unlink4"}
    BY <1>1
  <2> QED BY <1>1, <1>2, <1>3, <2>1, <2>2, <2>3, <2>4, <2>5 DEF DeleteInv
<1>5. InsertInv(p, l, S)' /\ LengthInv(p, l, S)'
  BY <1>1 DEF InsertInv, FindLabels, OutsideLabels, LinkLabels, LengthInv
<1>6. th'[p].pc \in WholeLabels => Ring(l, S)'
  <2>1. th'[p].pc \in WholeLabels => th[p].pc \in {"unlink1", "unlink2"}
    BY <1>1 DEF WholeLabels, FindLabels, LookupLabels, LengthLabels
  <2>2. th[p].pc \in {"unlink1", "unlink2"} => Ring(l, S)
    BY DEF Owns, Inside, WholeLabels
  <2> QED BY <1>1, <2>1, <2>2, LookStep
<1>7. Inside(p, l, S)'
  BY <1>1, <1>2, <1>4, <1>5, <1>6 DEF Moves, Inside
<1>8. th'[p].pc \notin MadeLabels /\ th[p].pc \notin MadeLabels
  BY <1>1 DEF MadeLabels
<1> QED BY <1>1, <1>2, <1>7, <1>8, LabelFacts DEF Advances, LengthLabels, MadeLabels

(* delete: the predecessor is given its new successor.                     *)
LEMMA Unlink3Step ==
  ASSUME NEW p, NEW l, NEW S, Owns(p, l, S), UNCHANGED key, Store(p), th[p].pc = "unlink3"
  PROVE  Advances(p, l, S, S)
<1> DEFINE x == th[p].elem
           t == th[p].tmp
           n == mem[x].next
<1>1. /\ KeysApart /\ l \in HeadIds /\ S \in SUBSET Keyed
      /\ x \in S /\ t = mem[x].prev /\ th[p].val = n /\ Ring(l, S)
      /\ th[p].pc \in LookupLabels \cup UnlinkLabels
  BY DEF Owns, Inside, DeleteInv, UnlinkLabels, WholeLabels
<1>2. Adjacent(l, S, t, x) /\ Adjacent(l, S, x, n)
  BY <1>1 DEF Ring, NextLinks, PrevLinks, RingNodes
<1>3. /\ Adjacent(l, S \ {x}, t, n) /\ t # x /\ n # x
      /\ \A a, b : Adjacent(l, S, a, b) /\ a # x /\ b # x => Adjacent(l, S \ {x}, a, b)
  <2> HIDE DEF x, t, n
  <2> QED BY <1>1, <1>2, RemoveBetween
<1>4. RingNodes(l, S) \subseteq Nodes /\ x \in RingNodes(l, S) /\ t \in RingNodes(l, S)
  BY <1>1, <1>2, NodeFacts DEF RingNodes, Nodes, Adjacent
<1>5. /\ Moves(p, l, S) /\ th'[p].pc = "unlink4" /\ th'[p].count = 0
      /\ \A q \in Nodes, g \in Fields :
           mem'[q][g] = IF q = t /\ g = "next" THEN n ELSE mem[q][g]
  BY <1>1, <1>4, StoreAt, StoreTable
<1>6. th'[p].elem = x /\ mem'[x].next = n
  BY <1>3, <1>4, <1>5 DEF Moves, Fields
<1>7. NextLinks(l, S \ {x}, RingNodes(l, S) \ {x})'
  <2> SUFFICES ASSUME NEW q \in RingNodes(l, S), q # x
               PROVE  Adjacent(l, S \ {x}, q, mem'[q].next)
    BY <1>6, OrderKept DEF NextLinks
  <2>1. CASE q = t
    BY <1>3, <1>4, <1>5, <2>1 DEF Fields
  <2>2. CASE q # t
    <3>1. mem'[q].next = mem[q].next /\ Adjacent(l, S, q, mem[q].next)
      BY <1>1, <1>4, <1>5, <2>2 DEF Fields, Ring, NextLinks
    <3>2. mem[q].next # x
      BY <1>1, <1>2, <2>2, <3>1, PrevUnique
    <3> QED BY <1>3, <3>1, <3>2
  <2> QED BY <2>1, <2>2
<1>8. PrevLinks(l, S, RingNodes(l, S))'
  <2> SUFFICES ASSUME NEW q \in RingNodes(l, S) PROVE Adjacent(l, S, mem'[q].prev, q)
    BY OrderKept DEF PrevLinks
  <2> QED BY <1>1, <1>4, <1>5 DEF Ring, PrevLinks, Fields
<1>9. Inside(p, l, S)'
  <2>1. Adjacent(l, S, x, mem[x].next)'
    BY <1>2, <1>6, OrderKept
  <2>2. DeleteInv(p, l, S)'
    BY <1>1, <1>5, <1>6, <1>7, <1>8, <2>1 DEF DeleteInv, LookupLabels, UnlinkLabels
  <2>3. InsertInv(p, l, S)' /\ LengthInv(p, l, S)'
    BY <1>5 DEF InsertInv, FindLabels, OutsideLabels, LinkLabels, LengthInv
  <2> QED BY <1>5, <2>2, <2>3
          DEF Moves, Inside, UnlinkLabels, WholeLabels, FindLabels, LookupLabels, LengthLabels
<1> QED BY <1>1, <1>5, <1>9, LabelFacts
        DEF Advances, LengthLabels, MadeLabels, LookupLabels, UnlinkLabels

(* delete: the store that takes the element out of the list.               *)
LEMMA Unlink6Step ==
  ASSUME NEW p, NEW l, NEW S, Owns(p, l, S), UNCHANGED key, Store(p), th[p].pc = "unlink6",
         NEW T, T = S \ {th[p].elem}
  PROVE  Advances(p, l, S, T)
<1> DEFINE x == th[p].elem
           n == th[p].tmp
           t == th[p].val
<1>1. /\ KeysApart /\ l \in HeadIds /\ S \in SUBSET Keyed
      /\ x \in S /\ t = mem[x].prev /\ n = mem[x].next /\ T = S \ {x}
      /\ NextLinks(l, T, RingNodes(l, S) \ {x}) /\ PrevLinks(l, S, RingNodes(l, S))
      /\ Adjacent(l, S, x, n)
      /\ th[p].pc \in LookupLabels \cup UnlinkLabels
  BY DEF Owns, Inside, DeleteInv, UnlinkLabels
<1>2. Adjacent(l, S, t, x)
  BY <1>1 DEF PrevLinks, RingNodes
<1>3. /\ Adjacent(l, T, t, n) /\ t # x /\ n # x
      /\ \A a, b : Adjacent(l, S, a, b) /\ a # x /\ b # x => Adjacent(l, T, a, b)
  <2> HIDE DEF x, t, n
  <2>1. /\ Adjacent(l, S \ {x}, t, n) /\ t # x /\ n # x
        /\ \A a, b : Adjacent(l, S, a, b) /\ a # x /\ b # x => Adjacent(l, S \ {x}, a, b)
    <3>1. /\ KeysApart /\ l \in HeadIds /\ S \in SUBSET Keyed /\ x \in S
          /\ Adjacent(l, S, t, x) /\ Adjacent(l, S, x, n)
      BY <1>1, <1>2
    <3> QED BY ONLY <3>1, RemoveBetween
  <2> QED BY <1>1, <2>1
<1>4. /\ RingNodes(l, S) \subseteq Nodes /\ n \in RingNodes(l, S)
      /\ RingNodes(l, T) = RingNodes(l, S) \ {x}
  <2>1. x # Head(l)
    BY <1>1, NodeFacts
  <2> QED BY <1>1, <2>1, NodeFacts DEF RingNodes, Nodes, Adjacent
<1>5. /\ Moves(p, l, S) /\ th'[p].pc = "done" /\ th'[p].count = 0
      /\ \A q \in Nodes, g \in Fields :
           mem'[q][g] = IF q = n /\ g = "prev" THEN t ELSE mem[q][g]
  BY <1>4, StoreAt, StoreTable
<1>6. Ring(l, T)'
  <2> SUFFICES ASSUME NEW q \in RingNodes(l, T)
               PROVE  Adjacent(l, T, q, mem'[q].next) /\ Adjacent(l, T, mem'[q].prev, q)
    BY OrderKept DEF Ring, NextLinks, PrevLinks
  <2>1. q \in RingNodes(l, S) /\ q # x /\ q \in Nodes
    BY <1>4
  <2>2. Adjacent(l, T, q, mem'[q].next)
    BY <1>1, <1>5, <2>1 DEF NextLinks, Fields
  <2>3. CASE q = n
    BY <1>3, <1>5, <2>1, <2>2, <2>3 DEF Fields
  <2>4. CASE q # n
    <3>1. mem'[q].prev = mem[q].prev /\ Adjacent(l, S, mem[q].prev, q)
      BY <1>1, <1>5, <2>1, <2>4 DEF PrevLinks, Fields
    <3>2. mem[q].prev # x
      BY <1>1, <2>4, <3>1, NextUnique
    <3> QED BY <1>3, <2>1, <2>2, <3>1, <3>2
  <2> QED BY <2>3, <2>4
<1>7. Inside(p, l, T)'
  <2>1. DeleteInv(p, l, T)'
    BY <1>5 DEF DeleteInv, LookupLabels, UnlinkLabels
  <2>2. InsertInv(p, l, T)' /\ LengthInv(p, l, T)'
    BY <1>5 DEF InsertInv, FindLabels, OutsideLabels, LinkLabels, LengthInv
  <2> QED BY <1>5, <1>6, <2>1, <2>2 DEF Moves, Inside
<1> QED BY <1>1, <1>5, <1>7, LabelFacts
        DEF Advances, LengthLabels, MadeLabels, LookupLabels, UnlinkLabels

(* length: on to the next node, with all that are ahead of it counted.     *)
LEMMA LengthLoadStep ==
  ASSUME NEW p, NEW l, NEW S, Owns(p, l, S), UNCHANGED key, Load(p),
         th[p].pc \in {"length", "countOn"}
  PROVE  Advances(p, l, S, S)
<1> DEFINE h == Head(l)
           base == IF th[p].pc = "length" THEN h ELSE th[p].curr
           n == mem[base].next
<1>1. /\ Moves(p, l, S) /\ mem' = mem /\ th'[p].pc = "count" /\ th'[p].count = th[p].count
      /\ th'[p].curr = n
  <2>1. CASE th[p].pc = "length"
    BY <2>1, LoadAt, LoadTable DEF Owns, Inside
  <2>2. CASE th[p].pc = "countOn"
    BY <2>2, LoadAt, LoadTable
  <2> QED BY <2>1, <2>2
<1>2. Ring(l, S) /\ S \in SUBSET Keyed /\ l \in HeadIds /\ KeysApart
  BY DEF Owns, Inside, WholeLabels, LengthLabels
<1>3. /\ base \in RingNodes(l, S)
      /\ th[p].pc = "countOn" =>
           base \in S /\ th[p].count = Cardinality({e \in S : Ahead(l, e, base)}) + 1
      /\ th[p].pc = "length" => th[p].count = 0
  BY DEF Owns, Inside, LengthInv, RingNodes
<1>4. Adjacent(l, S, base, n)
  BY <1>2, <1>3 DEF Ring, NextLinks
<1>5. n \in RingNodes(l, S)
  BY <1>4 DEF Adjacent
<1>6. th[p].count = Cardinality({e \in S : Ahead(l, e, n)})
  <2>1. CASE th[p].pc = "length"
    <3>1. {e \in S : Ahead(l, e, n)} = {}
      BY <1>4, <2>1 DEF Adjacent, Behind
    <3> QED BY <1>3, <2>1, <3>1, FS_EmptySet
  <2>2. CASE th[p].pc = "countOn"
    <3> DEFINE A == {e \in S : Ahead(l, e, base)}
    <3>1. base \in S /\ base # h /\ base \notin A
      <4>1. base \in S /\ base # h /\ key[base] \in Nat
        BY <1>2, <1>3, <2>2, KeyFacts, NodeFacts
      <4> QED BY <4>1 DEF Ahead
    <3>2. \A e \in S : Ahead(l, e, n) <=> e \in A \/ e = base
      <4> SUFFICES ASSUME NEW e \in S PROVE Ahead(l, e, n) <=> e \in A \/ e = base
        OBVIOUS
      <4>1. key[e] \in Nat /\ key[base] \in Nat /\ (key[e] = key[base] => e = base)
        BY <1>2, <3>1, KeyFacts
      <4>2. n # h => n \in S /\ key[n] \in Nat /\ key[base] < key[n]
        BY <1>2, <1>4, <1>5, <3>1, KeyFacts DEF Adjacent, RingNodes
      <4>3. Ahead(l, e, n) => ~ (key[base] < key[e])
        BY <1>4 DEF Adjacent, Behind
      <4>4. e \in A <=> key[e] < key[base]
        BY <3>1 DEF Ahead
      <4> HIDE DEF A
      <4>5. Ahead(l, e, n) <=> n = h \/ key[e] < key[n]
        BY DEF Ahead
      <4> QED BY <4>1, <4>2, <4>3, <4>4, <4>5
    <3>3. {e \in S : Ahead(l, e, n)} = A \cup {base}
      BY <3>1, <3>2
    <3>4. IsFiniteSet(A)
      <4>1. IsFiniteSet(S)
        BY <1>2, SortedListAssumption, FS_Subset, KeyedElements
      <4> QED BY <4>1, FS_Subset
    <3> HIDE DEF A
    <3>5. Cardinality(A \cup {base}) = Cardinality(A) + 1
      BY <3>1, <3>4, FS_AddElement
    <3> QED BY <1>3, <2>2, <3>3, <3>5 DEF A
  <2> QED BY <2>1, <2>2
<1>7. Inside(p, l, S)'
  <2>1. LengthInv(p, l, S)'
    <3>1. (\A e \in S : Ahead(l, e, n) <=> Ahead(l, e, th[p].curr)')
      BY <1>1, OrderKept
    <3>2. {e \in S : Ahead(l, e, th[p].curr)}' = {e \in S : Ahead(l, e, n)}
      BY <3>1
    <3> QED BY <1>1, <1>5, <1>6, <3>2 DEF LengthInv
  <2>2. DeleteInv(p, l, S)' /\ InsertInv(p, l, S)'
    BY <1>1
    DEF DeleteInv, LookupLabels, UnlinkLabels, InsertInv, FindLabels, OutsideLabels, LinkLabels
  <2>3. Ring(l, S)'
    BY <1>1, <1>2, LookStep
  <2> QED BY <1>1, <2>1, <2>2, <2>3 DEF Moves, Inside, LengthLabels
<1>8. th[p].pc \in LengthLabels
  BY DEF LengthLabels
<1> QED BY <1>1, <1>7, <1>8, LabelFacts DEF Advances, LengthLabels, MadeLabels

(* length: at the head every element has been counted.                     *)
LEMMA CountStep ==
  ASSUME NEW p, NEW l, NEW S, Owns(p, l, S), UNCHANGED key, Count(p)
  PROVE  Advances(p, l, S, S)
<1> DEFINE h == Head(l)
           q == th[p].curr
           A == {e \in S : Ahead(l, e, q)}
<1>1. th[p].pc = "count" /\ UNCHANGED <<mem, outcome>>
  BY DEF Count, On
<1>2. Ring(l, S) /\ S \in SUBSET Keyed /\ l \in HeadIds /\ KeysApart
  BY <1>1 DEF Owns, Inside, WholeLabels, LengthLabels
<1>3. q \in RingNodes(l, S) /\ th[p].count = Cardinality(A)
  BY <1>1 DEF Owns, Inside, LengthInv
<1>4. /\ IsHead(q) <=> q = h
      /\ q # h => q \in S /\ key[q] \in Nat /\ mem[q].next # q /\ q \notin A
  <2>1. Adjacent(l, S, q, mem[q].next)
    BY <1>2, <1>3 DEF Ring, NextLinks
  <2>2. IsHead(q) <=> q = h
    BY <1>2, <1>3, NodeFacts DEF IsHead, RingNodes
  <2>3. q # h => q \in S /\ key[q] \in Nat
    BY <1>2, <1>3, KeyFacts DEF RingNodes
  <2> QED BY <2>1, <2>2, <2>3 DEF Adjacent, Ahead
<1>5. IsFiniteSet(S) /\ Cardinality(S) <= CountCap
  BY <1>2, SortedListAssumption, FS_Subset, FS_CardinalityType, KeyedElements
<1>6. th[p].count \in Nat /\ Cardinality(A) <= Cardinality(S) /\ Cardinality(S) \in Nat
  <2>1. A \subseteq S
    OBVIOUS
  <2> HIDE DEF A
  <2> QED BY <1>3, <1>5, <2>1, FS_Subset, FS_CardinalityType
<1>7. \/ /\ q = h /\ Set(p, [pc |-> "done"])
      \/ /\ q # h /\ Set(p, [pc |-> "countOn", count |-> th[p].count + 1])
  <2>1. CASE q = h
    BY <1>4, <2>1 DEF Count
  <2>2. CASE q # h
    <3>1. Cardinality(A) < Cardinality(S)
      <4>1. A \subseteq S /\ A # S
        BY <1>4, <2>2
      <4> HIDE DEF A
      <4> QED BY <1>5, <4>1, FS_Subset, FS_CardinalityType
    <3>2. th[p].count < CountCap
      BY <1>3, <1>5, <1>6, <3>1, SortedListAssumption
    <3> QED BY <1>4, <2>2, <3>2 DEF Count, SelfLoop
  <2> QED BY <2>1, <2>2
<1>8. \/ /\ q = h /\ Moves(p, l, S) /\ th'[p].pc = "done" /\ th'[p].count = th[p].count
      \/ /\ q # h /\ Moves(p, l, S) /\ th'[p].pc = "countOn" /\ th'[p].count = th[p].count + 1
         /\ th'[p].curr = q
  <2>1. CASE q = h /\ Set(p, [pc |-> "done"])
    BY <1>1, <2>1, JumpAt DEF IdleLabels
  <2>2. CASE q # h /\ Set(p, [pc |-> "countOn", count |-> th[p].count + 1])
    <3> DEFINE new == [pc |-> "countOn", count |-> th[p].count + 1]
    <3>1. /\ DOMAIN new = {"pc", "count"} /\ new["pc"] = "countOn"
          /\ new["count"] = th[p].count + 1 /\ Set(p, new)
      BY <2>2
    <3> HIDE DEF new
    <3> QED BY <1>1, <1>6, <2>2, <3>1, SetAt DEF IdleLabels
  <2> QED BY <1>7, <2>1, <2>2
<1>9. Inside(p, l, S)'
  <2>1. LengthInv(p, l, S)'
    <3>1. CASE th'[p].pc = "done"
      BY <3>1 DEF LengthInv
    <3>2. CASE th'[p].pc # "done"
      <4>1. {e \in S : Ahead(l, e, th[p].curr)}' = A
        BY <1>8, <3>2, OrderKept
      <4> QED BY <1>3, <1>4, <1>8, <3>2, <4>1 DEF LengthInv
    <3> QED BY <3>1, <3>2
  <2>2. DeleteInv(p, l, S)' /\ InsertInv(p, l, S)'
    BY <1>8
    DEF DeleteInv, LookupLabels, UnlinkLabels, InsertInv, FindLabels, OutsideLabels, LinkLabels
  <2>3. Ring(l, S)'
    BY <1>1, <1>2, LookStep
  <2> QED BY <1>8, <2>1, <2>2, <2>3 DEF Moves, Inside, LengthLabels
<1>10. q = h => A = S
  BY DEF Ahead
<1>11. th[p].pc \in LengthLabels
  BY <1>1 DEF LengthLabels
<1>12. th'[p].pc = "done" => th'[p].count = Cardinality(S)
  BY <1>3, <1>8, <1>10
<1> HIDE DEF A
<1> QED BY <1>1, <1>8, <1>9, <1>11, <1>12, LabelFacts DEF Advances, LengthLabels, MadeLabels

(* Only inside an operation of a running process.                          *)
LEMMA OperateLabels ==
  ASSUME NEW p, Operate(p)
  PROVE  th[p].pc \notin IdleLabels \cup {"done"} /\ outcome = "running"
<1>1. th[p].pc \in DOMAIN Loads \cup DOMAIN Stores
                   \cup {"insert", "insertPrev", "walk", "delete", "seek", "count"}
  BY DEF Operate, Load, Store, TestEmpty, Walk, TestElement, Seek, Count, SegFault, FollowsNull, On
<1>2. th[p].pc \notin IdleLabels \cup {"done"}
  BY <1>1, LoadTable, StoreTable DEF IdleLabels
<1> QED BY <1>2 DEF Operate, Load, Store, TestEmpty, Walk, TestElement, Seek, Count, SegFault, On

(* No step of the operation follows NULL.                                  *)
LEMMA NoSegFault ==
  ASSUME NEW p, NEW l, NEW S, Owns(p, l, S)
  PROVE  ~SegFault(p)
<1> DEFINE at == th[p].pc
           x  == th[p].elem
<1> SUFFICES ASSUME FollowsNull(p) PROVE FALSE
  BY DEF SegFault
<1>1. /\ KeysApart /\ l \in HeadIds /\ S \in SUBSET Keyed /\ Inside(p, l, S)
      /\ th[p].list = Head(l)
  BY DEF Owns, Inside
<1>2. \A q \in RingNodes(l, S) : q # Null
  BY <1>1, NodeFacts DEF RingNodes
<1>3. \A q, n : Adjacent(l, S, q, n) => q # Null /\ n # Null
  BY <1>2 DEF Adjacent
<1>4. Head(l) # Null /\ \A e \in ListElements : e # Null
  BY <1>1, NodeFacts
<1>5. at \in {"walk", "walkOn", "link1", "seek", "seekOn", "count", "countOn"} =>
        th[p].curr # Null
  BY <1>1, <1>2 DEF Inside, InsertInv, DeleteInv, LengthInv, RingNodes
<1>6. at \in LinkLabels => th[p].curr # Null /\ th[p].tmp # Null
  BY <1>1, <1>3 DEF Inside, InsertInv, Between
<1>7. at \in LinkLabels \cup OnlyLabels \cup {"link6"} => x # Null
  BY <1>1, <1>4, KeyedElements DEF Inside, InsertInv, OutsideLabels, LinkLabels, OnlyLabels
<1>8. at \in UnlinkLabels => x # Null
  BY <1>1, <1>4, KeyedElements DEF Inside, DeleteInv
<1>9. at \in {"unlink3", "unlink6"} => th[p].tmp # Null
  <2>1. CASE at = "unlink3"
    <3>1. x \in S /\ th[p].tmp = mem[x].prev /\ Ring(l, S)
      BY <1>1, <2>1 DEF Inside, DeleteInv, UnlinkLabels, WholeLabels
    <3>2. Adjacent(l, S, mem[x].prev, x)
      BY <3>1 DEF Ring, PrevLinks, RingNodes
    <3> QED BY <1>3, <3>1, <3>2
  <2>2. CASE at = "unlink6"
    <3>1. th[p].tmp = mem[x].next /\ Adjacent(l, S, x, mem[x].next)
      BY <1>1, <2>2 DEF Inside, DeleteInv
    <3> QED BY <1>3, <3>1
  <2> QED BY <2>1, <2>2
<1>10. CASE at \in DOMAIN Loads /\ th[p][Loads[at][1]] = Null
  BY <1>1, <1>4, <1>5, <1>6, <1>8, <1>10, LoadTable DEF LinkLabels, UnlinkLabels
<1>11. CASE at \in DOMAIN Stores /\ th[p][Stores[at][1]] = Null
  BY <1>1, <1>4, <1>6, <1>7, <1>9, <1>11, StoreTable DEF LinkLabels, OnlyLabels
<1>12. CASE at \in {"walk", "count", "seek"} /\ th[p].curr = Null
  BY <1>5, <1>12
<1> QED BY <1>10, <1>11, <1>12 DEF FollowsNull

(* insert, lookup with delete, and length of SortedList.c on a list that    *)
(* nobody else touches, access by access: every step keeps what is known   *)
(* of the pointers while the operation is going on, leaves the nodes of    *)
(* other lists alone, and changes the elements of the list by just the     *)
(* element of the operation, at one store.                                 *)
THEOREM OperateAdvances ==
  ASSUME NEW p, NEW l, NEW S, Owns(p, l, S), UNCHANGED key, Operate(p),
         NEW T, T = After(p, S)
  PROVE  Advances(p, l, S, T)
<1> DEFINE at == th[p].pc
<1>1. at \notin {"only2", "link5", "unlink6"} => T = S
  BY DEF After
<1>2. CASE Load(p)
  <2>1. at \in DOMAIN Loads
    BY <1>2 DEF Load
  <2>2. at \in {"first", "walkOn", "link1", "link3", "unlink1", "unlink2", "unlink4",
                "unlink5", "lookup", "seekOn", "length", "countOn"}
    BY <2>1, LoadTable
  <2>3. T = S
    BY <1>1, <2>2
  <2> QED BY <1>2, <2>2, <2>3, FirstStep, LinkLoadStep, UnlinkLoadStep, SeekLoadStep, LengthLoadStep
<1>3. CASE Store(p)
  <2>1. at \in {"only1", "only2", "only3", "only4", "link2", "link4", "link5", "link6",
                "unlink3", "unlink6"}
    BY <1>3, StoreTable DEF Store
  <2>2. at \in {"only2", "link5"} => T = S \cup {th[p].elem}
    BY DEF After
  <2>3. at = "unlink6" => T = S \ {th[p].elem}
    BY DEF After
  <2>4. CASE at \in {"only1", "only3", "only4", "link2", "link4", "link6", "unlink3"}
    BY <1>1, <1>3, <2>4, OnlyStep, Link2Step, Link4Step, Link6Step, Unlink3Step
  <2>5. CASE at \in {"only2", "link5", "unlink6"}
    BY <1>3, <2>2, <2>3, <2>5, Only2Step, Link5Step, Unlink6Step
  <2> QED BY <2>1, <2>4, <2>5
<1>4. CASE TestEmpty(p)
  BY <1>1, <1>4, TestEmptyStep DEF TestEmpty, On
<1>5. CASE Walk(p)
  BY <1>1, <1>5, WalkStep DEF Walk, On
<1>6. CASE TestElement(p)
  BY <1>1, <1>6, TestElementStep DEF TestElement, On
<1>7. CASE Seek(p)
  BY <1>1, <1>7, SeekStep DEF Seek, On
<1>8. CASE Count(p)
  BY <1>1, <1>8, CountStep DEF Count, On
<1> QED BY <1>2, <1>3, <1>4, <1>5, <1>6, <1>7, <1>8, NoSegFault DEF Operate

(* Steps of other processes elsewhere leave the operation as it was.       *)
LEMMA InsideKept ==
  ASSUME NEW p, NEW l \in HeadIds, NEW S \in SUBSET Keyed, Inside(p, l, S),
         UNCHANGED key, th'[p] = th[p],
         \A q \in RingNodes(l, S) : mem'[q] = mem[q],
         th[p].pc \notin LengthLabels \cup {"done"} => mem'[th[p].elem] = mem[th[p].elem]
  PROVE  Inside(p, l, S)'
<1> DEFINE x == th[p].elem
<1>1. RingNodes(l, S) \subseteq Nodes /\ Head(l) \in RingNodes(l, S)
  BY NodeFacts DEF RingNodes, Nodes
<1>2. \A q \in RingNodes(l, S) : mem'[q] = mem[q]
  OBVIOUS
<1>3. th[p].pc \in OutsideLabels \cup {"only3", "only4"} => mem'[x] = mem[x]
  BY DEF OutsideLabels, FindLabels, LinkLabels, LengthLabels
<1>4. \A T, R : R \subseteq RingNodes(l, S) =>
        /\ NextLinks(l, T, R)' <=> NextLinks(l, T, R)
        /\ PrevLinks(l, T, R)' <=> PrevLinks(l, T, R)
  BY <1>2, RingKept
<1>5. Ring(l, S)' <=> Ring(l, S)
  BY <1>4 DEF Ring
<1>6. InsertInv(p, l, S)'
  <2>1. InsertInv(p, l, S)
    BY DEF Inside
  <2>2. mem'[Head(l)] = mem[Head(l)]
    BY <1>1, <1>2
  <2>3. th[p].pc \in OutsideLabels => x \in ListElements /\ mem'[x] = mem[x]
    BY <1>3, <2>1, KeyedElements DEF InsertInv
  <2>4. th[p].pc \in {"only3", "only4"} => mem'[x] = mem[x]
    BY <1>3, <2>1 DEF InsertInv
  <2>5. th[p].pc \in {"link3", "link4", "link5"} =>
          NextLinks(l, S \cup {x}, RingNodes(l, S))' /\ PrevLinks(l, S, RingNodes(l, S))'
    <3>1. x' = x
      OBVIOUS
    <3> QED BY <1>4, <2>1, <3>1 DEF InsertInv
  <2>6. th[p].pc = "link6" =>
          NextLinks(l, S, RingNodes(l, S) \ {x})' /\ PrevLinks(l, S, RingNodes(l, S))'
    <3>1. x' = x /\ RingNodes(l, S) \ {x} \subseteq RingNodes(l, S)
      OBVIOUS
    <3> QED BY <1>4, <2>1, <3>1 DEF InsertInv
  <2>7. th[p].pc = "link5" => th[p].pc \in OutsideLabels
    BY DEF OutsideLabels, LinkLabels
  <2>8. /\ \A c : (PassedBy(l, S, x, c) => PassedBy(l, S, x, c)')
        /\ \A c : (Ahead(l, x, c) => Ahead(l, x, c)')
        /\ \A t, c : (Between(l, S, t, x, c) => Between(l, S, t, x, c)')
        /\ \A c : (Adjacent(l, S, x, c) => Adjacent(l, S, x, c)')
    BY OrderKept
  <2> QED BY <2>1, <2>2, <2>3, <2>4, <2>5, <2>6, <2>7, <2>8, KeyedKept DEF InsertInv
<1>7. DeleteInv(p, l, S)'
  <2>1. DeleteInv(p, l, S)
    BY DEF Inside
  <2>2. th[p].pc \in UnlinkLabels => x \in S /\ mem'[x] = mem[x]
    BY <1>2, <2>1 DEF DeleteInv, RingNodes
  <2>3. th[p].pc \in {"unlink4", "unlink5", "unlink6"} =>
          NextLinks(l, S \ {x}, RingNodes(l, S) \ {x})' /\ PrevLinks(l, S, RingNodes(l, S))'
    <3>1. x' = x /\ RingNodes(l, S) \ {x} \subseteq RingNodes(l, S)
      OBVIOUS
    <3> QED BY <1>4, <2>1, <3>1 DEF DeleteInv
  <2>4. th[p].pc \in {"unlink2", "unlink3", "unlink4", "unlink5", "unlink6"} =>
          th[p].pc \in UnlinkLabels
    BY DEF UnlinkLabels
  <2>5. /\ \A c : (PassedBy(l, S, x, c) => PassedBy(l, S, x, c)')
        /\ \A c : (Adjacent(l, S, x, c) => Adjacent(l, S, x, c)')
    BY OrderKept
  <2> QED BY <2>1, <2>2, <2>3, <2>4, <2>5 DEF DeleteInv
<1>8. LengthInv(p, l, S)'
  <2>1. \A e : Ahead(l, e, th[p].curr)' <=> Ahead(l, e, th[p].curr)
    BY OrderKept
  <2>2. {e \in S : Ahead(l, e, th[p].curr)}' = {e \in S : Ahead(l, e, th[p].curr)}
    BY <2>1
  <2> QED BY <2>2 DEF Inside, LengthInv
<1> QED BY <1>5, <1>6, <1>7, <1>8 DEF Inside

LEMMA WholeKept ==
  ASSUME NEW l, NEW S, Ring(l, S), UNCHANGED key,
         \A q \in RingNodes(l, S) : mem'[q] = mem[q]
  PROVE  Ring(l, S)'
BY RingKept DEF Ring

(* The call of an operation on a list that is whole.                       *)
LEMMA CallInside ==
  ASSUME NEW p, NEW l, NEW S, Ring(l, S), UNCHANGED <<mem, key>>,
         th'[p].list = Head(l), th'[p].count = 0,
         \/ /\ th'[p].pc = "insert" /\ th'[p].elem \in Keyed \ S
            /\ mem[th'[p].elem].prev = Null
         \/ th'[p].pc = "lookup" /\ th'[p].elem \in S
         \/ th'[p].pc = "length"
  PROVE  Inside(p, l, S)'
<1>1. Ring(l, S)'
  BY WholeKept
<1>2. InsertInv(p, l, S)'
  BY KeyedKept DEF InsertInv, FindLabels, OutsideLabels, LinkLabels
<1>3. DeleteInv(p, l, S)'
  BY DEF DeleteInv, LookupLabels, UnlinkLabels
<1>4. LengthInv(p, l, S)'
  BY DEF LengthInv
<1>5. th'[p].pc \in InsertLabels \cup LookupLabels \cup LengthLabels
  BY LabelFacts DEF LookupLabels, LengthLabels
<1> QED BY <1>1, <1>2, <1>3, <1>4, <1>5 DEF Inside

-----------------------------------------------------------------------------
(* What is met along the pointers of a ring.                               *)

AllAhead(l, S, q)  == {e \in S : Ahead(l, e, q)}
AllBehind(l, S, q) == {e \in S : Behind(l, q, e)}

(* Of the elements ahead of q its predecessor is the last.                 *)
LEMMA AheadStep ==
  ASSUME KeysApart, NEW l \in HeadIds, NEW S \in SUBSET Keyed,
         NEW b, NEW q, Adjacent(l, S, b, q), AllAhead(l, S, q) # {}
  PROVE  /\ b \in S /\ b \notin AllAhead(l, S, b)
         /\ AllAhead(l, S, q) = AllAhead(l, S, b) \cup {b}
<1> DEFINE h == Head(l)
<1>1. b \in RingNodes(l, S) /\ q \in RingNodes(l, S)
  BY DEF Adjacent
<1>2. b # h /\ b \in S
  <2>1. b # h
    BY DEF Adjacent, Behind, AllAhead
  <2> QED BY <1>1, <2>1 DEF RingNodes
<1>3. key[b] \in Nat /\ \A e \in S : key[e] \in Nat /\ (key[e] = key[b] => e = b)
  BY <1>2, KeyFacts
<1>4. q # h => key[b] < key[q] /\ key[q] \in Nat
  BY <1>1, <1>2, KeyFacts DEF Adjacent, RingNodes
<1>5. ~Ahead(l, b, b)
  BY <1>2, <1>3 DEF Ahead
<1>6. \A e \in S : Ahead(l, e, q) <=> Ahead(l, e, b) \/ e = b
  <2> SUFFICES ASSUME NEW e \in S PROVE Ahead(l, e, q) <=> Ahead(l, e, b) \/ e = b
    OBVIOUS
  <2>1. Ahead(l, e, q) => ~ (key[b] < key[e])
    BY DEF Adjacent, Behind
  <2>2. Ahead(l, e, q) <=> q = h \/ key[e] < key[q]
    BY DEF Ahead
  <2>3. Ahead(l, e, b) <=> key[e] < key[b]
    BY <1>2 DEF Ahead
  <2> QED BY <1>3, <1>4, <2>1, <2>2, <2>3
<1> QED BY <1>2, <1>5, <1>6 DEF AllAhead

LEMMA BehindStep ==
  ASSUME KeysApart, NEW l \in HeadIds, NEW S \in SUBSET Keyed,
         NEW n, NEW q, Adjacent(l, S, q, n), AllBehind(l, S, q) # {}
  PROVE  /\ n \in S /\ n \notin AllBehind(l, S, n)
         /\ AllBehind(l, S, q) = AllBehind(l, S, n) \cup {n}
<1> DEFINE h == Head(l)
<1>1. n \in RingNodes(l, S) /\ q \in RingNodes(l, S)
  BY DEF Adjacent
<1>2. n # h /\ n \in S
  <2>1. n # h
    BY DEF Adjacent, Ahead, AllBehind
  <2> QED BY <1>1, <2>1 DEF RingNodes
<1>3. key[n] \in Nat /\ \A e \in S : key[e] \in Nat /\ (key[e] = key[n] => e = n)
  BY <1>2, KeyFacts
<1>4. q # h => key[q] < key[n] /\ key[q] \in Nat
  BY <1>1, <1>2, KeyFacts DEF Adjacent, RingNodes
<1>5. ~Behind(l, n, n)
  BY <1>2, <1>3 DEF Behind
<1>6. \A e \in S : Behind(l, q, e) <=> Behind(l, n, e) \/ e = n
  <2> SUFFICES ASSUME NEW e \in S PROVE Behind(l, q, e) <=> Behind(l, n, e) \/ e = n
    OBVIOUS
  <2>1. Behind(l, q, e) => ~ (key[e] < key[n])
    BY DEF Adjacent, Ahead
  <2>2. Behind(l, q, e) <=> q = h \/ key[q] < key[e]
    BY DEF Behind
  <2>3. Behind(l, n, e) <=> key[n] < key[e]
    BY <1>2 DEF Behind
  <2> QED BY <1>3, <1>4, <2>1, <2>2, <2>3
<1> QED BY <1>2, <1>5, <1>6 DEF AllBehind

LEMMA Finite ==
  ASSUME NEW S \in SUBSET ListElements
  PROVE  /\ IsFiniteSet(S) /\ Cardinality(S) \in Nat
         /\ Cardinality(S) <= Cardinality(ListElements) /\ Cardinality(ListElements) \in Nat
         /\ Cardinality(S) = 0 <=> S = {}
         /\ \A e : e \notin S => Cardinality(S \cup {e}) = Cardinality(S) + 1
BY SortedListAssumption, FS_Subset, FS_CardinalityType, FS_EmptySet, FS_AddElement

(* A walk backwards from the head meets exactly the elements.              *)
LEMMA PrevChain ==
  ASSUME KeysApart, NEW l \in HeadIds, NEW S \in SUBSET Keyed,
         PrevLinks(l, S, RingNodes(l, S))
  PROVE  Chain(l, "prev") = S
<1> DEFINE h == Head(l)
           N == Cardinality(ListElements)
           k == Cardinality(S)
           at == Path(l, "prev", N)
           A(q) == AllAhead(l, S, q)
<1>1. N \in Nat /\ k \in Nat /\ k <= N
  BY KeyedElements, Finite
<1>2. at[0] = h /\ \A i \in 1..N : at[i] = IF at[i - 1] = Null THEN Null ELSE mem[at[i - 1]].prev
  BY <1>1, PathSteps
<1>3. Chain(l, "prev") = {at[i] : i \in {m \in 1..N : \A j \in 1..m : at[j] \in ListElements}}
  BY DEF Chain
<1> HIDE DEF at, N
<1>4. \A i \in 0..N : at[i] \in RingNodes(l, S)
  <2> DEFINE T == {i \in Nat : i <= N => at[i] \in RingNodes(l, S)}
  <2>1. 0 \in T
    BY <1>2 DEF RingNodes
  <2>2. ASSUME NEW i \in Nat, i \in T PROVE i + 1 \in T
    <3> SUFFICES ASSUME i + 1 <= N PROVE at[i + 1] \in RingNodes(l, S)
      OBVIOUS
    <3>1. at[i] \in RingNodes(l, S)
      BY <1>1, <2>2
    <3>2. at[i] # Null
      BY <3>1, NodeFacts DEF RingNodes
    <3>3. i + 1 \in 1..N /\ (i + 1) - 1 = i
      BY <1>1
    <3>4. at[i + 1] = mem[at[i]].prev
      BY <1>2, <3>2, <3>3
    <3> QED BY <3>1, <3>4 DEF PrevLinks, Adjacent
  <2> HIDE DEF T
  <2>3. \A i \in Nat : i \in T
    BY <2>1, <2>2, Induction
  <2> QED BY <1>1, <2>3 DEF T
<1>5. \A i \in 0..(N - 1) : Adjacent(l, S, at[i + 1], at[i])
  <2> SUFFICES ASSUME NEW i \in 0..(N - 1) PROVE Adjacent(l, S, at[i + 1], at[i])
    OBVIOUS
  <2>1. at[i] \in RingNodes(l, S) /\ i + 1 \in 1..N /\ (i + 1) - 1 = i
    BY <1>1, <1>4
  <2>2. at[i] # Null
    BY <2>1, NodeFacts DEF RingNodes
  <2>3. at[i + 1] = mem[at[i]].prev
    BY <1>2, <2>1, <2>2
  <2> QED BY <2>1, <2>3 DEF PrevLinks
<1>6. Chain(l, "prev") \subseteq S
  <2> SUFFICES ASSUME NEW m \in 1..N, \A j \in 1..m : at[j] \in ListElements
               PROVE  at[m] \in S
    BY <1>3
  <2>1. at[m] \in ListElements /\ at[m] \in RingNodes(l, S)
    BY <1>1, <1>4
  <2> QED BY <2>1, NodeFacts DEF RingNodes
<1>7. S \subseteq Chain(l, "prev")
  <2> DEFINE Met(j) == /\ \A i \in 1..j : at[i] \in S
                       /\ \A e \in S : e \in A(at[j]) \/ \E i \in 1..j : e = at[i]
                       /\ Cardinality(A(at[j])) = k - j
             T == {j \in Nat : j <= k => Met(j)}
  <2>1. 0 \in T
    <3>1. A(at[0]) = S
      BY <1>2 DEF AllAhead, Ahead
    <3> QED BY <1>1, <3>1
  <2>2. ASSUME NEW j \in Nat, j \in T PROVE j + 1 \in T
    <3> SUFFICES ASSUME j + 1 <= k PROVE Met(j + 1)
      OBVIOUS
    <3>1. Met(j)
      BY <1>1, <2>2
    <3>2. Adjacent(l, S, at[j + 1], at[j])
      BY <1>1, <1>5
    <3>3. A(at[j]) # {}
      <4>1. Cardinality(A(at[j])) # 0
        BY <1>1, <3>1
      <4> QED BY <4>1, FS_EmptySet
    <3> DEFINE b == at[j + 1]
               q == at[j]
    <3> HIDE DEF b, q
    <3>4. b \in S /\ b \notin A(b) /\ A(q) = A(b) \cup {b}
      BY <3>2, <3>3, AheadStep DEF b, q
    <3>5. Cardinality(A(q)) = Cardinality(A(b)) + 1 /\ Cardinality(A(b)) \in Nat
      <4>1. A(b) \in SUBSET ListElements
        BY KeyedElements DEF AllAhead
      <4> HIDE DEF A
      <4> QED BY <3>4, <4>1, Finite
    <3> HIDE DEF A
    <3>6. \A i \in 1..(j + 1) : at[i] \in S
      BY <3>1, <3>4 DEF b
    <3>7. ASSUME NEW e \in S, e \notin A(b) PROVE \E i \in 1..(j + 1) : e = at[i]
      <4>1. CASE e = b
        BY <4>1 DEF b
      <4>2. CASE e # b
        <5>1. e \notin A(q)
          BY <3>4, <3>7, <4>2
        <5>2. PICK i \in 1..j : e = at[i]
          BY <3>1, <5>1 DEF q
        <5> QED BY <5>2
      <4> QED BY <4>1, <4>2
    <3>8. Cardinality(A(b)) = k - (j + 1)
      BY <1>1, <3>1, <3>5 DEF q
    <3> QED BY <3>6, <3>7, <3>8 DEF b
  <2>3. Met(k)
    <3> HIDE DEF Met
    <3>1. \A j \in Nat : j \in T
      <4> HIDE DEF T
      <4> QED BY <2>1, <2>2, Induction
    <3> QED BY <1>1, <3>1
  <2>4. A(at[k]) = {}
    <3>1. A(at[k]) \in SUBSET ListElements
      BY KeyedElements DEF AllAhead
    <3>2. Cardinality(A(at[k])) = 0
      BY <1>1, <2>3
    <3> QED BY <3>1, <3>2, Finite
  <2> SUFFICES ASSUME NEW e \in S PROVE e \in Chain(l, "prev")
    OBVIOUS
  <2>5. PICK i \in 1..k : e = at[i]
    BY <2>3, <2>4
  <2>6. i \in 1..N /\ \A j \in 1..i : at[j] \in ListElements
    BY <1>1, <2>3, KeyedElements
  <2> QED BY <1>3, <2>5, <2>6
<1> QED BY <1>6, <1>7

(* The one moment at which a backward pointer of the list is not set: the  *)
(* walk meets the only element, then NULL.                                 *)
LEMMA OnlyChain ==
  ASSUME NEW l \in HeadIds, NEW x \in ListElements,
         mem[Head(l)].prev = x, mem[x].prev = Null
  PROVE  Chain(l, "prev") = {x}
<1> DEFINE N == Cardinality(ListElements)
           at == Path(l, "prev", N)
<1>1. N \in Nat /\ 1 <= N
  BY Finite
<1>2. at[0] = Head(l) /\ \A i \in 1..N : at[i] = IF at[i - 1] = Null THEN Null ELSE mem[at[i - 1]].prev
  BY <1>1, PathSteps
<1>3. Chain(l, "prev") = {at[i] : i \in {m \in 1..N : \A j \in 1..m : at[j] \in ListElements}}
  BY DEF Chain
<1> HIDE DEF at, N
<1>4. Null \notin ListElements /\ x # Null /\ Head(l) # Null
  BY NodeFacts
<1>5. at[1] = x
  <2>1. 1 \in 1..N /\ 1 - 1 = 0
    BY <1>1
  <2> QED BY <1>2, <1>4, <2>1
<1>6. \A m \in 1..N : m # 1 => at[2] = Null /\ 2 \in 1..m
  <2> SUFFICES ASSUME NEW m \in 1..N, m # 1 PROVE at[2] = Null /\ 2 \in 1..m
    OBVIOUS
  <2>1. 2 \in 1..N /\ 2 - 1 = 1 /\ 2 \in 1..m
    BY <1>1
  <2> QED BY <1>2, <1>4, <1>5, <2>1
<1>7. {m \in 1..N : \A j \in 1..m : at[j] \in ListElements} = {1}
  BY <1>1, <1>4, <1>5, <1>6
<1> QED BY <1>3, <1>5, <1>7

(* So do walks backwards while an operation is going on: the elements      *)
(* change by one store.                                                    *)
LEMMA InsideChain ==
  ASSUME NEW p, NEW l, NEW S, Owns(p, l, S)
  PROVE  Chain(l, "prev") = S
<1> DEFINE at == th[p].pc
           x  == th[p].elem
           h  == Head(l)
<1>1. /\ KeysApart /\ l \in HeadIds /\ S \in SUBSET Keyed /\ Inside(p, l, S)
      /\ InsertInv(p, l, S) /\ DeleteInv(p, l, S)
  BY DEF Owns, Inside
<1>2. CASE at \in WholeLabels
  BY <1>1, <1>2, PrevChain DEF Inside, Ring
<1>3. CASE at \in {"link3", "link4", "link5", "link6", "unlink4", "unlink5", "unlink6"}
  BY <1>1, <1>3, PrevChain DEF InsertInv, DeleteInv
<1>4. CASE at = "only2"
  <2>1. S = {} /\ mem[h].prev = h
    BY <1>1, <1>4 DEF InsertInv
  <2>2. PrevLinks(l, S, RingNodes(l, S))
    BY <2>1 DEF PrevLinks, RingNodes, Adjacent
  <2> QED BY <1>1, <2>2, PrevChain
<1>5. CASE at = "only3"
  <2>1. x \in ListElements /\ S = {x} /\ mem[h].prev = x /\ mem[x].prev = Null
    BY <1>1, <1>5, KeyedElements DEF InsertInv
  <2> QED BY <1>1, <2>1, OnlyChain
<1>6. CASE at = "only4"
  <2>1. x \in ListElements /\ S = {x} /\ mem[h].prev = x /\ mem[x].prev = h
    BY <1>1, <1>6, KeyedElements DEF InsertInv
  <2>2. Adjacent(l, S, h, x) /\ Adjacent(l, S, x, h)
    BY <1>1, <2>1, KeyFacts, NodeFacts DEF Adjacent, RingNodes, Behind, Ahead
  <2>3. PrevLinks(l, S, RingNodes(l, S))
    BY <2>1, <2>2 DEF PrevLinks, RingNodes
  <2> QED BY <1>1, <2>3, PrevChain
<1>7. \/ at \in WholeLabels
      \/ at \in {"link3", "link4", "link5", "link6", "unlink4", "unlink5", "unlink6",
                 "only2", "only3", "only4"}
  BY <1>1, LabelFacts
  DEF Inside, WholeLabels, FindLabels, LookupLabels, LengthLabels, UnlinkLabels
<1> QED BY <1>2, <1>3, <1>4, <1>5, <1>6, <1>7

(* What Ring says of every link, IsRing says of a walk around: forwards     *)
(* from the head one meets each element once, in the order of the keys,    *)
(* and comes back to the head, and backwards one undoes each step.         *)
THEOREM RingIsRing ==
  ASSUME KeysApart, NEW l \in HeadIds, NEW S \in SUBSET Keyed, Ring(l, S)
  PROVE  IsRing(l, S)
<1> DEFINE h == Head(l)
           k == Cardinality(S)
           at == Path(l, "next", k + 1)
           B(q) == AllBehind(l, S, q)
<1>1. k \in Nat
  BY KeyedElements, Finite
<1>2. at[0] = h /\ \A i \in 1..(k + 1) : at[i] = IF at[i - 1] = Null THEN Null ELSE mem[at[i - 1]].next
  BY <1>1, PathSteps
<1>3. /\ {at[i] : i \in 1..k} = S
      /\ at[k + 1] = h
      /\ \A i \in 0..k : mem[at[i + 1]].prev = at[i]
      /\ \A i \in 1..(k - 1) : key[at[i]] < key[at[i + 1]]
      => IsRing(l, S)
  BY DEF IsRing
<1> HIDE DEF at
<1>4. \A i \in 0..(k + 1) : at[i] \in RingNodes(l, S)
  <2> DEFINE T == {i \in Nat : i <= k + 1 => at[i] \in RingNodes(l, S)}
  <2>1. 0 \in T
    BY <1>2 DEF RingNodes
  <2>2. ASSUME NEW i \in Nat, i \in T PROVE i + 1 \in T
    <3> SUFFICES ASSUME i + 1 <= k + 1 PROVE at[i + 1] \in RingNodes(l, S)
      OBVIOUS
    <3>1. at[i] \in RingNodes(l, S)
      BY <1>1, <2>2
    <3>2. at[i] # Null
      BY <3>1, NodeFacts DEF RingNodes
    <3>3. i + 1 \in 1..(k + 1) /\ (i + 1) - 1 = i
      BY <1>1
    <3>4. at[i + 1] = mem[at[i]].next
      BY <1>2, <3>2, <3>3
    <3> QED BY <3>1, <3>4 DEF Ring, NextLinks, Adjacent
  <2> HIDE DEF T
  <2>3. \A i \in Nat : i \in T
    BY <2>1, <2>2, Induction
  <2> QED BY <1>1, <2>3 DEF T
<1>5. \A i \in 0..k : Adjacent(l, S, at[i], at[i + 1]) /\ mem[at[i + 1]].prev = at[i]
  <2> SUFFICES ASSUME NEW i \in 0..k
               PROVE  Adjacent(l, S, at[i], at[i + 1]) /\ mem[at[i + 1]].prev = at[i]
    OBVIOUS
  <2>1. /\ at[i] \in RingNodes(l, S) /\ at[i + 1] \in RingNodes(l, S)
        /\ i + 1 \in 1..(k + 1) /\ (i + 1) - 1 = i
    BY <1>1, <1>4
  <2>2. at[i] # Null
    BY <2>1, NodeFacts DEF RingNodes
  <2>3. at[i + 1] = mem[at[i]].next
    BY <1>2, <2>1, <2>2
  <2>4. Adjacent(l, S, at[i], at[i + 1])
    BY <2>1, <2>3 DEF Ring, NextLinks
  <2>5. Adjacent(l, S, mem[at[i + 1]].prev, at[i + 1])
    BY <2>1 DEF Ring, PrevLinks
  <2> QED BY <2>4, <2>5, PrevUnique
<1> DEFINE Met(j) == /\ \A i \in 1..j : at[i] \in S
                     /\ \A e \in S : e \in B(at[j]) \/ \E i \in 1..j : e = at[i]
                     /\ Cardinality(B(at[j])) = k - j
           T == {j \in Nat : j <= k => Met(j)}
<1>6. 0 \in T
  <2>1. B(at[0]) = S
    BY <1>2 DEF AllBehind, Behind
  <2> QED BY <1>1, <2>1
<1>7. ASSUME NEW j \in Nat, j \in T PROVE j + 1 \in T
  <2> SUFFICES ASSUME j + 1 <= k PROVE Met(j + 1)
    OBVIOUS
  <2>1. Met(j)
    BY <1>1, <1>7
  <2>2. Adjacent(l, S, at[j], at[j + 1])
    BY <1>1, <1>5
  <2>3. B(at[j]) # {}
    <3>1. Cardinality(B(at[j])) # 0
      BY <1>1, <2>1
    <3> QED BY <3>1, FS_EmptySet
  <2> DEFINE n == at[j + 1]
             q == at[j]
  <2> HIDE DEF n, q
  <2>4. n \in S /\ n \notin B(n) /\ B(q) = B(n) \cup {n}
    BY <2>2, <2>3, BehindStep DEF n, q
  <2>5. Cardinality(B(q)) = Cardinality(B(n)) + 1 /\ Cardinality(B(n)) \in Nat
    <3>1. B(n) \in SUBSET ListElements
      BY KeyedElements DEF AllBehind
    <3> HIDE DEF B
    <3> QED BY <2>4, <3>1, Finite
  <2> HIDE DEF B
  <2>6. \A i \in 1..(j + 1) : at[i] \in S
    BY <2>1, <2>4 DEF n
  <2>7. ASSUME NEW e \in S, e \notin B(n) PROVE \E i \in 1..(j + 1) : e = at[i]
    <3>1. CASE e = n
      BY <3>1 DEF n
    <3>2. CASE e # n
      <4>1. e \notin B(q)
        BY <2>4, <2>7, <3>2
      <4>2. PICK i \in 1..j : e = at[i]
        BY <2>1, <4>1 DEF q
      <4> QED BY <4>2
    <3> QED BY <3>1, <3>2
  <2>8. Cardinality(B(n)) = k - (j + 1)
    BY <1>1, <2>1, <2>5 DEF q
  <2> QED BY <2>6, <2>7, <2>8 DEF n
<1>8. Met(k)
  <2> HIDE DEF Met
  <2>1. \A j \in Nat : j \in T
    <3> HIDE DEF T
    <3> QED BY <1>6, <1>7, Induction
  <2> QED BY <1>1, <2>1
<1>9. B(at[k]) = {}
  <2>1. B(at[k]) \in SUBSET ListElements
    BY KeyedElements DEF AllBehind
  <2>2. Cardinality(B(at[k])) = 0
    BY <1>1, <1>8
  <2> QED BY <2>1, <2>2, Finite
<1>10. {at[i] : i \in 1..k} = S
  BY <1>8, <1>9
<1>11. at[k + 1] = h
  <2>1. Adjacent(l, S, at[k], at[k + 1])
    BY <1>1, <1>5
  <2>2. at[k + 1] \in RingNodes(l, S)
    BY <2>1 DEF Adjacent
  <2>3. at[k + 1] # h => at[k + 1] \in B(at[k])
    BY <2>1, <2>2 DEF Adjacent, RingNodes, AllBehind, Behind
  <2> QED BY <1>9, <2>3
<1>12. \A i \in 1..(k - 1) : key[at[i]] < key[at[i + 1]]
  <2> SUFFICES ASSUME NEW i \in 1..(k - 1) PROVE key[at[i]] < key[at[i + 1]]
    OBVIOUS
  <2>1. at[i] \in S /\ at[i + 1] \in S /\ i \in 0..k
    BY <1>1, <1>8
  <2>2. at[i] # h /\ at[i + 1] # h
    BY <2>1, NodeFacts
  <2> QED BY <1>5, <2>1, <2>2 DEF Adjacent
<1> QED BY <1>3, <1>5, <1>10, <1>11, <1>12

=============================================================================
