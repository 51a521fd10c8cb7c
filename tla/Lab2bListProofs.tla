---------------------------- MODULE Lab2bListProofs ----------------------------
(***************************************************************************)
(* For every number of threads, iterations and sublists and every hash of  *)
(* the keys: with any --sync, no pointer of lab2b/lab2_list.c ever leads   *)
(* from one sublist into another, even where unsynchronised threads        *)
(* corrupt both.  With --sync=m and --sync=s the sublists are sorted rings *)
(* whenever they are free, the program implements PartitionedList, and so  *)
(* it never reports that its lists are corrupted.                          *)
(***************************************************************************)
EXTENDS Lab2bListInv, SortedListProofs

USE Lab2bAssumption

-----------------------------------------------------------------------------
(* SublistsAreApart, with or without synchronisation.                      *)

NodesInv == MemInv /\ hash \in [ListElements -> HeadIds]

LocalsInv ==
  /\ DOMAIN th = Procs
  /\ \A p \in Procs :
       /\ "pc" \in DOMAIN th[p]
       /\ \A v \in Registers : v \in DOMAIN th[p] /\ th[p][v] \in Values
       /\ th[p].pc \in IdleLabels => \A v \in Registers : th[p][v] = Null

(* A thread that is about to lock a sublist has one to lock.               *)
TurnInv ==
  /\ phase \in [Threads -> {"insert", "count", "delete"}]
  /\ turn \in [Threads -> Nat]
  /\ \A t \in Threads : th[t].pc = "lock" => turn[t] < LoopBound(t)

BornInv ==
  /\ t_main \in Nat
  /\ main = "create" => \A t \in Threads : t >= t_main => th[t].pc = "unborn"

(* What a node points to, and what the variables of a process hold, is of  *)
(* one sublist.                                                            *)
LinksApart ==
  \A q \in Nodes, f \in Fields : mem[q][f] # Null => ListOf(mem[q][f]) = ListOf(q)
RegistersApart ==
  \A p \in Procs, v \in Registers : th[p][v] # Null => ListOf(th[p][v]) = ListOf(th[p].list)

ApartInv == NodesInv /\ LocalsInv /\ TurnInv /\ BornInv /\ LinksApart /\ RegistersApart

-----------------------------------------------------------------------------
(* Assignments to the variables of one process.                            *)

(* Inside an operation: of what it reads and finds, all is of its list.    *)
LEMMA OperationSets ==
  ASSUME ApartInv, NEW p \in Procs, NEW new, Set(p, new), hash' = hash,
         "pc" \in DOMAIN new, new["pc"] \notin IdleLabels, "list" \notin DOMAIN new,
         \A v \in Registers \cap DOMAIN new :
           new[v] \in Values /\ (new[v] # Null => ListOf(new[v]) = ListOf(th[p].list))
  PROVE  LocalsInv' /\ RegistersApart'
<1>1. LocalsInv
  BY DEF ApartInv
<1>2. /\ DOMAIN th' = Procs
      /\ \A q \in Procs : q # p => th'[q] = th[q]
      /\ DOMAIN th'[p] = DOMAIN new \cup DOMAIN th[p]
      /\ \A f \in DOMAIN new : th'[p][f] = new[f]
      /\ \A f \in DOMAIN th[p] : f \notin DOMAIN new => th'[p][f] = th[p][f]
  BY <1>1, SetEffect DEF LocalsInv
<1>3. \A x : ListOf(x)' = ListOf(x)
  BY DEF ListOf
<1>4. th'[p].pc \notin IdleLabels
  BY <1>2
<1>5. th'[p].list = th[p].list
  BY <1>1, <1>2 DEF LocalsInv, Registers
<1>6. \A v \in Registers : v \in DOMAIN th[p] /\ th'[p][v] \in Values
  BY <1>1, <1>2 DEF LocalsInv
<1>7. LocalsInv'
  BY <1>1, <1>2, <1>4, <1>6 DEF LocalsInv
<1>8. \A v \in Registers : th'[p][v] # Null => ListOf(th'[p][v]) = ListOf(th[p].list)
  BY <1>1, <1>2 DEF LocalsInv, ApartInv, RegistersApart
<1>9. RegistersApart'
  BY <1>2, <1>3, <1>5, <1>8 DEF ApartInv, RegistersApart
<1> QED BY <1>7, <1>9

(* Between operations: from one label at which no variable is in use to    *)
(* another, or from any label with all variables reset.                    *)
LEMMA IdleSets ==
  ASSUME ApartInv, NEW p \in Procs, NEW new, Set(p, new), hash' = hash, "pc" \in DOMAIN new,
         \/ th[p].pc \in IdleLabels /\ Registers \cap DOMAIN new = {}
         \/ \A v \in Registers : v \in DOMAIN new /\ new[v] = Null
  PROVE  LocalsInv' /\ RegistersApart'
<1>1. LocalsInv
  BY DEF ApartInv
<1>2. /\ DOMAIN th' = Procs
      /\ \A q \in Procs : q # p => th'[q] = th[q]
      /\ DOMAIN th'[p] = DOMAIN new \cup DOMAIN th[p]
      /\ \A f \in DOMAIN new : th'[p][f] = new[f]
      /\ \A f \in DOMAIN th[p] : f \notin DOMAIN new => th'[p][f] = th[p][f]
  BY <1>1, SetEffect DEF LocalsInv
<1>3. \A x : ListOf(x)' = ListOf(x)
  BY DEF ListOf
<1>4. \A v \in Registers : v \in DOMAIN th'[p] /\ th'[p][v] = Null
  BY <1>1, <1>2 DEF LocalsInv
<1>5. LocalsInv'
  BY <1>1, <1>2, <1>4 DEF LocalsInv, Values
<1>6. RegistersApart'
  BY <1>2, <1>3, <1>4 DEF ApartInv, RegistersApart
<1> QED BY <1>5, <1>6

(* The call of an operation on a sublist, for an element that hashes to    *)
(* it, or for none.                                                        *)
LEMMA CallSets ==
  ASSUME ApartInv, NEW p \in Procs, NEW new, Set(p, new), hash' = hash,
         th[p].pc \in IdleLabels, {"pc", "list"} \subseteq DOMAIN new,
         Registers \cap DOMAIN new \subseteq {"list", "elem"}, new["pc"] \notin IdleLabels,
         NEW l \in HeadIds, new["list"] = Head(l),
         "elem" \in DOMAIN new =>
           new["elem"] = Null \/ (new["elem"] \in ListElements /\ hash[new["elem"]] = l)
  PROVE  LocalsInv' /\ RegistersApart'
<1>1. LocalsInv
  BY DEF ApartInv
<1>2. /\ DOMAIN th' = Procs
      /\ \A q \in Procs : q # p => th'[q] = th[q]
      /\ DOMAIN th'[p] = DOMAIN new \cup DOMAIN th[p]
      /\ \A f \in DOMAIN new : th'[p][f] = new[f]
      /\ \A f \in DOMAIN th[p] : f \notin DOMAIN new => th'[p][f] = th[p][f]
  BY <1>1, SetEffect DEF LocalsInv
<1>3. \A x : ListOf(x)' = ListOf(x)
  BY DEF ListOf
<1>4. th'[p].pc \notin IdleLabels /\ th'[p].list = Head(l)
  BY <1>2
<1>5. Head(l) \in Values /\ ListOf(Head(l)) = l
  BY DEF Values, Nodes, Heads, Head, ListOf, IsHead
<1>6. \A e \in ListElements : e \in Values /\ ListOf(e) = hash[e]
  <2> SUFFICES ASSUME NEW e \in ListElements PROVE e \in Values /\ ListOf(e) = hash[e]
    OBVIOUS
  <2>1. e[1] \in Nat
    OBVIOUS
  <2>2. e \notin Heads
    BY <2>1 DEF Heads, Head
  <2> QED BY <2>2 DEF Values, Nodes, ListOf, IsHead
<1>7. \A v \in Registers :
        /\ v \in DOMAIN th[p] /\ th'[p][v] \in Values
        /\ th'[p][v] # Null => ListOf(th'[p][v]) = l
  <2> SUFFICES ASSUME NEW v \in Registers
               PROVE  /\ v \in DOMAIN th[p] /\ th'[p][v] \in Values
                      /\ th'[p][v] # Null => ListOf(th'[p][v]) = l
    OBVIOUS
  <2>1. v \in DOMAIN th[p] /\ th[p][v] = Null
    BY <1>1 DEF LocalsInv
  <2>2. CASE v \notin DOMAIN new
    BY <1>2, <2>1, <2>2 DEF Values
  <2>3. CASE v = "list"
    BY <1>2, <1>5, <2>1, <2>3
  <2>4. CASE v = "elem" /\ v \in DOMAIN new
    BY <1>2, <1>6, <2>1, <2>4 DEF Values
  <2> QED BY <2>2, <2>3, <2>4
<1>8. LocalsInv'
  BY <1>1, <1>2, <1>4, <1>7 DEF LocalsInv
<1>9. \A v \in Registers : th'[p][v] # Null => ListOf(th'[p][v]) = ListOf(th'[p].list)
  BY <1>4, <1>5, <1>7
<1>10. RegistersApart'
  BY <1>2, <1>3, <1>9 DEF ApartInv, RegistersApart
<1> QED BY <1>8, <1>10

-----------------------------------------------------------------------------
(* The steps of an operation.                                              *)

MemoryKept == UNCHANGED <<mem, hash>>

LEMMA SameMemory == ApartInv /\ MemoryKept => NodesInv' /\ LinksApart'
BY DEF MemoryKept, ApartInv, NodesInv, MemInv, LinksApart, ListOf

(* A step of an operation of p, and what it does to the labels.            *)
InsideStep(p) ==
  /\ NodesInv' /\ LinksApart' /\ LocalsInv' /\ RegistersApart'
  /\ \A q \in Procs :
       th[q].pc \in IdleLabels \/ th'[q].pc \in IdleLabels => th'[q].pc = th[q].pc

(* All but a store only set variables.                                     *)
LEMMA SetStep ==
  ASSUME ApartInv, NEW p \in Procs, NEW new, Set(p, new), MemoryKept,
         th[p].pc \notin IdleLabels,
         "pc" \in DOMAIN new, new["pc"] \notin IdleLabels, "list" \notin DOMAIN new,
         \A v \in Registers \cap DOMAIN new :
           new[v] \in Values /\ (new[v] # Null => ListOf(new[v]) = ListOf(th[p].list))
  PROVE  InsideStep(p)
<1>1. LocalsInv' /\ RegistersApart'
  BY OperationSets DEF MemoryKept
<1>2. \A q \in Procs : q # p => th'[q] = th[q]
  BY SetEffect DEF ApartInv, LocalsInv
<1>3. th'[p].pc \notin IdleLabels
  BY SetEffect DEF ApartInv, LocalsInv
<1> QED BY <1>1, <1>2, <1>3, SameMemory DEF InsideStep

LEMMA LoadStep ==
  ASSUME ApartInv, NEW p \in Procs, Load(p), UNCHANGED hash
  PROVE  InsideStep(p)
<1> DEFINE at   == th[p].pc
           code == Loads[at]
           base == th[p][code[1]]
           new  == [v \in {code[3], "pc"} |-> IF v = "pc" THEN code[4] ELSE mem[base][code[2]]]
<1>1. at \in DOMAIN Loads /\ base # Null /\ Set(p, new) /\ MemoryKept
  BY DEF Load, MemoryKept
<1>2. /\ code[1] \in Registers /\ code[2] \in Fields
      /\ code[3] \in {"curr", "tmp", "val"}
      /\ at \notin IdleLabels /\ code[4] \notin IdleLabels
  BY <1>1, LoadCode
<1>3. base \in Nodes /\ ListOf(base) = ListOf(th[p].list)
  BY <1>1, <1>2 DEF ApartInv, LocalsInv, RegistersApart, Values
<1>4. /\ mem[base][code[2]] \in Values
      /\ mem[base][code[2]] # Null => ListOf(mem[base][code[2]]) = ListOf(th[p].list)
  BY <1>2, <1>3 DEF ApartInv, NodesInv, MemInv, LinksApart
<1>5. /\ "pc" \in DOMAIN new /\ new["pc"] = code[4] /\ "list" \notin DOMAIN new
      /\ \A v \in Registers \cap DOMAIN new : new[v] = mem[base][code[2]]
  BY <1>2 DEF Registers
<1> HIDE DEF at, code, base, new
<1>6. th[p].pc \notin IdleLabels
  BY <1>2 DEF at
<1> QED BY <1>1, <1>2, <1>4, <1>5, <1>6, SetStep

LEMMA StoreStep ==
  ASSUME ApartInv, NEW p \in Procs, Store(p), UNCHANGED hash
  PROVE  InsideStep(p)
<1> DEFINE at   == th[p].pc
           code == Stores[at]
           base == th[p][code[1]]
           val  == th[p][code[3]]
<1>1. /\ at \in DOMAIN Stores /\ base # Null /\ Set(p, [pc |-> code[4]])
      /\ mem' = [mem EXCEPT ![base][code[2]] = val]
  BY DEF Store
<1>2. /\ code[1] \in Registers /\ code[2] \in Fields /\ code[3] \in Registers
      /\ at \notin IdleLabels /\ code[4] \notin IdleLabels
  BY <1>1, StoreCode
<1>3. base \in Nodes /\ ListOf(base) = ListOf(th[p].list)
  BY <1>1, <1>2 DEF ApartInv, LocalsInv, RegistersApart, Values
<1>4. val \in Values /\ (val # Null => ListOf(val) = ListOf(th[p].list))
  BY <1>2 DEF ApartInv, LocalsInv, RegistersApart
<1> HIDE DEF code, base, val
<1>5. NodesInv'
  BY <1>1, <1>2, <1>3, <1>4 DEF ApartInv, NodesInv, MemInv
<1>6. \A q \in Nodes, f \in Fields :
        mem'[q][f] = IF q = base /\ f = code[2] THEN val ELSE mem[q][f]
  BY <1>1, <1>2, <1>3 DEF ApartInv, NodesInv, MemInv
<1>7. \A x : ListOf(x)' = ListOf(x)
  BY DEF ListOf
<1>8. \A q \in Nodes, f \in Fields : mem'[q][f] # Null => ListOf(mem'[q][f]) = ListOf(q)
  BY <1>3, <1>4, <1>6 DEF ApartInv, LinksApart
<1>9. LinksApart'
  BY <1>7, <1>8 DEF LinksApart
<1>10. LocalsInv' /\ RegistersApart'
  <2> DEFINE new == [pc |-> code[4]]
  <2>1. DOMAIN new = {"pc"} /\ new["pc"] \notin IdleLabels
    BY <1>2
  <2>2. "list" \notin DOMAIN new /\ Registers \cap DOMAIN new = {}
    BY <2>1 DEF Registers
  <2> HIDE DEF new
  <2>3. Set(p, new)
    BY <1>1 DEF new
  <2> QED BY <2>1, <2>2, <2>3, OperationSets
<1>11. \A q \in Procs : q # p => th'[q] = th[q]
  BY <1>1, SetEffect DEF ApartInv, LocalsInv
<1>12. th'[p].pc = code[4]
  BY <1>1, SetEffect DEF ApartInv, LocalsInv
<1> QED BY <1>2, <1>5, <1>9, <1>10, <1>11, <1>12 DEF InsideStep, at

(* A branch to a label of the operation.                                   *)
LEMMA JumpStep ==
  ASSUME ApartInv, NEW p \in Procs, NEW label, label \notin IdleLabels, Set(p, [pc |-> label]),
         MemoryKept, th[p].pc \notin IdleLabels
  PROVE  InsideStep(p)
<1> DEFINE new == [pc |-> label]
<1>1. DOMAIN new = {"pc"} /\ new["pc"] = label
  OBVIOUS
<1>2. "list" \notin DOMAIN new /\ Registers \cap DOMAIN new = {}
  BY <1>1 DEF Registers
<1> HIDE DEF new
<1>3. Set(p, new)
  BY DEF new
<1> QED BY <1>1, <1>2, <1>3, SetStep

LEMMA FoundStep ==
  ASSUME ApartInv, NEW p \in Procs, NEW q \in {th[p].curr, Null}, Found(p, q), MemoryKept,
         th[p].pc \notin IdleLabels
  PROVE  InsideStep(p)
<1> DEFINE new == [pc |-> "delete", elem |-> q]
<1>1. DOMAIN new = {"pc", "elem"} /\ new["pc"] = "delete" /\ new["elem"] = q
  OBVIOUS
<1>2. q \in Values /\ (q # Null => ListOf(q) = ListOf(th[p].list))
  BY DEF ApartInv, LocalsInv, RegistersApart, Registers, Values
<1> HIDE DEF new
<1>3. Set(p, new)
  BY DEF Found, new
<1>4. \A v \in Registers \cap DOMAIN new : v = "elem"
  BY <1>1 DEF Registers
<1>5. "list" \notin DOMAIN new /\ new["pc"] \notin IdleLabels
  BY <1>1 DEF IdleLabels
<1> QED BY <1>1, <1>2, <1>3, <1>4, <1>5, SetStep

LEMMA BranchStep ==
  ASSUME ApartInv, NEW p \in Procs, UNCHANGED hash,
         TestEmpty(p) \/ Walk(p) \/ TestElement(p) \/ Seek(p) \/ Count(p)
  PROVE  InsideStep(p)
<1>1. MemoryKept
  BY DEF TestEmpty, Walk, TestElement, Seek, Count, MemoryKept
<1>2. CASE TestEmpty(p)
  <2>1. \E label \in {"insertPrev", "first", "only1"} : Set(p, [pc |-> label])
    BY <1>2 DEF TestEmpty
  <2>2. th[p].pc \notin IdleLabels
    BY <1>2 DEF TestEmpty, On, IdleLabels
  <2> QED BY <1>1, <2>1, <2>2, JumpStep DEF IdleLabels
<1>3. CASE Walk(p)
  <2>1. \E label \in {"link1", "walkOn"} : Set(p, [pc |-> label])
    BY <1>3 DEF Walk
  <2>2. th[p].pc \notin IdleLabels
    BY <1>3 DEF Walk, On, IdleLabels
  <2> QED BY <1>1, <2>1, <2>2, JumpStep DEF IdleLabels
<1>4. CASE TestElement(p)
  <2>1. \E label \in {"failed", "unlink1"} : Set(p, [pc |-> label])
    BY <1>4 DEF TestElement
  <2>2. th[p].pc \notin IdleLabels
    BY <1>4 DEF TestElement, On, IdleLabels
  <2> QED BY <1>1, <2>1, <2>2, JumpStep DEF IdleLabels
<1>5. CASE Seek(p)
  <2>1. Found(p, Null) \/ Found(p, th[p].curr) \/ Set(p, [pc |-> "seekOn"])
    BY <1>5 DEF Seek
  <2>2. th[p].pc \notin IdleLabels
    BY <1>5 DEF Seek, On, IdleLabels
  <2> QED BY <1>1, <2>1, <2>2, JumpStep, FoundStep DEF IdleLabels
<1>6. CASE Count(p)
  <2>1. th[p].pc \notin IdleLabels
    BY <1>6 DEF Count, On, IdleLabels
  <2>2. CASE Set(p, [pc |-> "done"])
    BY <1>1, <2>1, <2>2, JumpStep DEF IdleLabels
  <2>3. ASSUME NEW n, Set(p, [pc |-> "countOn", count |-> n])
        PROVE  InsideStep(p)
    <3> DEFINE new == [pc |-> "countOn", count |-> n]
    <3>1. DOMAIN new = {"pc", "count"} /\ new["pc"] = "countOn"
      OBVIOUS
    <3>2. "list" \notin DOMAIN new /\ Registers \cap DOMAIN new = {}
      BY <3>1 DEF Registers
    <3>3. new["pc"] \notin IdleLabels
      BY <3>1 DEF IdleLabels
    <3> HIDE DEF new
    <3>4. Set(p, new)
      BY <2>3 DEF new
    <3> QED BY <1>1, <2>1, <3>1, <3>2, <3>3, <3>4, SetStep
  <2> QED BY <1>6, <2>2, <2>3 DEF Count
<1> QED BY <1>2, <1>3, <1>4, <1>5, <1>6

LEMMA OperateStep ==
  ASSUME ApartInv, NEW p \in Procs, Operate(p), UNCHANGED hash
  PROVE  InsideStep(p)
<1>1. CASE SegFault(p)
  <2>1. MemoryKept /\ th' = th
    BY <1>1 DEF SegFault, MemoryKept
  <2>2. \A x : ListOf(x)' = ListOf(x)
    BY DEF ListOf
  <2>3. LocalsInv' /\ RegistersApart'
    BY <2>1, <2>2 DEF ApartInv, LocalsInv, RegistersApart
  <2> QED BY <2>1, <2>3, SameMemory DEF InsideStep
<1> QED BY <1>1, LoadStep, StoreStep, BranchStep DEF Operate

(* The steps of the operations of a process keep the invariant.            *)
LEMMA OperateKeepsApart ==
  ASSUME ApartInv, NEW p \in Procs, Operate(p), UNCHANGED <<hash, phase, turn, main, t_main>>
  PROVE  ApartInv'
<1>1. InsideStep(p)
  BY OperateStep
<1>2. \A t \in Threads : t \in Procs
  BY DEF Threads
<1>3. TurnInv'
  <2>1. \A t \in Threads : LoopBound(t)' = LoopBound(t)
    BY DEF LoopBound
  <2>2. \A t \in Threads : th'[t].pc = "lock" => th[t].pc = "lock"
    BY <1>1, <1>2 DEF InsideStep, IdleLabels
  <2> QED BY <2>1, <2>2 DEF ApartInv, TurnInv
<1>4. BornInv'
  <2>1. \A t \in Threads : th[t].pc = "unborn" => th'[t].pc = "unborn"
    BY <1>1, <1>2 DEF InsideStep, IdleLabels
  <2> QED BY <2>1 DEF ApartInv, BornInv
<1> QED BY <1>1, <1>3, <1>4 DEF InsideStep, ApartInv

-----------------------------------------------------------------------------
(* The other steps.                                                        *)

LEMMA InitApart == Init => ApartInv
<1> SUFFICES ASSUME Init PROVE ApartInv
  OBVIOUS
<1>1. \A p \in Procs : th[p] = Idle("unborn")
  BY DEF Init
<1>2. \A q \in Nodes, f \in Fields : mem[q][f] \in {q, Null}
  BY DEF Init, InitMem, Fields
<1>3. mem \in [Nodes -> [Fields -> Values]]
  BY DEF Init, InitMem, Fields, Values
<1>4. NodesInv
  BY <1>3 DEF NodesInv, MemInv, Init
<1>5. \A v \in Registers : v \in DOMAIN Idle("unborn") /\ Idle("unborn")[v] = Null
  BY DEF Idle, Registers
<1>6. "pc" \in DOMAIN Idle("unborn") /\ Idle("unborn")["pc"] = "unborn"
  BY DEF Idle
<1>7. LocalsInv
  BY <1>1, <1>5, <1>6 DEF LocalsInv, Init, Values
<1>8. \A t \in Threads : t \in Procs /\ th[t].pc = "unborn"
  BY <1>1, <1>6 DEF Threads
<1>9. TurnInv
  BY <1>8 DEF TurnInv, Init
<1>10. BornInv
  BY <1>8 DEF BornInv, Init
<1>11. LinksApart
  BY <1>2 DEF LinksApart
<1>12. RegistersApart
  BY <1>1, <1>5 DEF RegistersApart
<1> QED BY <1>4, <1>7, <1>9, <1>10, <1>11, <1>12 DEF ApartInv

(* Only a step to "lock", or to another turn or phase, is of concern to    *)
(* TurnInv; only a step of an unborn thread is to BornInv.              *)
LEMMA ThreadKeepsControl ==
  ASSUME ApartInv, NEW t \in Threads, UNCHANGED <<hash, main, t_main>>,
         \A q \in Procs : q # t => th'[q] = th[q],
         th[t].pc # "unborn",
         phase' \in [Threads -> {"insert", "count", "delete"}],
         turn' \in [Threads -> Nat],
         \A s \in Threads : s # t => phase'[s] = phase[s] /\ turn'[s] = turn[s],
         th'[t].pc = "lock" => turn'[t] < LoopBound(t)'
  PROVE  TurnInv' /\ BornInv'
<1>1. \A s \in Threads : s \in Procs
  BY DEF Threads
<1>2. TurnInv'
  <2> SUFFICES ASSUME NEW s \in Threads, th'[s].pc = "lock"
               PROVE  turn'[s] < LoopBound(s)'
    BY DEF TurnInv
  <2>1. CASE s = t
    BY <2>1
  <2>2. CASE s # t
    BY <1>1, <2>2 DEF ApartInv, TurnInv, LoopBound
  <2> QED BY <2>1, <2>2
<1>3. BornInv'
  BY <1>1 DEF ApartInv, BornInv
<1> QED BY <1>2, <1>3

LEMMA LoopHeadStep ==
  ASSUME ApartInv, NEW t \in Threads, LoopHead(t)
  PROVE  ApartInv'
<1>1. t \in Procs /\ th[t].pc = "loop" /\ th[t].pc \in IdleLabels
  BY DEF Threads, LoopHead, On, IdleLabels
<1>2. MemoryKept /\ UNCHANGED <<hash, main, t_main>>
  BY DEF LoopHead, MemoryKept, setup
<1>3. TurnInv
  BY DEF ApartInv
<1>4. \A label : Set(t, [pc |-> label]) =>
        /\ LocalsInv' /\ RegistersApart'
        /\ (\A q \in Procs : q # t => th'[q] = th[q]) /\ th'[t].pc = label
  <2> SUFFICES ASSUME NEW label, Set(t, [pc |-> label])
               PROVE  /\ LocalsInv' /\ RegistersApart'
                      /\ (\A q \in Procs : q # t => th'[q] = th[q]) /\ th'[t].pc = label
    OBVIOUS
  <2> DEFINE new == [pc |-> label]
  <2>1. DOMAIN new = {"pc"} /\ new["pc"] = label
    OBVIOUS
  <2>2. Registers \cap DOMAIN new = {}
    BY <2>1 DEF Registers
  <2> HIDE DEF new
  <2>3. Set(t, new)
    BY DEF new
  <2>4. LocalsInv' /\ RegistersApart'
    BY <1>1, <1>2, <2>1, <2>2, <2>3, IdleSets
  <2>5. (\A q \in Procs : q # t => th'[q] = th[q]) /\ th'[t].pc = label
    BY <1>1, <2>1, <2>3, SetEffect DEF ApartInv, LocalsInv
  <2> QED BY <2>4, <2>5
<1>5. th' = th => LocalsInv' /\ RegistersApart'
  BY <1>2 DEF ApartInv, LocalsInv, RegistersApart, ListOf
<1>6. CASE turn[t] < LoopBound(t) /\ Set(t, [pc |-> "lock"]) /\ UNCHANGED <<phase, turn>>
  <2>1. TurnInv' /\ BornInv'
    BY <1>1, <1>2, <1>3, <1>4, <1>6, ThreadKeepsControl DEF TurnInv, LoopBound
  <2> QED BY <1>2, <1>4, <1>6, <2>1, SameMemory DEF ApartInv
<1>7. CASE UNCHANGED <<th, phase, turn>>
  <2>1. TurnInv' /\ BornInv'
    BY <1>1, <1>2, <1>3, <1>7, ThreadKeepsControl DEF TurnInv
  <2> QED BY <1>2, <1>5, <1>7, <2>1, SameMemory DEF ApartInv
<1>8. CASE /\ phase[t] # "delete" /\ phase' = [phase EXCEPT ![t] = NextPhase[@]]
           /\ turn' = [turn EXCEPT ![t] = 0] /\ UNCHANGED th
  <2>1. NextPhase[phase[t]] \in {"count", "delete"}
    BY <1>3, <1>8 DEF TurnInv, NextPhase
  <2>2. TurnInv' /\ BornInv'
    BY <1>1, <1>2, <1>3, <1>8, <2>1, ThreadKeepsControl DEF TurnInv
  <2> QED BY <1>2, <1>5, <1>8, <2>2, SameMemory DEF ApartInv
<1>9. CASE Set(t, [pc |-> "returned"]) /\ UNCHANGED <<phase, turn>>
  <2>1. TurnInv' /\ BornInv'
    BY <1>1, <1>2, <1>3, <1>4, <1>9, ThreadKeepsControl DEF TurnInv
  <2> QED BY <1>2, <1>4, <1>9, <2>1, SameMemory DEF ApartInv
<1> QED BY <1>6, <1>7, <1>8, <1>9 DEF LoopHead

LEMMA LockStep ==
  ASSUME ApartInv, NEW t \in Threads, Lock(t)
  PROVE  ApartInv'
<1> DEFINE new == [pc |-> Operation[phase[t]], list |-> Head(ListIndex(t)),
                   elem |-> IF phase[t] = "count" THEN Null ELSE Element(t)]
<1>1. t \in Procs /\ th[t].pc = "lock" /\ th[t].pc \in IdleLabels
  BY DEF Threads, Lock, On, IdleLabels
<1>2. MemoryKept /\ UNCHANGED <<hash, main, t_main, phase, turn>>
  BY DEF Lock, MemoryKept, setup
<1>3. TurnInv /\ hash \in [ListElements -> HeadIds]
  BY DEF ApartInv, NodesInv, MemInv
<1>4. turn[t] \in Nat /\ turn[t] < LoopBound(t) /\ phase[t] \in {"insert", "count", "delete"}
  BY <1>1, <1>3 DEF TurnInv
<1>5. phase[t] # "count" => Element(t) \in ListElements
  BY <1>4 DEF LoopBound, Element, Threads
<1>6. ListIndex(t) \in HeadIds
  BY <1>3, <1>4, <1>5 DEF ListIndex, LoopBound
<1>7. DOMAIN new = {"pc", "list", "elem"} /\ new["list"] = Head(ListIndex(t))
  OBVIOUS
<1>8. new["pc"] \in {"insert", "length", "lookup"}
  BY <1>4 DEF Operation
<1>9. new["elem"] = Null \/ (new["elem"] \in ListElements /\ hash[new["elem"]] = ListIndex(t))
  BY <1>5 DEF ListIndex
<1>10. Set(t, new)
  BY DEF Lock
<1> HIDE DEF new
<1>11. Registers \cap DOMAIN new \subseteq {"list", "elem"} /\ new["pc"] \notin IdleLabels
  BY <1>7, <1>8 DEF Registers, IdleLabels
<1>12. LocalsInv' /\ RegistersApart'
  BY <1>1, <1>2, <1>6, <1>7, <1>9, <1>10, <1>11, CallSets
<1>13. (\A q \in Procs : q # t => th'[q] = th[q]) /\ th'[t].pc # "lock"
  BY <1>1, <1>7, <1>8, <1>10, SetEffect DEF ApartInv, LocalsInv
<1>14. TurnInv' /\ BornInv'
  BY <1>1, <1>2, <1>3, <1>13, ThreadKeepsControl DEF TurnInv
<1> QED BY <1>2, <1>12, <1>14, SameMemory DEF ApartInv

(* All variables of a process are reset.                                   *)
LEMMA Resets ==
  ASSUME ApartInv, NEW p \in Procs, NEW label, Set(p, Idle(label)), UNCHANGED hash
  PROVE  /\ LocalsInv' /\ RegistersApart'
         /\ (\A q \in Procs : q # p => th'[q] = th[q]) /\ th'[p].pc = label
<1>1. "pc" \in DOMAIN Idle(label) /\ Idle(label)["pc"] = label
  BY DEF Idle
<1>2. \A v \in Registers : v \in DOMAIN Idle(label) /\ Idle(label)[v] = Null
  BY DEF Idle, Registers
<1>3. LocalsInv' /\ RegistersApart'
  BY <1>1, <1>2, IdleSets
<1>4. (\A q \in Procs : q # p => th'[q] = th[q]) /\ th'[p].pc = label
  BY <1>1, SetEffect DEF ApartInv, LocalsInv
<1> QED BY <1>3, <1>4

LEMMA ThreadStep ==
  ASSUME ApartInv, NEW t \in Threads, Thread(t)
  PROVE  ApartInv'
<1>1. t \in Procs
  BY DEF Threads
<1>2. CASE LoopHead(t)
  BY <1>2, LoopHeadStep
<1>3. CASE Lock(t)
  BY <1>3, LockStep
<1>4. CASE Operating(t)
  BY <1>1, <1>4, OperateKeepsApart DEF Operating, setup
<1>5. CASE DeleteFailed(t)
  BY <1>5, SameMemory
  DEF DeleteFailed, setup, MemoryKept, ApartInv, LocalsInv, RegistersApart, TurnInv, BornInv,
      LoopBound, ListOf
<1>6. CASE Unlock(t)
  <2>1. MemoryKept /\ UNCHANGED <<hash, main, t_main, phase>> /\ th[t].pc # "unborn"
    BY <1>6 DEF Unlock, MemoryKept, setup, On
  <2>2. /\ LocalsInv' /\ RegistersApart'
        /\ (\A q \in Procs : q # t => th'[q] = th[q]) /\ th'[t].pc = "loop"
    BY <1>1, <1>6, <2>1, Resets DEF Unlock
  <2>3. /\ turn' \in [Threads -> Nat] /\ phase' \in [Threads -> {"insert", "count", "delete"}]
        /\ \A s \in Threads : s # t => turn'[s] = turn[s]
    BY <1>6, <2>1 DEF Unlock, ApartInv, TurnInv
  <2>4. TurnInv' /\ BornInv'
    BY <2>1, <2>2, <2>3, ThreadKeepsControl
  <2> QED BY <2>1, <2>2, <2>4, SameMemory DEF ApartInv
<1> QED BY <1>2, <1>3, <1>4, <1>5, <1>6 DEF Thread

LEMMA ThreadsUntouched ==
  ASSUME ApartInv, UNCHANGED <<mem, hash, th, phase, turn>>
  PROVE  NodesInv' /\ LinksApart' /\ LocalsInv' /\ RegistersApart' /\ TurnInv'
<1>1. NodesInv' /\ LinksApart'
  BY SameMemory DEF MemoryKept
<1>2. LocalsInv' /\ RegistersApart'
  BY DEF ApartInv, LocalsInv, RegistersApart, ListOf
<1>3. TurnInv'
  BY DEF ApartInv, TurnInv, LoopBound
<1> QED BY <1>1, <1>2, <1>3

(* main() has created every thread when it checks the lists.               *)
LEMMA MainKeepsControl ==
  ASSUME ApartInv, UNCHANGED <<phase, turn, main>>, t_main' \in Nat,
         \A t \in Threads : th'[t] = th[t], main # "create"
  PROVE  TurnInv' /\ BornInv'
BY DEF ApartInv, TurnInv, BornInv, LoopBound

LEMMA MainStep ==
  ASSUME ApartInv, Main
  PROVE  ApartInv'
<1>1. MainProc \in Procs /\ \A t \in Threads : t \in Procs /\ t # MainProc
  BY DEF Threads, MainProc
<1>2. CASE PthreadError \/ Report
  BY <1>2, ThreadsUntouched DEF PthreadError, Report, setup, ApartInv, BornInv
<1>3. CASE CreateThread
  <2> DEFINE new == [pc |-> "loop"]
  <2>1. t_main \in Threads /\ t_main \in Procs /\ t_main \in Nat /\ th[t_main].pc = "unborn"
    BY <1>3 DEF CreateThread, ApartInv, BornInv, Threads
  <2>2. DOMAIN new = {"pc"} /\ new["pc"] = "loop"
    OBVIOUS
  <2>3. Registers \cap DOMAIN new = {} /\ th[t_main].pc \in IdleLabels
    BY <2>1, <2>2 DEF Registers, IdleLabels
  <2>4. Set(t_main, new)
    BY <1>3 DEF CreateThread
  <2> HIDE DEF new
  <2>5. LocalsInv' /\ RegistersApart'
    BY <1>3, <2>1, <2>2, <2>3, <2>4, IdleSets DEF CreateThread, setup
  <2>6. (\A q \in Procs : q # t_main => th'[q] = th[q]) /\ th'[t_main].pc = "loop"
    BY <2>1, <2>2, <2>4, SetEffect DEF ApartInv, LocalsInv
  <2>7. \A t \in Threads : t \in Procs
    BY DEF Threads
  <2>8. TurnInv'
    BY <1>3, <2>6, <2>7 DEF CreateThread, setup, ApartInv, TurnInv, LoopBound
  <2>9. BornInv'
    <3>0. t_main' \in Nat
      BY <1>3, <2>1 DEF CreateThread
    <3> SUFFICES ASSUME NEW t \in Threads, t >= t_main' PROVE th'[t].pc = "unborn"
      BY <3>0 DEF BornInv
    <3>1. t # t_main /\ t >= t_main
      BY <1>3, <2>1 DEF CreateThread, Threads
    <3> QED BY <1>3, <2>6, <2>7, <3>1 DEF CreateThread, ApartInv, BornInv
  <2>10. MemoryKept
    BY <1>3 DEF CreateThread, setup, MemoryKept
  <2> QED BY <2>5, <2>8, <2>9, <2>10, SameMemory DEF ApartInv
<1>4. CASE NextLoop
  BY <1>4, ThreadsUntouched DEF NextLoop, setup, ApartInv, BornInv
<1>5. CASE JoinThread
  BY <1>5, ThreadsUntouched DEF JoinThread, setup, ApartInv, BornInv
<1>6. CASE CheckList
  <2> DEFINE new == [pc |-> "length", list |-> Head(t_main)]
  <2>1. t_main \in HeadIds /\ main = "check" /\ th[MainProc].pc \in IdleLabels
    BY <1>6 DEF CheckList, On, IdleLabels, ApartInv, BornInv
  <2>2. DOMAIN new = {"pc", "list"} /\ new["pc"] = "length" /\ new["list"] = Head(t_main)
    OBVIOUS
  <2>3. Registers \cap DOMAIN new \subseteq {"list", "elem"} /\ "elem" \notin DOMAIN new
    BY <2>2 DEF Registers
  <2>4. Set(MainProc, new)
    BY <1>6 DEF CheckList
  <2> HIDE DEF new
  <2>5. new["pc"] \notin IdleLabels
    BY <2>2 DEF IdleLabels
  <2>6. MemoryKept /\ UNCHANGED <<hash, phase, turn, main, t_main>>
    BY <1>6 DEF CheckList, setup, MemoryKept
  <2>7. LocalsInv' /\ RegistersApart'
    BY <1>1, <2>1, <2>2, <2>3, <2>4, <2>5, <2>6, CallSets
  <2>8. \A t \in Threads : th'[t] = th[t]
    BY <1>1, <2>4, SetEffect DEF ApartInv, LocalsInv
  <2>9. TurnInv' /\ BornInv'
    BY <2>1, <2>6, <2>8, MainKeepsControl DEF ApartInv, BornInv
  <2> QED BY <2>6, <2>7, <2>9, SameMemory DEF ApartInv
<1>7. CASE CheckOperating
  BY <1>1, <1>7, OperateKeepsApart DEF CheckOperating, setup
<1>8. CASE ListChecked
  <2>1. MemoryKept /\ UNCHANGED <<hash, phase, turn, main>>
    BY <1>8 DEF ListChecked, setup, MemoryKept
  <2>2. CASE UNCHANGED <<th, t_main>>
    BY <2>1, <2>2, ThreadsUntouched DEF MemoryKept, ApartInv, BornInv
  <2>3. CASE Set(MainProc, Idle("unborn")) /\ t_main' = t_main + 1
    <3>1. /\ LocalsInv' /\ RegistersApart' /\ th'[MainProc].pc = "unborn"
          /\ \A q \in Procs : q # MainProc => th'[q] = th[q]
      BY <1>1, <2>1, <2>3, Resets
    <3>2. \A t \in Threads : th'[t] = th[t]
      BY <1>1, <3>1
    <3>3. TurnInv'
      BY <2>1, <3>2 DEF ApartInv, TurnInv, LoopBound, MemoryKept
    <3>4. BornInv'
      BY <2>1, <2>3, <3>2 DEF ApartInv, BornInv, Threads
    <3> QED BY <2>1, <3>1, <3>3, <3>4, SameMemory DEF ApartInv
  <2> QED BY <1>8, <2>2, <2>3 DEF ListChecked
<1> QED BY <1>2, <1>3, <1>4, <1>5, <1>6, <1>7, <1>8 DEF Main

LEMMA ApartInductive == Spec => []ApartInv
<1>1. ApartInv /\ [Next]_vars => ApartInv'
  <2> SUFFICES ASSUME ApartInv, [Next]_vars PROVE ApartInv'
    OBVIOUS
  <2>1. CASE UNCHANGED vars
    BY <2>1, ThreadsUntouched DEF vars, ApartInv, BornInv
  <2>2. CASE Next
    BY <2>1, <2>2, ThreadStep, MainStep DEF Next, Terminated
  <2> QED BY <2>1, <2>2
<1> QED BY <1>1, InitApart, PTL DEF Spec

(* Whatever --sync says, no pointer in memory or in a local variable ever  *)
(* leads from one sublist into another: a race corrupts a sublist, never   *)
(* its neighbour, and the lock of a sublist guards all an operation on it  *)
(* touches.                                                                *)
THEOREM Apart == Spec => []SublistsAreApart
<1>1. ApartInv => SublistsAreApart
  BY DEF ApartInv, LinksApart, RegistersApart, SublistsAreApart, Fields, Registers
<1> QED BY <1>1, ApartInductive, PTL

-----------------------------------------------------------------------------
(* A synchronised program: the invariant SyncInv.                          *)

(* A thread in a turn of its loop works on a sublist that exists, and that *)
(* the element of its turn hashes to.                                      *)
LEMMA TurnFacts ==
  ASSUME SyncInv, NEW t \in Threads, turn[t] < LoopBound(t)
  PROVE  /\ ListIndex(t) \in HeadIds
         /\ phase[t] # "count" =>
              /\ Element(t) \in ListElements /\ hash[Element(t)] = ListIndex(t)
              /\ Element(t)[1] = t /\ Element(t)[2] = turn[t]
<1>1. /\ turn[t] \in Nat /\ phase[t] \in {"insert", "count", "delete"}
      /\ hash \in [ListElements -> HeadIds]
  BY DEF SyncInv, ControlInv
<1>2. CASE phase[t] = "count"
  BY <1>1, <1>2 DEF LoopBound, ListIndex
<1>3. CASE phase[t] # "count"
  <2>1. turn[t] \in 0..(NumIterations - 1) /\ t \in 0..(NumThreads - 1)
    BY <1>1, <1>3 DEF LoopBound, Threads
  <2>2. Element(t) \in ListElements
    BY <2>1 DEF Element
  <2> QED BY <1>1, <1>3, <2>2 DEF ListIndex, Element
<1> QED BY <1>2, <1>3

LEMMA ThreadFacts ==
  /\ \A t \in Threads : t \in Procs /\ t \in Nat /\ t # NoThread /\ t # MainProc
  /\ MainProc \in Procs
  /\ \A e \in ListElements : e = <<e[1], e[2]>> /\ e[1] \in Threads /\ e[2] \in 0..(NumIterations - 1)
  /\ \A l \in HeadIds : Contents(l) \in SUBSET ListElements
BY DEF Threads, NoThread, MainProc, Contents

LEMMA SyncKeyed == SyncInv => KeysApart /\ Keyed = ListElements
BY AllKeyed DEF SyncInv

(* The sublists share no element, and no head.                             *)
LEMMA Disjoint ==
  ASSUME NEW l \in HeadIds, NEW m \in HeadIds, l # m, NEW q \in RingNodes(m, Contents(m))
  PROVE  q \notin RingNodes(l, Contents(l)) /\ q \in Nodes
BY NodeFacts DEF RingNodes, Contents

(* Inside its operation a thread has the sublist to itself.                *)
LEMMA OperatorOwns ==
  ASSUME SyncInv, NEW t \in Threads, Operates(t), NEW l, l = ListIndex(t)
  PROVE  /\ l \in HeadIds /\ lock[l] = t /\ turn[t] < LoopBound(t)
         /\ Owns(t, l, Contents(l))
         /\ phase[t] # "count" => th[t].elem = Element(t)
         /\ th[t].pc \in IF phase[t] = "insert" THEN InsertLabels \cup {"done"}
                         ELSE IF phase[t] = "count" THEN LengthLabels \cup {"done"}
                         ELSE LookupLabels \cup UnlinkLabels \cup {"done"}
<1>1. turn[t] < LoopBound(t)
  BY DEF SyncInv, ControlInv
<1>2. l \in HeadIds
  BY <1>1, TurnFacts
<1>3. lock[l] = t
  BY <1>2 DEF SyncInv, ListsInv
<1>4. Inside(t, l, Contents(l)) /\ (phase[t] # "count" => th[t].elem = Element(t))
  BY DEF SyncInv, ListsInv, OperationInv
<1>5. Owns(t, l, Contents(l))
  BY <1>2, <1>4, ThreadFacts, SyncKeyed DEF Owns, SyncInv
<1>6. phase[t] \in {"insert", "count", "delete"}
  BY DEF SyncInv, ControlInv
<1>7. th[t].pc \in InsertLabels \cup LookupLabels \cup UnlinkLabels \cup LengthLabels \cup {"done"}
  BY <1>4 DEF Inside
<1>8. /\ th[t].pc \in InsertLabels => phase[t] = "insert"
      /\ th[t].pc \in LookupLabels \cup UnlinkLabels => phase[t] = "delete"
      /\ th[t].pc \in LengthLabels => phase[t] = "count"
  BY DEF SyncInv, ControlInv
<1>9. th[t].pc \in IF phase[t] = "insert" THEN InsertLabels \cup {"done"}
                   ELSE IF phase[t] = "count" THEN LengthLabels \cup {"done"}
                   ELSE LookupLabels \cup UnlinkLabels \cup {"done"}
  BY <1>6, <1>7, <1>8
<1> QED BY <1>1, <1>2, <1>3, <1>4, <1>5, <1>9

(* When the threads' progress stays, so do the elements in the sublists.   *)
LEMMA ContentsKept ==
  ASSUME UNCHANGED hash,
         \A e \in ListElements : IsIn(e)' <=> IsIn(e)
  PROVE  \A l : Contents(l)' = Contents(l)
BY DEF Contents

LEMMA AbstractPcFacts ==
  ASSUME NEW t
  PROVE  /\ AbstractPc(t) = "unlock" <=> th[t].pc \in MadeLabels
         /\ AbstractPc(t)' = "unlock" <=> th'[t].pc \in MadeLabels
BY DEF AbstractPc, MadeLabels

(* The step of an operation of thread t on its sublist.                    *)
LEMMA ThreadOperates ==
  ASSUME SyncInv, NEW t \in Threads, Operating(t), NEW l, l = ListIndex(t),
         NEW T, T = After(t, Contents(l))
  PROVE  /\ Operates(t) /\ l \in HeadIds /\ lock[l] = t
         /\ Advances(t, l, Contents(l), T)
         /\ Contents(l)' = T
         /\ \A m \in HeadIds : m # l => Contents(m)' = Contents(m)
<1> DEFINE S == Contents(l)
<1>1. /\ Operate(t) /\ UNCHANGED <<key, sync, hash, lock, phase, turn, size, main, t_main>>
  BY DEF Operating, setup
<1>2. Operates(t) /\ th[t].pc # "done"
  BY <1>1, OperateLabels DEF Operates
<1>3. /\ l \in HeadIds /\ lock[l] = t /\ turn[t] < LoopBound(t)
      /\ Owns(t, l, S)
      /\ phase[t] # "count" => th[t].elem = Element(t)
      /\ th[t].pc \in IF phase[t] = "insert" THEN InsertLabels \cup {"done"}
                      ELSE IF phase[t] = "count" THEN LengthLabels \cup {"done"}
                      ELSE LookupLabels \cup UnlinkLabels \cup {"done"}
  BY <1>2, OperatorOwns
<1>4. Advances(t, l, S, T)
  BY <1>1, <1>3, OperateAdvances
<1>5. \A s \in Threads : s # t => Made(s)' = Made(s)
  BY <1>1, <1>4, ThreadFacts DEF Made, AbstractPc, Advances, Moves
<1>6. phase[t] # "count" => Made(t)' = Made(t) +
        (IF th[t].pc \in {"only2", "link5", "unlink6"} THEN 1 ELSE 0)
  <2> SUFFICES ASSUME phase[t] # "count"
               PROVE  Made(t)' = Made(t) +
                        (IF th[t].pc \in {"only2", "link5", "unlink6"} THEN 1 ELSE 0)
    OBVIOUS
  <2>1. th[t].pc # "count"
    BY <1>3, LabelFacts DEF LookupLabels, UnlinkLabels
  <2>2. th'[t].pc \in MadeLabels <=> th[t].pc \in MadeLabels \cup {"only2", "link5", "unlink6"}
    BY <1>4, <2>1 DEF Advances
  <2>3. {"only2", "link5", "unlink6"} \cap MadeLabels = {}
    BY DEF MadeLabels
  <2>4. turn[t] \in Nat
    BY DEF SyncInv, ControlInv
  <2> QED BY <1>1, <2>2, <2>3, <2>4, AbstractPcFacts DEF Made
<1>7. \A e \in ListElements : e[1] # t \/ phase[t] = "count" => (IsIn(e)' <=> IsIn(e))
  BY <1>1, <1>5, ThreadFacts DEF IsIn
<1>8. turn[t] \in Nat /\ (AbstractPc(t) = "unlock" <=> th[t].pc \in MadeLabels)
  BY AbstractPcFacts DEF SyncInv, ControlInv
<1>9. th[t].pc \in {"only2", "link5", "unlink6"} => th[t].pc \notin MadeLabels /\ Made(t) = turn[t]
  BY <1>8 DEF Made, MadeLabels
<1>10. /\ th[t].pc \in {"only2", "link5"} => phase[t] = "insert"
       /\ th[t].pc = "unlink6" => phase[t] = "delete"
  <2>1. {"only2", "link5"} \subseteq InsertLabels /\ "unlink6" \in UnlinkLabels
    BY LabelFacts DEF UnlinkLabels
  <2> QED BY <2>1 DEF SyncInv, ControlInv
<1>11. phase[t] \in {"insert", "count", "delete"}
  BY DEF SyncInv, ControlInv
<1>12. phase[t] # "count" =>
         /\ Element(t) \in ListElements /\ hash[Element(t)] = l
         /\ Element(t)[1] = t /\ Element(t)[2] = turn[t]
  BY <1>3, TurnFacts
<1>13. \A e \in ListElements : e[1] = t /\ e # Element(t) => e[2] # turn[t]
  BY ThreadFacts DEF Element
<1>14. CASE th[t].pc \notin {"only2", "link5", "unlink6"}
  <2>1. T = S
    BY <1>14 DEF After
  <2>2. \A e \in ListElements : e[1] = t /\ phase[t] # "count" => (IsIn(e)' <=> IsIn(e))
    <3>1. phase[t] # "count" => Made(t)' = Made(t)
      BY <1>6, <1>8, <1>14 DEF Made
    <3> QED BY <1>1, <3>1 DEF IsIn
  <2>3. \A m : Contents(m)' = Contents(m)
    BY <1>1, <1>7, <2>2, ContentsKept
  <2> QED BY <1>2, <1>3, <1>4, <2>1, <2>3
<1>15. CASE th[t].pc \in {"only2", "link5"}
  <2>1. T = S \cup {Element(t)} /\ phase[t] = "insert"
    BY <1>3, <1>10, <1>15 DEF After
  <2>2. Made(t) = turn[t] /\ Made(t)' = turn[t] + 1
    BY <1>6, <1>9, <1>15, <2>1
  <2>3. \A e \in ListElements : IsIn(e)' <=> IsIn(e) \/ e = Element(t)
    <3> SUFFICES ASSUME NEW e \in ListElements PROVE IsIn(e)' <=> IsIn(e) \/ e = Element(t)
      OBVIOUS
    <3>1. CASE e[1] # t
      BY <1>7, <1>12, <2>1, <3>1
    <3>2. CASE e[1] = t
      <4>1. e[2] \in Nat /\ (e = Element(t) <=> e[2] = turn[t])
        BY <1>12, <1>13, <2>1, <3>2, ThreadFacts
      <4>2. IsIn(e) <=> e[2] < turn[t]
        BY <2>1, <2>2, <3>2 DEF IsIn
      <4>3. IsIn(e)' <=> e[2] < turn[t] + 1
        BY <1>1, <2>1, <2>2, <3>2 DEF IsIn
      <4> QED BY <1>8, <4>1, <4>2, <4>3
    <3> QED BY <3>1, <3>2
  <2>4. \A m : Contents(m)' = {e \in ListElements : hash[e] = m /\ (IsIn(e) \/ e = Element(t))}
    BY <1>1, <2>3 DEF Contents
  <2>5. {e \in ListElements : hash[e] = l /\ (IsIn(e) \/ e = Element(t))} = S \cup {Element(t)}
    BY <1>12, <2>1 DEF Contents
  <2>6. \A m : m # l => {e \in ListElements : hash[e] = m /\ (IsIn(e) \/ e = Element(t))} = Contents(m)
    BY <1>12, <2>1 DEF Contents
  <2>7. Contents(l)' = S \cup {Element(t)}
    BY <2>4, <2>5
  <2>8. \A m \in HeadIds : m # l => Contents(m)' = Contents(m)
    BY <2>4, <2>6
  <2> HIDE DEF S
  <2> QED BY <1>2, <1>3, <1>4, <2>1, <2>7, <2>8 DEF S
<1>16. CASE th[t].pc = "unlink6"
  <2>1. T = S \ {Element(t)} /\ phase[t] = "delete"
    BY <1>3, <1>10, <1>16 DEF After
  <2>2. Made(t) = turn[t] /\ Made(t)' = turn[t] + 1
    BY <1>6, <1>9, <1>16, <2>1
  <2>3. \A e \in ListElements : IsIn(e)' <=> IsIn(e) /\ e # Element(t)
    <3> SUFFICES ASSUME NEW e \in ListElements PROVE IsIn(e)' <=> IsIn(e) /\ e # Element(t)
      OBVIOUS
    <3>1. CASE e[1] # t
      BY <1>7, <1>12, <2>1, <3>1
    <3>2. CASE e[1] = t
      <4>1. e[2] \in Nat /\ (e = Element(t) <=> e[2] = turn[t])
        BY <1>12, <1>13, <2>1, <3>2, ThreadFacts
      <4>2. IsIn(e) <=> e[2] >= turn[t]
        BY <2>1, <2>2, <3>2 DEF IsIn
      <4>3. IsIn(e)' <=> e[2] >= turn[t] + 1
        BY <1>1, <2>1, <2>2, <3>2 DEF IsIn
      <4> QED BY <1>8, <4>1, <4>2, <4>3
    <3> QED BY <3>1, <3>2
  <2>4. \A m : Contents(m)' = {e \in ListElements : hash[e] = m /\ IsIn(e) /\ e # Element(t)}
    BY <1>1, <2>3 DEF Contents
  <2>5. {e \in ListElements : hash[e] = l /\ IsIn(e) /\ e # Element(t)} = S \ {Element(t)}
    BY <1>12, <2>1 DEF Contents
  <2>6. \A m : m # l => {e \in ListElements : hash[e] = m /\ IsIn(e) /\ e # Element(t)} = Contents(m)
    BY <1>12, <2>1 DEF Contents
  <2>7. Contents(l)' = S \ {Element(t)}
    BY <2>4, <2>5
  <2>8. \A m \in HeadIds : m # l => Contents(m)' = Contents(m)
    BY <2>4, <2>6
  <2> HIDE DEF S
  <2> QED BY <1>2, <1>3, <1>4, <2>1, <2>7, <2>8 DEF S
<1> QED BY <1>14, <1>15, <1>16

(* A thread inside an operation on another sublist is not disturbed.       *)
LEMMA OtherInside ==
  ASSUME SyncInv, NEW s \in Threads, Operates(s), NEW m, m = ListIndex(s),
         UNCHANGED <<key, hash>>, th'[s] = th[s], phase'[s] = phase[s], turn'[s] = turn[s],
         Contents(m)' = Contents(m),
         \A q \in RingNodes(m, Contents(m)) : mem'[q] = mem[q],
         phase[s] # "count" => mem'[Element(s)] = mem[Element(s)]
  PROVE  OperationInv(s)'
<1> DEFINE S == Contents(m)
<1>1. /\ m \in HeadIds /\ turn[s] < LoopBound(s) /\ Owns(s, m, S)
      /\ phase[s] # "count" => th[s].elem = Element(s)
      /\ th[s].pc \in IF phase[s] = "insert" THEN InsertLabels \cup {"done"}
                      ELSE IF phase[s] = "count" THEN LengthLabels \cup {"done"}
                      ELSE LookupLabels \cup UnlinkLabels \cup {"done"}
  BY OperatorOwns
<1>2. S \in SUBSET Keyed /\ Inside(s, m, S)
  BY <1>1 DEF Owns
<1>3. th[s].pc \notin LengthLabels \cup {"done"} => mem'[th[s].elem] = mem[th[s].elem]
  BY <1>1
<1>4. Inside(s, m, S)'
  <2> HIDE DEF S
  <2> QED BY <1>1, <1>2, <1>3, InsideKept DEF S
<1>5. ListIndex(s)' = m /\ Element(s)' = Element(s)
  BY DEF ListIndex, Element
<1>6. Inside(s, ListIndex(s), Contents(ListIndex(s)))'
  BY <1>4, <1>5
<1>7. th[s].pc = "done" =>
        th[s].count = IF phase[s] = "count" THEN Cardinality(Contents(m)) ELSE 0
  BY DEF SyncInv, ListsInv, OperationInv
<1>8. (Cardinality(Contents(ListIndex(s))))' = Cardinality(Contents(m))
  BY <1>5
<1> QED BY <1>1, <1>5, <1>6, <1>7, <1>8 DEF OperationInv

(* What the step of an operation leaves alone.                             *)
LEMMA ElsewhereKept ==
  ASSUME SyncInv, NEW t \in Threads, Operating(t)
  PROVE  /\ \A m \in HeadIds : m # ListIndex(t) =>
              \A q \in RingNodes(m, Contents(m)) : mem'[q] = mem[q]
         /\ \A e \in ListElements :
              hash[e] # ListIndex(t) \/ (e \notin Contents(ListIndex(t)) /\ e # Element(t)) =>
                mem'[e] = mem[e]
<1> DEFINE l == ListIndex(t)
           S == Contents(l)
           x == th[t].elem
           T == After(t, S)
<1>1. Operates(t) /\ l \in HeadIds /\ Advances(t, l, S, T)
  <2> HIDE DEF l, T
  <2> QED BY ThreadOperates DEF l, T
<1>2. turn[t] < LoopBound(t) /\ (phase[t] # "count" => x = Element(t))
  BY <1>1, OperatorOwns
<1>3. phase[t] = "count" => mem' = mem
  <2>1. th[t].pc # "done"
    BY OperateLabels DEF Operating
  <2>2. phase[t] = "count" => th[t].pc \in LengthLabels
    BY <1>1, <2>1, OperatorOwns
  <2> QED BY <1>1, <2>2 DEF Advances
<1>4. phase[t] # "count" => x \in ListElements /\ hash[x] = l /\ x = Element(t)
  BY <1>2, TurnFacts
<1>5. \A q \in Nodes : q \notin RingNodes(l, S) /\ (phase[t] # "count" => q # x) => mem'[q] = mem[q]
  BY <1>1, <1>3 DEF Advances, Moves
<1>6. \A m \in HeadIds : m # l => \A q \in RingNodes(m, Contents(m)) : mem'[q] = mem[q]
  <2> SUFFICES ASSUME NEW m \in HeadIds, m # l, NEW q \in RingNodes(m, Contents(m))
               PROVE  mem'[q] = mem[q]
    OBVIOUS
  <2>1. q \in Nodes /\ q \notin RingNodes(l, S)
    BY <1>1, Disjoint
  <2>2. phase[t] # "count" => q # x
    BY <1>4, NodeFacts DEF RingNodes, Contents
  <2> QED BY <1>5, <2>1, <2>2
<1>7. \A e \in ListElements : hash[e] # l \/ (e \notin S /\ e # Element(t)) => mem'[e] = mem[e]
  <2> SUFFICES ASSUME NEW e \in ListElements, hash[e] # l \/ (e \notin S /\ e # Element(t))
               PROVE  mem'[e] = mem[e]
    OBVIOUS
  <2>1. e \in Nodes /\ e \notin RingNodes(l, S)
    BY NodeFacts, <1>1 DEF RingNodes, Contents
  <2> QED BY <1>4, <1>5, <2>1
<1> QED BY <1>6, <1>7

(* No step of an operation undoes SyncInv.                                 *)
LEMMA OperatingKeepsSync ==
  ASSUME SyncInv, NEW t \in Threads, Operating(t),
         NEW l, l = ListIndex(t), NEW S, S = Contents(l), NEW T, T = After(t, S)
  PROVE  SyncInv'
<1>1. /\ Operates(t) /\ l \in HeadIds /\ lock[l] = t
      /\ Advances(t, l, S, T) /\ Contents(l)' = T
      /\ \A m \in HeadIds : m # l => Contents(m)' = Contents(m)
  BY ThreadOperates
<1>2. UNCHANGED <<key, sync, hash, lock, phase, turn, size, main, t_main>>
  BY DEF Operating, setup
<1>3. /\ MemInv' /\ RegisterInv' /\ outcome' = outcome
      /\ \A q \in Procs : q # t => th'[q] = th[q]
      /\ th'[t].elem = th[t].elem
  BY <1>1 DEF Advances, Moves
<1>4. /\ turn[t] < LoopBound(t) /\ Owns(t, l, S)
      /\ phase[t] # "count" => th[t].elem = Element(t)
      /\ th[t].pc \in IF phase[t] = "insert" THEN InsertLabels \cup {"done"}
                      ELSE IF phase[t] = "count" THEN LengthLabels \cup {"done"}
                      ELSE LookupLabels \cup UnlinkLabels \cup {"done"}
  BY <1>1, OperatorOwns
<1>5. th[t].pc \notin IdleLabels \cup {"done"}
  BY OperateLabels DEF Operating
<1>6. th'[t].pc \in IF phase[t] = "insert" THEN InsertLabels \cup {"done"}
                    ELSE IF phase[t] = "count" THEN LengthLabels \cup {"done"}
                    ELSE LookupLabels \cup UnlinkLabels \cup {"done"}
  <2>1. th'[t].pc \in OperationOf(th[t].pc) \cup {"done"}
    BY <1>1 DEF Advances
  <2> QED BY <1>4, <1>5, <2>1, LabelFacts
<1>7. th'[t].pc \notin IdleLabels
  BY <1>6, LabelFacts DEF IdleLabels, LookupLabels, UnlinkLabels, LengthLabels
<1>8. ControlInv'
  <2>1. phase[t] \in {"insert", "count", "delete"}
    BY DEF SyncInv, ControlInv
  <2>2. /\ th'[t].pc \in InsertLabels => phase[t] = "insert"
        /\ th'[t].pc \in LookupLabels \cup UnlinkLabels => phase[t] = "delete"
        /\ th'[t].pc \in LengthLabels => phase[t] = "count"
    BY <1>6, <2>1, LabelFacts DEF LookupLabels, UnlinkLabels, LengthLabels
  <2>3. /\ th'[t].pc # "unlock" /\ th'[t].pc # "unborn" /\ th'[t].pc # "returned"
    BY <1>7 DEF IdleLabels
  <2>4. \A s \in Threads : LoopBound(s)' = LoopBound(s)
    BY <1>2 DEF LoopBound
  <2>5. ControlInv
    BY DEF SyncInv
  <2>6. ASSUME NEW s \in Threads
        PROVE  LET at == th'[s].pc IN
               /\ at # "unlock"
               /\ at = "unborn" => phase[s] = "insert" /\ turn[s] = 0
               /\ at = "returned" => phase[s] = "delete" /\ turn[s] >= NumIterations
               /\ at = "lock" \/ Operates(s)' => turn[s] < LoopBound(s)
               /\ at \in InsertLabels => phase[s] = "insert"
               /\ at \in LookupLabels \cup UnlinkLabels => phase[s] = "delete"
               /\ at \in LengthLabels => phase[s] = "count"
    <3>1. CASE s = t
      BY <1>4, <2>2, <2>3, <3>1
    <3>2. CASE s # t
      BY <1>3, <2>5, <3>2, ThreadFacts DEF ControlInv, Operates
    <3> QED BY <3>1, <3>2
  <2> QED BY <1>2, <2>4, <2>5, <2>6 DEF ControlInv
<1>9. MainInv'
  <2>1. th[t].pc # "unborn" /\ th[t].pc # "returned" /\ MainInv
    BY <1>5 DEF IdleLabels, SyncInv
  <2>2. main # "check" /\ (main = "create" => ~(t >= t_main)) /\ (main = "join" => ~(t < t_main))
    BY <2>1 DEF MainInv
  <2>3. th[MainProc].pc = "unborn" /\ th'[MainProc] = th[MainProc]
    BY <1>3, <2>1, <2>2, ThreadFacts DEF MainInv
  <2> QED BY <1>2, <1>3, <2>1, <2>2, <2>3, ThreadFacts DEF MainInv
<1>10. \A s \in Threads : Operates(s)' <=> Operates(s)
  BY <1>1, <1>3, <1>7, ThreadFacts DEF Operates
<1>11. \A s \in Threads : ListIndex(s)' = ListIndex(s) /\ Element(s)' = Element(s)
  BY <1>2 DEF ListIndex, Element
<1>12. ListsInv'
  <2>1. ListsInv
    BY DEF SyncInv
  <2>2. \A s \in Threads, m \in HeadIds : (lock[m] = s <=> Operates(s) /\ ListIndex(s) = m)'
    BY <1>2, <1>10, <1>11, <2>1 DEF ListsInv
  <2>3. ASSUME NEW m \in HeadIds, lock'[m] = NoThread
        PROVE  Ring(m, Contents(m))'
    <3>1. m # l /\ Ring(m, Contents(m)) /\ Contents(m)' = Contents(m)
      BY <1>1, <1>2, <2>1, <2>3, ThreadFacts DEF ListsInv
    <3>2. \A q \in RingNodes(m, Contents(m)) : mem'[q] = mem[q]
      BY <3>1, ElsewhereKept
    <3> PICK R : R = Contents(m)
      OBVIOUS
    <3>3. Ring(m, R)'
      BY <1>2, <3>1, <3>2, WholeKept
    <3> QED BY <3>1, <3>3
  <2>4. ASSUME NEW s \in Threads, s # t, Operates(s)
        PROVE  OperationInv(s)'
    <3> PICK m : m = ListIndex(s)
      OBVIOUS
    <3>1. m \in HeadIds /\ m # l /\ turn[s] < LoopBound(s)
      BY <1>1, <2>1, <2>4, OperatorOwns DEF ListsInv
    <3>2. Contents(m)' = Contents(m) /\ th'[s] = th[s]
      BY <1>1, <1>3, <2>4, <3>1, ThreadFacts
    <3>3. \A q \in RingNodes(m, Contents(m)) : mem'[q] = mem[q]
      BY <3>1, ElsewhereKept
    <3>4. phase[s] # "count" => mem'[Element(s)] = mem[Element(s)]
      BY <3>1, TurnFacts, ElsewhereKept
    <3> QED BY <1>2, <2>4, <3>1, <3>2, <3>3, <3>4, OtherInside
  <2>5. OperationInv(t)'
    <3>1. Inside(t, ListIndex(t), Contents(ListIndex(t)))'
      <4>1. Inside(t, l, T)'
        BY <1>1 DEF Advances
      <4> QED BY <1>1, <1>11, <4>1
    <3>2. (phase[t] # "count" => th[t].elem = Element(t))'
      BY <1>2, <1>3, <1>4, <1>11
    <3>3. (th[t].pc = "done" =>
             th[t].count = IF phase[t] = "count" THEN Cardinality(Contents(ListIndex(t))) ELSE 0)'
      <4> SUFFICES ASSUME th'[t].pc = "done"
                   PROVE  (th[t].count = IF phase[t] = "count"
                                         THEN Cardinality(Contents(ListIndex(t))) ELSE 0)'
        OBVIOUS
      <4>1. th'[t].count = IF th[t].pc = "count" THEN Cardinality(S) ELSE 0
        BY <1>1 DEF Advances
      <4>2. phase[t] = "count" => th[t].pc = "count"
        <5>1. phase[t] = "count" => th[t].pc \notin MadeLabels \cup {"only2", "link5", "unlink6"}
          BY <1>4, <1>5, LabelFacts DEF MadeLabels, LengthLabels
        <5>2. "done" \in MadeLabels
          BY DEF MadeLabels
        <5> QED BY <1>1, <5>1, <5>2 DEF Advances
      <4>3. th[t].pc = "count" => phase[t] = "count"
        BY <1>4, LabelFacts DEF LookupLabels, UnlinkLabels
      <4>4. th[t].pc = "count" => T = S
        BY DEF After
      <4>5. (Cardinality(Contents(ListIndex(t))))' = Cardinality(T)
        BY <1>1, <1>11
      <4> QED BY <1>2, <4>1, <4>2, <4>3, <4>4, <4>5
    <3> QED BY <3>1, <3>2, <3>3 DEF OperationInv
  <2> QED BY <1>10, <2>2, <2>3, <2>4, <2>5 DEF ListsInv
<1>13. FreshInv'
  <2> SUFFICES ASSUME NEW e \in ListElements, phase[e[1]] = "insert",
                      e[2] > turn[e[1]] \/ (e[2] = turn[e[1]] /\ ~Operates(e[1]))
               PROVE  mem'[e].prev = Null
    BY <1>2, <1>10, ThreadFacts DEF FreshInv, Fresh
  <2>1. mem[e].prev = Null
    BY DEF SyncInv, FreshInv, Fresh
  <2>2. e[1] \in Threads /\ turn[e[1]] \in Nat /\ e[2] \in Nat
    BY ThreadFacts DEF SyncInv, ControlInv
  <2>3. e \notin S
    <3>1. ~Operates(e[1]) => AbstractPc(e[1]) # "unlock"
      BY AbstractPcFacts DEF Operates, MadeLabels, IdleLabels
    <3>2. ~(e[2] < Made(e[1]))
      BY <2>2, <3>1 DEF Made
    <3> QED BY <3>2 DEF Contents, IsIn
  <2>4. e # Element(t)
    BY <1>1, <2>2, ThreadFacts DEF Element, SyncInv, ControlInv
  <2> QED BY <2>1, <2>3, <2>4, ElsewhereKept
<1>14. /\ hash' \in [ListElements -> HeadIds] /\ key' \in Keys
       /\ lock' \in [HeadIds -> Threads \cup {NoThread}] /\ outcome' # "segfault" /\ sync' # "none"
  <2>1. Keys' = Keys
    BY DEF Keys
  <2> QED BY <1>2, <1>3, <2>1 DEF SyncInv
<1> QED BY <1>3, <1>8, <1>9, <1>12, <1>13, <1>14 DEF SyncInv

-----------------------------------------------------------------------------
(* The steps between operations.                                           *)

(* A step that disturbs neither memory nor any operation of a thread.      *)
LEMMA QuietStep ==
  ASSUME SyncInv, UNCHANGED <<mem, key, sync, hash, lock>>, outcome' # "segfault",
         RegisterInv', ControlInv', MainInv',
         \A t \in Threads : Operates(t) => th'[t] = th[t] /\ phase'[t] = phase[t] /\ turn'[t] = turn[t],
         \A t \in Threads : Operates(t)' => Operates(t),
         \A e \in ListElements : (IsIn(e)' <=> IsIn(e)) /\ (Fresh(e)' => Fresh(e))
  PROVE  /\ SyncInv'
         /\ \A m : Contents(m)' = Contents(m)
<1>1. \A m : Contents(m)' = Contents(m)
  BY ContentsKept
<1>2. FreshInv'
  BY DEF SyncInv, FreshInv
<1>3. \A t \in Threads : Operates(t)' <=> Operates(t)
  BY DEF Operates
<1>4. \A t \in Threads : Operates(t) => ListIndex(t)' = ListIndex(t)
  BY DEF ListIndex, Element
<1>5. ListsInv
  BY DEF SyncInv
<1>6. \A t \in Threads, m \in HeadIds : (lock[m] = t <=> Operates(t) /\ ListIndex(t) = m)'
  BY <1>3, <1>4, <1>5 DEF ListsInv
<1>7. ASSUME NEW m \in HeadIds, lock'[m] = NoThread
      PROVE  Ring(m, Contents(m))'
  <2>1. Ring(m, Contents(m))
    BY <1>5, <1>7 DEF ListsInv
  <2> PICK R : R = Contents(m)
    OBVIOUS
  <2>2. Ring(m, R)'
    BY <2>1, WholeKept
  <2> QED BY <1>1, <2>2
<1>8. ASSUME NEW t \in Threads, Operates(t)
      PROVE  OperationInv(t)'
  <2> PICK m : m = ListIndex(t)
    OBVIOUS
  <2> QED BY <1>1, <1>8, OtherInside
<1>9. ListsInv'
  BY <1>3, <1>6, <1>7, <1>8 DEF ListsInv
<1>10. /\ hash' \in [ListElements -> HeadIds] /\ key' \in Keys /\ MemInv'
       /\ lock' \in [HeadIds -> Threads \cup {NoThread}]
  <2>1. Keys' = Keys
    BY DEF Keys
  <2> QED BY <2>1 DEF SyncInv, MemInv
<1> QED BY <1>1, <1>2, <1>9, <1>10 DEF SyncInv

(* At the head of a loop: no operation is going on, so the element of the  *)
(* turn has only been dealt with if an earlier turn was its own.           *)
LEMMA LoopHeadKeepsSync ==
  ASSUME SyncInv, NEW t \in Threads, LoopHead(t)
  PROVE  /\ SyncInv' /\ \A m : Contents(m)' = Contents(m)
<1>1. /\ th[t].pc = "loop" /\ outcome = "running" /\ turn[t] \in Nat
      /\ phase[t] \in {"insert", "count", "delete"}
      /\ ControlInv /\ MainInv /\ RegisterInv
      /\ UNCHANGED <<mem, key, sync, hash, lock, size, main, t_main>>
  BY DEF LoopHead, On, SyncInv, ControlInv, setup
<1>2. \/ turn[t] < LoopBound(t) /\ Set(t, [pc |-> "lock"]) /\ UNCHANGED <<phase, turn, outcome>>
      \/ outcome' = "corrupted" /\ UNCHANGED <<th, phase, turn>>
      \/ /\ turn[t] >= LoopBound(t) /\ phase[t] = "insert" /\ UNCHANGED <<th, outcome>>
         /\ phase' = [phase EXCEPT ![t] = "count"] /\ turn' = [turn EXCEPT ![t] = 0]
      \/ /\ turn[t] >= LoopBound(t) /\ phase[t] = "count" /\ UNCHANGED <<th, outcome>>
         /\ phase' = [phase EXCEPT ![t] = "delete"] /\ turn' = [turn EXCEPT ![t] = 0]
      \/ /\ turn[t] >= LoopBound(t) /\ phase[t] = "delete" /\ UNCHANGED <<phase, turn, outcome>>
         /\ Set(t, [pc |-> "returned"])
  BY <1>1 DEF LoopHead, NextPhase
<1>3. /\ RegisterInv' /\ \A q \in Procs : q # t => th'[q] = th[q]
      /\ th'[t].pc \in {"loop", "lock", "returned"}
      /\ th'[t].pc = "lock" => turn[t] < LoopBound(t) /\ UNCHANGED <<phase, turn>>
      /\ th'[t].pc = "returned" =>
           turn[t] >= LoopBound(t) /\ phase[t] = "delete" /\ UNCHANGED <<phase, turn>>
  <2>1. {"loop", "lock", "returned"} \subseteq IdleLabels /\ t \in Procs
    BY ThreadFacts DEF IdleLabels
  <2>2. CASE Set(t, [pc |-> "lock"])
    BY <1>1, <1>2, <2>1, <2>2, SetIdle
  <2>3. CASE Set(t, [pc |-> "returned"])
    BY <1>1, <1>2, <2>1, <2>3, SetIdle
  <2>4. CASE UNCHANGED th
    BY <1>1, <2>1, <2>4 DEF RegisterInv, Values, Nodes, Heads
  <2> QED BY <1>2, <2>2, <2>3, <2>4
<1>4. /\ \A s \in Threads : s # t => phase'[s] = phase[s] /\ turn'[s] = turn[s]
      /\ turn' \in [Threads -> Nat] /\ phase' \in [Threads -> {"insert", "count", "delete"}]
      /\ outcome' # "segfault"
  <2>1. turn \in [Threads -> Nat] /\ phase \in [Threads -> {"insert", "count", "delete"}]
    BY <1>1 DEF ControlInv
  <2>2. CASE UNCHANGED <<phase, turn>>
    BY <1>1, <1>2, <2>1, <2>2
  <2>3. CASE phase' = [phase EXCEPT ![t] = "count"] /\ turn' = [turn EXCEPT ![t] = 0] /\ UNCHANGED outcome
    BY <1>1, <2>1, <2>3
  <2>4. CASE phase' = [phase EXCEPT ![t] = "delete"] /\ turn' = [turn EXCEPT ![t] = 0] /\ UNCHANGED outcome
    BY <1>1, <2>1, <2>4
  <2> QED BY <1>2, <2>2, <2>3, <2>4
<1>5. ~Operates(t) /\ ~Operates(t)'
  BY <1>1, <1>3 DEF Operates, IdleLabels
<1>6. AbstractPc(t) # "unlock" /\ AbstractPc(t)' # "unlock"
  BY <1>1, <1>3, AbstractPcFacts DEF MadeLabels
<1>7. ASSUME NEW e \in ListElements
      PROVE  (IsIn(e)' <=> IsIn(e)) /\ (Fresh(e)' => Fresh(e))
  <2>1. CASE e[1] # t
    <3>1. e[1] \in Threads /\ e[1] \in Procs
      BY ThreadFacts
    <3>2. Made(e[1])' = Made(e[1]) /\ (Operates(e[1])' <=> Operates(e[1]))
      BY <1>3, <1>4, <2>1, <3>1 DEF Made, AbstractPc, Operates
    <3> QED BY <1>4, <2>1, <3>1, <3>2 DEF IsIn, Fresh
  <2>2. CASE e[1] = t
    <3>1. e[2] \in Nat /\ e[2] < NumIterations
      BY ThreadFacts
    <3>2. Made(t) = turn[t] /\ Made(t)' = turn'[t] /\ turn'[t] \in Nat
      BY <1>1, <1>4, <1>6 DEF Made
    <3>3. /\ IsIn(e) <=> \/ phase[t] = "insert" /\ e[2] < turn[t]
                         \/ phase[t] = "count"
                         \/ phase[t] = "delete" /\ e[2] >= turn[t]
          /\ IsIn(e)' <=> \/ phase'[t] = "insert" /\ e[2] < turn'[t]
                          \/ phase'[t] = "count"
                          \/ phase'[t] = "delete" /\ e[2] >= turn'[t]
      BY <2>2, <3>2 DEF IsIn
    <3>4. CASE UNCHANGED <<phase, turn>>
      BY <1>5, <2>2, <3>3, <3>4 DEF Fresh
    <3>5. CASE phase[t] = "insert" /\ turn[t] >= LoopBound(t) /\ phase'[t] = "count"
      BY <1>1, <2>2, <3>1, <3>3, <3>5 DEF LoopBound, Fresh
    <3>6. CASE phase[t] = "count" /\ phase'[t] = "delete" /\ turn'[t] = 0
      BY <2>2, <3>1, <3>3, <3>6 DEF Fresh
    <3> QED BY <1>1, <1>2, <3>4, <3>5, <3>6 DEF ControlInv
  <2> QED BY <2>1, <2>2
<1>8. ControlInv'
  <2>1. /\ LoopBound(t)' = LoopBound(t) \/ th'[t].pc # "lock"
        /\ \A s \in Threads : s # t => LoopBound(s)' = LoopBound(s)
    BY <1>3, <1>4 DEF LoopBound
  <2>2. ASSUME NEW s \in Threads
        PROVE  LET at == th'[s].pc IN
               /\ at # "unlock"
               /\ at = "unborn" => phase'[s] = "insert" /\ turn'[s] = 0
               /\ at = "returned" => phase'[s] = "delete" /\ turn'[s] >= NumIterations
               /\ at = "lock" \/ Operates(s)' => turn'[s] < LoopBound(s)'
               /\ at \in InsertLabels => phase'[s] = "insert"
               /\ at \in LookupLabels \cup UnlinkLabels => phase'[s] = "delete"
               /\ at \in LengthLabels => phase'[s] = "count"
    <3>1. CASE s = t
      <4>1. th'[t].pc \notin InsertLabels \cup LookupLabels \cup UnlinkLabels \cup LengthLabels
        BY <1>3, LabelFacts DEF LookupLabels, UnlinkLabels, LengthLabels
      <4>2. th'[t].pc = "returned" => phase'[t] = "delete" /\ turn'[t] >= NumIterations
        BY <1>1, <1>3 DEF LoopBound
      <4>3. th'[t].pc = "lock" => turn'[t] < LoopBound(t)'
        BY <1>3, <2>1
      <4>4. th'[t].pc # "unlock" /\ th'[t].pc # "unborn"
        BY <1>3
      <4> QED BY <1>5, <3>1, <4>1, <4>2, <4>3, <4>4
    <3>2. CASE s # t
      <4>1. /\ th'[s] = th[s] /\ phase'[s] = phase[s] /\ turn'[s] = turn[s]
            /\ LoopBound(s)' = LoopBound(s) /\ (Operates(s)' <=> Operates(s))
        BY <1>3, <1>4, <2>1, <3>2, ThreadFacts DEF Operates
      <4> QED BY <1>1, <4>1 DEF ControlInv
    <3> QED BY <3>1, <3>2
  <2> QED BY <1>1, <1>4, <2>2 DEF ControlInv
<1>9. MainInv'
  <2>1. main # "check" /\ (main = "create" => ~(t >= t_main)) /\ (main = "join" => ~(t < t_main))
    BY <1>1 DEF MainInv
  <2>2. th[MainProc].pc = "unborn" /\ th'[MainProc] = th[MainProc]
    BY <1>1, <1>3, <2>1, ThreadFacts DEF MainInv
  <2> QED BY <1>1, <1>3, <2>1, <2>2, ThreadFacts DEF MainInv
<1>10. \A s \in Threads : Operates(s) => th'[s] = th[s] /\ phase'[s] = phase[s] /\ turn'[s] = turn[s]
  BY <1>3, <1>4, <1>5, ThreadFacts
<1>11. \A s \in Threads : Operates(s)' => Operates(s)
  BY <1>3, <1>5, ThreadFacts DEF Operates
<1> QED BY <1>1, <1>3, <1>4, <1>7, <1>8, <1>9, <1>10, <1>11, QuietStep

(* What the thread of a step that keeps memory and the elements of the     *)
(* sublists leaves to the other threads.                                   *)
LEMMA OthersKept ==
  ASSUME SyncInv, NEW t \in Threads, UNCHANGED <<mem, key, hash, phase>>,
         \A m : Contents(m)' = Contents(m),
         \A q \in Procs : q # t => th'[q] = th[q],
         \A s \in Threads : s # t => turn'[s] = turn[s]
  PROVE  /\ \A s \in Threads : s # t =>
              /\ ListIndex(s)' = ListIndex(s) /\ (Operates(s)' <=> Operates(s))
              /\ Operates(s) => OperationInv(s)'
         /\ \A m \in HeadIds : Ring(m, Contents(m)) => Ring(m, Contents(m))'
<1>1. ASSUME NEW s \in Threads, s # t
      PROVE  /\ ListIndex(s)' = ListIndex(s) /\ (Operates(s)' <=> Operates(s))
             /\ Operates(s) => OperationInv(s)'
  <2>1. th'[s] = th[s] /\ phase'[s] = phase[s] /\ turn'[s] = turn[s]
    BY <1>1, ThreadFacts
  <2>2. ListIndex(s)' = ListIndex(s) /\ (Operates(s)' <=> Operates(s))
    BY <2>1 DEF ListIndex, Element, Operates
  <2>3. ASSUME Operates(s) PROVE OperationInv(s)'
    <3> PICK m : m = ListIndex(s)
      OBVIOUS
    <3> QED BY <2>1, <2>3, OtherInside
  <2> QED BY <2>2, <2>3
<1>2. ASSUME NEW m \in HeadIds, Ring(m, Contents(m)) PROVE Ring(m, Contents(m))'
  <2> PICK R : R = Contents(m)
    OBVIOUS
  <2>1. Ring(m, R)'
    BY <1>2, WholeKept
  <2> QED BY <2>1
<1> QED BY <1>1, <1>2

(* The call of an operation, on a sublist whose lock was free.             *)
LEMMA LockKeepsSync ==
  ASSUME SyncInv, NEW t \in Threads, Lock(t), NEW l, l = ListIndex(t)
  PROVE  /\ SyncInv' /\ \A m : Contents(m)' = Contents(m)
         /\ l \in HeadIds /\ lock[l] = NoThread /\ lock' = [lock EXCEPT ![l] = t]
         /\ th'[t].pc = Operation[phase[t]]
         /\ \A q \in Procs : q # t => th'[q] = th[q]
<1> DEFINE new == [pc |-> Operation[phase[t]], list |-> Head(l),
                   elem |-> IF phase[t] = "count" THEN Null ELSE Element(t)]
<1>1. /\ th[t].pc = "lock" /\ outcome = "running"
      /\ lock[l] = NoThread /\ lock' = [lock EXCEPT ![l] = t]
      /\ Set(t, new)
      /\ UNCHANGED <<mem, key, sync, hash, outcome, phase, turn, size, main, t_main>>
  BY DEF Lock, On, setup, SyncInv
<1>2. /\ turn[t] \in Nat /\ phase[t] \in {"insert", "count", "delete"}
      /\ turn[t] < LoopBound(t)
      /\ ControlInv /\ MainInv /\ RegisterInv /\ ListsInv
      /\ lock \in [HeadIds -> Threads \cup {NoThread}]
  BY <1>1 DEF SyncInv, ControlInv
<1>3. /\ l \in HeadIds
      /\ phase[t] # "count" =>
           /\ Element(t) \in ListElements /\ hash[Element(t)] = l
           /\ Element(t)[1] = t /\ Element(t)[2] = turn[t]
  BY <1>2, TurnFacts
<1>4. new["pc"] = IF phase[t] = "insert" THEN "insert"
                  ELSE IF phase[t] = "count" THEN "length" ELSE "lookup"
  BY <1>2 DEF Operation
<1>5. new["pc"] \notin IdleLabels \cup MadeLabels
  BY <1>4 DEF IdleLabels, MadeLabels
<1>6. new["list"] \in Values /\ new["elem"] \in Values
  BY <1>3, NodeFacts DEF Values, Nodes, Heads
<1>7. /\ RegisterInv' /\ th'[t].pc = new["pc"] /\ th'[t].list = Head(l)
      /\ th'[t].elem = new["elem"] /\ th'[t].count = 0
      /\ \A q \in Procs : q # t => th'[q] = th[q]
  <2>1. DOMAIN new = {"pc", "list", "elem"} /\ t \in Procs /\ th[t].pc \in IdleLabels
    BY <1>1, ThreadFacts DEF IdleLabels
  <2>2. new["list"] = Head(l)
    OBVIOUS
  <2> HIDE DEF new
  <2> QED BY <1>1, <1>2, <1>5, <1>6, <2>1, <2>2, SetCall
<1>8. AbstractPc(t) # "unlock" /\ AbstractPc(t)' # "unlock"
  BY <1>1, <1>5, <1>7, AbstractPcFacts DEF MadeLabels
<1>9. \A s \in Threads : Made(s)' = Made(s)
  BY <1>1, <1>7, <1>8, ThreadFacts DEF Made, AbstractPc
<1>10. \A e \in ListElements : IsIn(e)' <=> IsIn(e)
  BY <1>1, <1>9, ThreadFacts DEF IsIn
<1>11. \A m : Contents(m)' = Contents(m)
  BY <1>1, <1>10, ContentsKept
<1>12. Operates(t)' /\ ~Operates(t) /\ ListIndex(t)' = l /\ Element(t)' = Element(t)
  BY <1>1, <1>5, <1>7 DEF Operates, IdleLabels, ListIndex, Element
<1>13. /\ \A s \in Threads : s # t =>
            /\ ListIndex(s)' = ListIndex(s) /\ (Operates(s)' <=> Operates(s))
            /\ Operates(s) => OperationInv(s)'
       /\ \A m \in HeadIds : Ring(m, Contents(m)) => Ring(m, Contents(m))'
  BY <1>1, <1>7, <1>11, OthersKept
<1>14. OperationInv(t)'
  <2> PICK R : R = Contents(l)
    OBVIOUS
  <2>1. Ring(l, R)
    BY <1>1, <1>2, <1>3 DEF ListsInv
  <2>2. phase[t] # "count" => new["elem"] = Element(t)
    OBVIOUS
  <2>3. phase[t] # "count" =>
          (IsIn(Element(t)) <=> phase[t] = "delete")
    <3>1. Made(t) = turn[t]
      BY <1>2, <1>8 DEF Made
    <3> QED BY <1>2, <1>3, <3>1 DEF IsIn
  <2>4. phase[t] = "insert" => Element(t) \in Keyed \ R /\ mem[Element(t)].prev = Null
    <3>1. phase[t] = "insert" => Fresh(Element(t))
      BY <1>3, <1>12 DEF Fresh
    <3> QED BY <1>3, <2>3, <3>1, SyncKeyed DEF Contents, SyncInv, FreshInv
  <2>5. phase[t] = "delete" => Element(t) \in R
    BY <1>3, <2>3 DEF Contents
  <2> HIDE DEF new
  <2>6. Inside(t, l, R)'
    BY <1>1, <1>2, <1>4, <1>7, <2>1, <2>2, <2>4, <2>5, CallInside
  <2>7. Contents(ListIndex(t))' = R
    BY <1>11, <1>12
  <2>8. Inside(t, ListIndex(t), Contents(ListIndex(t)))'
    BY <1>12, <2>6, <2>7
  <2>9. th'[t].pc # "done"
    BY <1>5, <1>7 DEF MadeLabels
  <2> QED BY <1>1, <1>7, <1>12, <2>2, <2>8, <2>9 DEF OperationInv
<1> HIDE DEF new
<1>15. ListsInv'
  <2>1. ASSUME NEW s \in Threads, NEW m \in HeadIds
        PROVE  (lock[m] = s <=> Operates(s) /\ ListIndex(s) = m)'
    <3>1. s # NoThread /\ (lock[m] = s <=> Operates(s) /\ ListIndex(s) = m)
      BY <1>2, ThreadFacts DEF ListsInv
    <3>2. lock'[m] = IF m = l THEN t ELSE lock[m]
      BY <1>1, <1>2
    <3>3. CASE s = t
      BY <1>12, <3>1, <3>2, <3>3
    <3>4. CASE s # t
      BY <1>1, <1>13, <3>1, <3>2, <3>4
    <3> QED BY <3>3, <3>4
  <2>2. ASSUME NEW m \in HeadIds, lock'[m] = NoThread
        PROVE  Ring(m, Contents(m))'
    <3>1. lock[m] = NoThread
      BY <1>1, <1>2, <2>2, ThreadFacts
    <3> QED BY <1>2, <1>13, <3>1 DEF ListsInv
  <2>3. \A s \in Threads : Operates(s)' => OperationInv(s)'
    BY <1>13, <1>14
  <2> QED BY <2>1, <2>2, <2>3 DEF ListsInv
<1>16. FreshInv'
  <2>1. ASSUME NEW e \in ListElements, Fresh(e)' PROVE mem'[e].prev = Null
    <3>1. e[1] # t => (Operates(e[1])' <=> Operates(e[1]))
      BY <1>13, ThreadFacts
    <3>2. Fresh(e)
      BY <1>1, <1>12, <2>1, <3>1 DEF Fresh
    <3> QED BY <1>1, <3>2 DEF SyncInv, FreshInv
  <2> QED BY <2>1 DEF FreshInv
<1>17. ControlInv'
  <2>1. /\ \A s \in Threads : LoopBound(s)' = LoopBound(s)
        /\ th'[t].pc \notin {"unlock", "unborn", "returned"}
    BY <1>1, <1>5, <1>7 DEF LoopBound, IdleLabels
  <2>2. /\ th'[t].pc \in InsertLabels => phase[t] = "insert"
        /\ th'[t].pc \in LookupLabels \cup UnlinkLabels => phase[t] = "delete"
        /\ th'[t].pc \in LengthLabels => phase[t] = "count"
    BY <1>2, <1>4, <1>7, LabelFacts DEF LookupLabels, UnlinkLabels, LengthLabels
  <2>3. ASSUME NEW s \in Threads
        PROVE  LET at == th'[s].pc IN
               /\ at # "unlock"
               /\ at = "unborn" => phase'[s] = "insert" /\ turn'[s] = 0
               /\ at = "returned" => phase'[s] = "delete" /\ turn'[s] >= NumIterations
               /\ at = "lock" \/ Operates(s)' => turn'[s] < LoopBound(s)'
               /\ at \in InsertLabels => phase'[s] = "insert"
               /\ at \in LookupLabels \cup UnlinkLabels => phase'[s] = "delete"
               /\ at \in LengthLabels => phase'[s] = "count"
    <3>1. CASE s = t
      BY <1>1, <1>2, <2>1, <2>2, <3>1
    <3>2. CASE s # t
      <4>1. /\ th'[s] = th[s] /\ phase'[s] = phase[s] /\ turn'[s] = turn[s]
            /\ LoopBound(s)' = LoopBound(s) /\ (Operates(s)' <=> Operates(s))
        BY <1>1, <1>7, <1>13, <2>1, <3>2, ThreadFacts
      <4> QED BY <1>2, <4>1 DEF ControlInv
    <3> QED BY <3>1, <3>2
  <2> QED BY <1>1, <1>2, <2>3 DEF ControlInv
<1>18. MainInv'
  <2>1. main # "check" /\ (main = "create" => ~(t >= t_main)) /\ (main = "join" => ~(t < t_main))
    BY <1>1, <1>2 DEF MainInv
  <2>2. th[MainProc].pc = "unborn" /\ th'[MainProc] = th[MainProc]
    BY <1>2, <1>7, <2>1, ThreadFacts DEF MainInv
  <2> QED BY <1>1, <1>2, <1>7, <2>1, <2>2, ThreadFacts DEF MainInv
<1>19. /\ hash' \in [ListElements -> HeadIds] /\ key' \in Keys /\ MemInv'
       /\ lock' \in [HeadIds -> Threads \cup {NoThread}] /\ outcome' # "segfault" /\ sync' # "none"
  <2>1. Keys' = Keys
    BY DEF Keys
  <2> QED BY <1>1, <2>1 DEF SyncInv, MemInv
<1>20. th'[t].pc = Operation[phase[t]]
  BY <1>7 DEF new
<1> QED BY <1>1, <1>3, <1>7, <1>11, <1>15, <1>16, <1>17, <1>18, <1>19, <1>20 DEF SyncInv

(* The end of an operation: its sublist is whole again.                    *)
LEMMA UnlockKeepsSync ==
  ASSUME SyncInv, NEW t \in Threads, Unlock(t), NEW l, l = ListIndex(t)
  PROVE  /\ SyncInv' /\ \A m : Contents(m)' = Contents(m)
         /\ l \in HeadIds /\ lock' = [lock EXCEPT ![l] = NoThread]
         /\ th'[t].pc = "loop"
         /\ \A q \in Procs : q # t => th'[q] = th[q]
<1>1. /\ th[t].pc = "done" /\ outcome = "running"
      /\ lock' = [lock EXCEPT ![l] = NoThread] /\ Set(t, Idle("loop"))
      /\ size' = [size EXCEPT ![t] = @ + th[t].count] /\ turn' = [turn EXCEPT ![t] = @ + 1]
      /\ UNCHANGED <<mem, key, sync, hash, outcome, phase, main, t_main>>
  BY DEF Unlock, On, setup, SyncInv
<1>2. /\ ControlInv /\ MainInv /\ RegisterInv /\ ListsInv
      /\ lock \in [HeadIds -> Threads \cup {NoThread}]
  BY DEF SyncInv
<1>3. /\ turn \in [Threads -> Nat] /\ size \in [Threads -> Nat]
      /\ phase \in [Threads -> {"insert", "count", "delete"}]
  BY <1>2 DEF ControlInv
<1>4. Operates(t)
  BY <1>1 DEF Operates, IdleLabels
<1>5. l \in HeadIds /\ lock[l] = t /\ turn[t] < LoopBound(t)
  BY <1>4, OperatorOwns
<1>6. /\ RegisterInv' /\ th'[t].pc = "loop" /\ \A q \in Procs : q # t => th'[q] = th[q]
  <2>1. "loop" \in IdleLabels /\ t \in Procs
    BY ThreadFacts DEF IdleLabels
  <2> QED BY <1>1, <1>2, <2>1, SetIdle
<1>7. ~Operates(t)'
  BY <1>6 DEF Operates, IdleLabels
<1>8. /\ turn'[t] = turn[t] + 1 /\ turn' \in [Threads -> Nat]
      /\ \A s \in Threads : s # t => turn'[s] = turn[s]
  BY <1>1, <1>3
<1>9. size' \in [Threads -> Nat]
  <2>1. th[t].count \in Nat
    BY <1>2, ThreadFacts DEF RegisterInv
  <2> QED BY <1>1, <1>3, <2>1
<1>10. \A s \in Threads : Made(s)' = Made(s)
  <2>1. AbstractPc(t) = "unlock" /\ AbstractPc(t)' # "unlock"
    BY <1>1, <1>6, AbstractPcFacts DEF MadeLabels
  <2>2. Made(t)' = Made(t)
    BY <1>3, <1>8, <2>1 DEF Made
  <2>3. \A s \in Threads : s # t => Made(s)' = Made(s)
    BY <1>6, <1>8, ThreadFacts DEF Made, AbstractPc
  <2> QED BY <2>2, <2>3
<1>11. \A m : Contents(m)' = Contents(m)
  <2>1. \A e \in ListElements : IsIn(e)' <=> IsIn(e)
    BY <1>1, <1>10, ThreadFacts DEF IsIn
  <2> QED BY <1>1, <2>1, ContentsKept
<1>12. /\ \A s \in Threads : s # t =>
            /\ ListIndex(s)' = ListIndex(s) /\ (Operates(s)' <=> Operates(s))
            /\ Operates(s) => OperationInv(s)'
       /\ \A m \in HeadIds : Ring(m, Contents(m)) => Ring(m, Contents(m))'
  BY <1>1, <1>6, <1>8, <1>11, OthersKept
<1>13. Ring(l, Contents(l))
  <2>1. Inside(t, l, Contents(l))
    BY <1>2, <1>4 DEF ListsInv, OperationInv
  <2> QED BY <1>1, <2>1 DEF Inside, WholeLabels
<1>14. ListsInv'
  <2>1. ASSUME NEW s \in Threads, NEW m \in HeadIds
        PROVE  (lock[m] = s <=> Operates(s) /\ ListIndex(s) = m)'
    <3>1. s # NoThread /\ (lock[m] = s <=> Operates(s) /\ ListIndex(s) = m)
      BY <1>2, ThreadFacts DEF ListsInv
    <3>2. lock'[m] = IF m = l THEN NoThread ELSE lock[m]
      BY <1>1, <1>2
    <3>3. CASE s = t
      BY <1>4, <1>7, <3>1, <3>2, <3>3
    <3>4. CASE s # t
      BY <1>5, <1>12, <3>1, <3>2, <3>4
    <3> QED BY <3>3, <3>4
  <2>2. ASSUME NEW m \in HeadIds, lock'[m] = NoThread
        PROVE  Ring(m, Contents(m))'
    <3>1. m # l => lock[m] = NoThread
      BY <1>1, <1>2, <2>2, ThreadFacts
    <3> QED BY <1>2, <1>12, <1>13, <3>1 DEF ListsInv
  <2>3. \A s \in Threads : Operates(s)' => OperationInv(s)'
    BY <1>7, <1>12
  <2> QED BY <2>1, <2>2, <2>3 DEF ListsInv
<1>15. FreshInv'
  <2>1. ASSUME NEW e \in ListElements, Fresh(e)' PROVE mem'[e].prev = Null
    <3>1. e[1] # t => (Operates(e[1])' <=> Operates(e[1]))
      BY <1>12, ThreadFacts
    <3>2. e[1] = t => turn[t] \in Nat /\ e[2] \in Nat
      BY <1>3, ThreadFacts
    <3>3. /\ phase'[e[1]] = "insert"
          /\ e[2] > turn'[e[1]] \/ (e[2] = turn'[e[1]] /\ ~Operates(e[1])')
      BY <2>1 DEF Fresh
    <3>4. phase'[e[1]] = phase[e[1]]
      BY <1>1
    <3>5. Fresh(e)
      <4>1. CASE e[1] = t
        BY <1>8, <3>2, <3>3, <3>4, <4>1 DEF Fresh
      <4>2. CASE e[1] # t
        <5>1. turn'[e[1]] = turn[e[1]]
          BY <1>8, <4>2, ThreadFacts
        <5> QED BY <3>1, <3>3, <3>4, <4>2, <5>1 DEF Fresh
      <4> QED BY <4>1, <4>2
    <3> QED BY <1>1, <3>5 DEF SyncInv, FreshInv
  <2> QED BY <2>1 DEF FreshInv
<1>16. ControlInv'
  <2>1. \A s \in Threads : LoopBound(s)' = LoopBound(s)
    BY <1>1 DEF LoopBound
  <2>2. th'[t].pc \notin InsertLabels \cup LookupLabels \cup UnlinkLabels \cup LengthLabels
    BY <1>6, LabelFacts DEF LookupLabels, UnlinkLabels, LengthLabels
  <2>3. ASSUME NEW s \in Threads
        PROVE  LET at == th'[s].pc IN
               /\ at # "unlock"
               /\ at = "unborn" => phase'[s] = "insert" /\ turn'[s] = 0
               /\ at = "returned" => phase'[s] = "delete" /\ turn'[s] >= NumIterations
               /\ at = "lock" \/ Operates(s)' => turn'[s] < LoopBound(s)'
               /\ at \in InsertLabels => phase'[s] = "insert"
               /\ at \in LookupLabels \cup UnlinkLabels => phase'[s] = "delete"
               /\ at \in LengthLabels => phase'[s] = "count"
    <3>1. CASE s = t
      BY <1>6, <1>7, <2>2, <3>1
    <3>2. CASE s # t
      <4>1. /\ th'[s] = th[s] /\ phase'[s] = phase[s] /\ turn'[s] = turn[s]
            /\ LoopBound(s)' = LoopBound(s) /\ (Operates(s)' <=> Operates(s))
        BY <1>1, <1>6, <1>8, <1>12, <2>1, <3>2, ThreadFacts
      <4> QED BY <1>2, <4>1 DEF ControlInv
    <3> QED BY <3>1, <3>2
  <2> QED BY <1>1, <1>3, <1>8, <1>9, <2>3 DEF ControlInv
<1>17. MainInv'
  <2>1. main # "check" /\ (main = "create" => ~(t >= t_main)) /\ (main = "join" => ~(t < t_main))
    BY <1>1, <1>2 DEF MainInv
  <2>2. th[MainProc].pc = "unborn" /\ th'[MainProc] = th[MainProc]
    BY <1>2, <1>6, <2>1, ThreadFacts DEF MainInv
  <2> QED BY <1>1, <1>2, <1>6, <2>1, <2>2, ThreadFacts DEF MainInv
<1>18. /\ hash' \in [ListElements -> HeadIds] /\ key' \in Keys /\ MemInv'
       /\ lock' \in [HeadIds -> Threads \cup {NoThread}] /\ outcome' # "segfault" /\ sync' # "none"
  <2>1. Keys' = Keys
    BY DEF Keys
  <2> QED BY <1>1, <2>1 DEF SyncInv, MemInv
<1> QED BY <1>1, <1>5, <1>6, <1>11, <1>14, <1>15, <1>16, <1>17, <1>18 DEF SyncInv

(* lookup() always finds the element.                                      *)
LEMMA NeverFails ==
  ASSUME SyncInv, NEW t \in Threads
  PROVE  ~DeleteFailed(t)
<1>1. th[t].pc = "failed" => Operates(t)
  BY DEF Operates, IdleLabels
<1>2. Operates(t) => th[t].pc # "failed"
  BY OperatorOwns, LabelFacts DEF LookupLabels, UnlinkLabels, LengthLabels
<1> QED BY <1>1, <1>2 DEF DeleteFailed, On

-----------------------------------------------------------------------------
(* The steps of main().                                                    *)

(* A step of main() that leaves the threads alone, except for one that is  *)
(* not in an operation.                                                    *)
LEMMA MainQuiet ==
  ASSUME SyncInv, UNCHANGED <<mem, key, sync, hash, lock, phase, turn, size>>,
         outcome' # "segfault", RegisterInv', MainInv', NEW p,
         \A q \in Procs : q # p => th'[q] = th[q],
         p \in Threads => th[p].pc = "unborn" /\ th'[p].pc = "loop"
  PROVE  SyncInv' /\ \A m : Contents(m)' = Contents(m)
<1>1. ControlInv
  BY DEF SyncInv
<1>2. \A s \in Threads : s # p => th'[s] = th[s]
  BY ThreadFacts
<1>3. p \in Threads => ~Operates(p) /\ ~Operates(p)'
  BY DEF Operates, IdleLabels
<1>4. \A s \in Threads : Operates(s)' <=> Operates(s)
  BY <1>2, <1>3 DEF Operates
<1>5. \A s \in Threads : Made(s)' = Made(s)
  <2>1. p \in Threads => AbstractPc(p) # "unlock" /\ AbstractPc(p)' # "unlock"
    BY AbstractPcFacts DEF MadeLabels
  <2>2. \A s \in Threads : s # p => AbstractPc(s)' = AbstractPc(s)
    BY <1>2 DEF AbstractPc
  <2> QED BY <2>1, <2>2 DEF Made
<1>6. \A e \in ListElements : (IsIn(e)' <=> IsIn(e)) /\ (Fresh(e)' => Fresh(e))
  BY <1>4, <1>5, ThreadFacts DEF IsIn, Fresh
<1>7. ControlInv'
  <2>1. ASSUME NEW s \in Threads
        PROVE  LET at == th'[s].pc IN
               /\ at # "unlock"
               /\ at = "unborn" => phase'[s] = "insert" /\ turn'[s] = 0
               /\ at = "returned" => phase'[s] = "delete" /\ turn'[s] >= NumIterations
               /\ at = "lock" \/ Operates(s)' => turn'[s] < LoopBound(s)'
               /\ at \in InsertLabels => phase'[s] = "insert"
               /\ at \in LookupLabels \cup UnlinkLabels => phase'[s] = "delete"
               /\ at \in LengthLabels => phase'[s] = "count"
    <3>1. LoopBound(s)' = LoopBound(s)
      BY DEF LoopBound
    <3>2. CASE s = p
      <4>1. th'[s].pc = "loop" /\ ~Operates(s)'
        BY <1>3, <3>2
      <4>2. th'[s].pc \notin InsertLabels \cup LookupLabels \cup UnlinkLabels \cup LengthLabels
        BY <4>1, LabelFacts DEF LookupLabels, UnlinkLabels, LengthLabels
      <4> QED BY <4>1, <4>2
    <3>3. CASE s # p
      BY <1>1, <1>2, <1>4, <3>1, <3>3 DEF ControlInv
    <3> QED BY <3>2, <3>3
  <2> QED BY <1>1, <2>1 DEF ControlInv
<1>8. \A s \in Threads : Operates(s) => th'[s] = th[s]
  BY <1>2, <1>3
<1> QED BY <1>4, <1>6, <1>7, <1>8, QuietStep

LEMMA CreateKeepsSync ==
  ASSUME SyncInv, CreateThread
  PROVE  /\ SyncInv' /\ \A m : Contents(m)' = Contents(m)
         /\ t_main \in Threads /\ th'[t_main].pc = "loop"
         /\ \A q \in Procs : q # t_main => th'[q] = th[q]
<1>1. /\ outcome = "running" /\ main = "create" /\ t_main < NumThreads
      /\ Set(t_main, [pc |-> "loop"]) /\ t_main' = t_main + 1
      /\ UNCHANGED <<mem, key, sync, hash, outcome, lock, phase, turn, size, main>>
  BY DEF CreateThread, setup
<1>2. MainInv /\ RegisterInv
  BY DEF SyncInv
<1>3. t_main \in Threads /\ th[t_main].pc = "unborn"
  BY <1>1, <1>2 DEF MainInv, Threads
<1>4. /\ RegisterInv' /\ th'[t_main].pc = "loop"
      /\ \A q \in Procs : q # t_main => th'[q] = th[q]
  <2>1. "loop" \in IdleLabels /\ th[t_main].pc \in IdleLabels /\ t_main \in Procs
    BY <1>3, ThreadFacts DEF IdleLabels
  <2> QED BY <1>1, <1>2, <2>1, SetIdle
<1>5. MainInv'
  <2>1. th[MainProc].pc = "unborn" /\ th'[MainProc] = th[MainProc]
    BY <1>1, <1>2, <1>3, <1>4, ThreadFacts DEF MainInv
  <2>2. \A t \in Threads : t >= t_main + 1 => th'[t].pc = "unborn"
    BY <1>1, <1>2, <1>4, ThreadFacts DEF MainInv
  <2> QED BY <1>1, <1>2, <2>1, <2>2 DEF MainInv
<1> QED BY <1>1, <1>3, <1>4, <1>5, MainQuiet

LEMMA MainKept ==
  ASSUME SyncInv, UNCHANGED <<mem, th, key, main, t_main>>
  PROVE  MainInv'
<1>1. MainInv
  BY DEF SyncInv
<1>2. ASSUME th[MainProc].pc # "unborn" PROVE Inside(MainProc, t_main, {})'
  <2> PICK l : l = t_main
    OBVIOUS
  <2>1. l \in HeadIds /\ Inside(MainProc, l, {})
    BY <1>1, <1>2 DEF MainInv
  <2>2. {} \in SUBSET ListElements
    OBVIOUS
  <2>3. Inside(MainProc, l, {})'
    BY <2>1, <2>2, InsideKept
  <2> QED BY <2>3
<1> QED BY <1>1, <1>2 DEF MainInv

(* PthreadError, NextLoop, JoinThread and Report assign only to the        *)
(* variables of main().                                                    *)
LEMMA ProgressKeepsSync ==
  ASSUME SyncInv, PthreadError \/ NextLoop \/ JoinThread \/ Report
  PROVE  /\ SyncInv' /\ \A m : Contents(m)' = Contents(m)
         /\ UNCHANGED <<mem, th, key, sync, hash, lock, phase, turn, size>>
<1>1. /\ UNCHANGED <<mem, th, key, sync, hash, lock, phase, turn, size>>
      /\ outcome' # "segfault"
  BY DEF PthreadError, NextLoop, JoinThread, Report, setup, SyncInv
<1>2. MainInv /\ RegisterInv
  BY DEF SyncInv
<1>3. RegisterInv'
  BY <1>1, <1>2 DEF RegisterInv, Values, Nodes, Heads
<1>4. MainInv'
  <2>1. CASE PthreadError \/ Report
    <3>1. UNCHANGED <<main, t_main>>
      BY <2>1 DEF PthreadError, Report
    <3> QED BY <1>1, <3>1, MainKept
  <2>2. CASE NextLoop
    <3>1. main \in {"create", "join"} /\ t_main = NumThreads /\ t_main' = 0
      BY <2>2 DEF NextLoop
    <3>2. main' = IF main = "create" THEN "join" ELSE "check"
      BY <2>2 DEF NextLoop
    <3>3. th[MainProc].pc = "unborn"
      BY <1>2, <3>1 DEF MainInv
    <3>4. main = "join" => \A t \in Threads : th[t].pc = "returned"
      BY <1>2, <3>1 DEF MainInv, Threads
    <3> QED BY <1>1, <1>2, <3>1, <3>2, <3>3, <3>4, ThreadFacts DEF MainInv
  <2>3. CASE JoinThread
    <3>1. /\ main = "join" /\ t_main < NumThreads /\ th[t_main].pc = "returned"
          /\ t_main' = t_main + 1 /\ main' = main
      BY <2>3 DEF JoinThread
    <3>2. th[MainProc].pc = "unborn"
      BY <1>2, <3>1 DEF MainInv
    <3>3. \A t \in Threads : t < t_main + 1 => th[t].pc = "returned"
      BY <1>2, <3>1, ThreadFacts DEF MainInv
    <3> QED BY <1>1, <1>2, <3>1, <3>2, <3>3 DEF MainInv
  <2> QED BY <2>1, <2>2, <2>3
<1>5. MainProc \notin Threads
  BY ThreadFacts
<1> QED BY <1>1, <1>3, <1>4, <1>5, MainQuiet

(* Once every thread has returned, every sublist is free and empty.        *)
LEMMA EmptyAtTheEnd ==
  ASSUME SyncInv, main = "check", NEW l \in HeadIds
  PROVE  lock[l] = NoThread /\ Contents(l) = {}
<1>1. \A t \in Threads : th[t].pc = "returned" /\ phase[t] = "delete" /\ turn[t] >= NumIterations
                           /\ turn[t] \in Nat
  BY DEF SyncInv, MainInv, ControlInv
<1>2. \A t \in Threads : ~Operates(t) /\ AbstractPc(t) # "unlock"
  BY <1>1, AbstractPcFacts DEF Operates, IdleLabels, MadeLabels
<1>3. \A t \in Threads : Made(t) = turn[t]
  BY <1>1, <1>2 DEF Made
<1>4. \A e \in ListElements : ~IsIn(e)
  BY <1>1, <1>3, ThreadFacts DEF IsIn
<1>5. lock[l] \in Threads \cup {NoThread}
  BY DEF SyncInv
<1> QED BY <1>2, <1>4, <1>5 DEF Contents, SyncInv, ListsInv

LEMMA CheckListKeepsSync ==
  ASSUME SyncInv, CheckList
  PROVE  /\ SyncInv' /\ \A m : Contents(m)' = Contents(m)
         /\ \A q \in Procs : q # MainProc => th'[q] = th[q]
<1> DEFINE new == [pc |-> "length", list |-> Head(t_main)]
<1>1. /\ outcome = "running" /\ th[MainProc].pc = "unborn" /\ main = "check" /\ t_main < NumLists
      /\ Set(MainProc, new)
      /\ UNCHANGED <<mem, key, sync, hash, outcome, lock, phase, turn, size, main, t_main>>
  BY DEF CheckList, On, setup
<1>2. MainInv /\ RegisterInv /\ ListsInv
  BY DEF SyncInv
<1>3. t_main \in HeadIds
  BY <1>1, <1>2 DEF MainInv
<1>4. /\ RegisterInv' /\ th'[MainProc].pc = "length" /\ th'[MainProc].list = Head(t_main)
      /\ th'[MainProc].count = 0
      /\ \A q \in Procs : q # MainProc => th'[q] = th[q]
  <2>1. /\ DOMAIN new = {"pc", "list"} /\ new["pc"] = "length" /\ new["list"] = Head(t_main)
        /\ new["list"] \in Values
    BY <1>3, NodeFacts DEF Values, Nodes, Heads
  <2>2. MainProc \in Procs /\ th[MainProc].pc \in IdleLabels /\ "length" \notin IdleLabels
    BY <1>1, ThreadFacts DEF IdleLabels
  <2> HIDE DEF new
  <2> QED BY <1>1, <1>2, <2>1, <2>2, SetCall
<1>5. Ring(t_main, {})
  <2>1. lock[t_main] = NoThread /\ Contents(t_main) = {}
    BY <1>1, <1>2, <1>3, EmptyAtTheEnd
  <2> QED BY <1>2, <1>3, <2>1 DEF ListsInv
<1>6. Inside(MainProc, t_main, {})'
  <2> PICK l : l = t_main
    OBVIOUS
  <2>1. Inside(MainProc, l, {})'
    BY <1>1, <1>4, <1>5, CallInside
  <2> QED BY <1>1, <2>1
<1>7. MainInv'
  <2>1. "length" \in LengthLabels /\ \A t \in Threads : th'[t] = th[t]
    BY <1>4, ThreadFacts DEF LengthLabels
  <2> QED BY <1>1, <1>2, <1>4, <1>6, <2>1 DEF MainInv
<1> HIDE DEF new
<1>8. MainProc \notin Threads
  BY ThreadFacts
<1> QED BY <1>1, <1>2, <1>4, <1>7, <1>8, MainQuiet DEF SyncInv

LEMMA CheckOperatingKeepsSync ==
  ASSUME SyncInv, CheckOperating
  PROVE  /\ SyncInv' /\ \A m : Contents(m)' = Contents(m)
         /\ \A q \in Procs : q # MainProc => th'[q] = th[q]
         /\ UNCHANGED <<mem, outcome>>
<1>1. /\ Operate(MainProc)
      /\ UNCHANGED <<key, sync, hash, lock, phase, turn, size, main, t_main>>
  BY DEF CheckOperating, setup
<1>2. MainInv /\ outcome # "segfault"
  BY DEF SyncInv
<1>3. th[MainProc].pc \notin IdleLabels \cup {"done"}
  BY <1>1, OperateLabels
<1>4. /\ main = "check" /\ t_main < NumLists /\ th[MainProc].pc \in LengthLabels
      /\ Inside(MainProc, t_main, {})
  BY <1>2, <1>3 DEF MainInv, IdleLabels
<1>5. PICK l : l = t_main
  OBVIOUS
<1>6. l \in HeadIds /\ Owns(MainProc, l, {})
  BY <1>2, <1>4, <1>5, ThreadFacts, SyncKeyed DEF Owns, SyncInv, MainInv
<1>7. After(MainProc, {}) = {}
  BY <1>4 DEF After, LengthLabels
<1>8. Advances(MainProc, l, {}, {})
  BY <1>1, <1>6, <1>7, OperateAdvances
<1>9. /\ RegisterInv' /\ UNCHANGED <<mem, outcome>> /\ Inside(MainProc, l, {})'
      /\ \A q \in Procs : q # MainProc => th'[q] = th[q]
      /\ th'[MainProc].pc \in LengthLabels \cup {"done"}
      /\ th'[MainProc].pc = "done" => th'[MainProc].count = 0
  <2>1. OperationOf(th[MainProc].pc) = LengthLabels /\ Cardinality({}) = 0
    BY <1>4, LabelFacts, FS_EmptySet
  <2> QED BY <1>4, <1>8, <2>1 DEF Advances, Moves
<1>10. MainInv'
  <2>1. \A t \in Threads : th'[t] = th[t]
    BY <1>9, ThreadFacts
  <2>2. Inside(MainProc, t_main, {})'
    BY <1>1, <1>5, <1>9
  <2> QED BY <1>1, <1>2, <1>4, <1>9, <2>1, <2>2 DEF MainInv
<1>11. MainProc \notin Threads
  BY ThreadFacts
<1> QED BY <1>1, <1>2, <1>9, <1>10, <1>11, MainQuiet

LEMMA ListCheckedKeepsSync ==
  ASSUME SyncInv, ListChecked
  PROVE  /\ SyncInv' /\ \A m : Contents(m)' = Contents(m)
         /\ \A q \in Procs : q # MainProc => th'[q] = th[q]
         /\ UNCHANGED outcome
<1>1. /\ outcome = "running" /\ th[MainProc].pc = "done"
      /\ UNCHANGED <<mem, key, sync, hash, lock, phase, turn, size, main>>
  BY DEF ListChecked, On, setup
<1>2. MainInv /\ RegisterInv
  BY DEF SyncInv
<1>3. main = "check" /\ t_main < NumLists /\ th[MainProc].count = 0
  BY <1>1, <1>2 DEF MainInv
<1>4. Set(MainProc, Idle("unborn")) /\ t_main' = t_main + 1 /\ UNCHANGED outcome
  BY <1>3 DEF ListChecked
<1>5. /\ RegisterInv' /\ th'[MainProc].pc = "unborn"
      /\ \A q \in Procs : q # MainProc => th'[q] = th[q]
  <2>1. "unborn" \in IdleLabels /\ MainProc \in Procs
    BY ThreadFacts DEF IdleLabels
  <2> QED BY <1>2, <1>4, <2>1, SetIdle
<1>6. MainInv'
  <2>1. \A t \in Threads : th'[t] = th[t]
    BY <1>5, ThreadFacts
  <2> QED BY <1>1, <1>2, <1>3, <1>4, <1>5, <2>1 DEF MainInv
<1>7. MainProc \notin Threads
  BY ThreadFacts
<1> QED BY <1>1, <1>4, <1>5, <1>6, <1>7, MainQuiet DEF SyncInv

-----------------------------------------------------------------------------

LEMMA InitSync == Init /\ sync # "none" => SyncInv
<1> SUFFICES ASSUME Init, sync # "none" PROVE SyncInv
  OBVIOUS
<1>1. /\ mem = InitMem /\ key \in Keys /\ th = [p \in Procs |-> Idle("unborn")]
      /\ outcome = "running" /\ hash \in [ListElements -> HeadIds]
      /\ lock = [l \in HeadIds |-> NoThread]
      /\ phase = [t \in Threads |-> "insert"] /\ turn = [t \in Threads |-> 0]
      /\ size = [t \in Threads |-> 0] /\ main = "create" /\ t_main = 0
  BY DEF Init
<1>2. /\ mem \in [Nodes -> [Fields -> Values]]
      /\ \A l \in HeadIds : mem[Head(l)].next = Head(l) /\ mem[Head(l)].prev = Head(l)
      /\ \A e \in ListElements : mem[e].prev = Null
  BY <1>1, NodeFacts DEF InitMem, Fields, Values, Nodes, Heads
<1>3. \A p \in Procs : th[p] = Idle("unborn")
  BY <1>1
<1>4. RegisterInv
  <2>1. /\ {"pc", "count"} \subseteq DOMAIN Idle("unborn") /\ Idle("unborn").count = 0
        /\ \A v \in Registers : v \in DOMAIN Idle("unborn") /\ Idle("unborn")[v] = Null
        /\ Null \in Values
    BY DEF Idle, Registers, Values
  <2> QED BY <1>1, <1>3, <2>1 DEF RegisterInv
<1>5. \A t \in Threads : th[t].pc = "unborn" /\ ~Operates(t) /\ AbstractPc(t) # "unlock"
  BY <1>3, ThreadFacts DEF Idle, Operates, IdleLabels, AbstractPc
<1>6. th[MainProc].pc = "unborn"
  BY <1>3, ThreadFacts DEF Idle
<1>7. ControlInv
  <2>1. "unborn" \notin InsertLabels \cup LookupLabels \cup UnlinkLabels \cup LengthLabels
    BY LabelFacts DEF LookupLabels, UnlinkLabels, LengthLabels
  <2>2. \A t \in Threads : phase[t] = "insert" /\ turn[t] = 0
    BY <1>1
  <2>3. /\ phase \in [Threads -> {"insert", "count", "delete"}]
        /\ turn \in [Threads -> Nat] /\ size \in [Threads -> Nat]
    BY <1>1
  <2>4. \A t \in Threads : th[t].pc = "unborn" /\ ~Operates(t)
    BY <1>5
  <2>5. ASSUME NEW t \in Threads
        PROVE  LET at == th[t].pc IN
               /\ at # "unlock"
               /\ at = "unborn" => phase[t] = "insert" /\ turn[t] = 0
               /\ at = "returned" => phase[t] = "delete" /\ turn[t] >= NumIterations
               /\ at = "lock" \/ Operates(t) => turn[t] < LoopBound(t)
               /\ at \in InsertLabels => phase[t] = "insert"
               /\ at \in LookupLabels \cup UnlinkLabels => phase[t] = "delete"
               /\ at \in LengthLabels => phase[t] = "count"
    <3>1. th[t].pc = "unborn" /\ ~Operates(t) /\ phase[t] = "insert" /\ turn[t] = 0
      BY <2>2, <2>4
    <3>2. th[t].pc \notin InsertLabels \cup LookupLabels \cup UnlinkLabels \cup LengthLabels
      BY <2>1, <3>1
    <3> QED BY <3>1, <3>2
  <2> QED BY <2>3, <2>5 DEF ControlInv
<1>8. MainInv
  <2>1. main = "create" /\ t_main = 0
    BY <1>1
  <2>2. \A t \in Threads : th[t].pc = "unborn"
    BY <1>5
  <2> QED BY <1>6, <2>1, <2>2 DEF MainInv
<1>9. \A l \in HeadIds : Contents(l) = {}
  <2>1. \A e \in ListElements : ~IsIn(e)
    BY <1>1, <1>5, ThreadFacts DEF IsIn, Made
  <2> QED BY <2>1 DEF Contents
<1>10. \A l \in HeadIds : Ring(l, {})
  BY <1>2 DEF Ring, NextLinks, PrevLinks, RingNodes, Adjacent
<1>11. ListsInv
  BY <1>1, <1>5, <1>9, <1>10, ThreadFacts DEF ListsInv
<1>12. FreshInv
  BY <1>2 DEF FreshInv
<1> QED BY <1>1, <1>2, <1>4, <1>7, <1>8, <1>11, <1>12 DEF SyncInv, MemInv

LEMMA StutterKeepsSync ==
  ASSUME SyncInv, UNCHANGED vars
  PROVE  SyncInv' /\ \A m : Contents(m)' = Contents(m)
<1>1. UNCHANGED <<mem, key, th, outcome, sync, hash, lock, phase, turn, size, main, t_main>>
  BY DEF vars
<1>2. RegisterInv'
  BY <1>1 DEF SyncInv, RegisterInv, Values, Nodes, Heads
<1>3. MainInv'
  BY <1>1, MainKept
<1>4. MainProc \notin Threads /\ outcome # "segfault"
  BY ThreadFacts DEF SyncInv
<1> QED BY <1>1, <1>2, <1>3, <1>4, MainQuiet

LEMMA SyncInductive ==
  /\ Init /\ sync # "none" => SyncInv
  /\ SyncInv /\ [Next]_vars => SyncInv'
<1>1. ASSUME SyncInv, Next PROVE SyncInv'
  <2>1. ASSUME NEW t \in Threads, Thread(t) PROVE SyncInv'
    <3>1. CASE LoopHead(t)
      BY <1>1, <3>1, LoopHeadKeepsSync
    <3>2. CASE Lock(t)
      BY <1>1, <3>2, LockKeepsSync
    <3>3. CASE Operating(t)
      BY <1>1, <3>3, OperatingKeepsSync
    <3>4. CASE Unlock(t)
      BY <1>1, <3>4, UnlockKeepsSync
    <3> QED BY <1>1, <2>1, <3>1, <3>2, <3>3, <3>4, NeverFails DEF Thread
  <2>2. CASE Main
    BY <1>1, <2>2, CreateKeepsSync, ProgressKeepsSync, CheckListKeepsSync,
       CheckOperatingKeepsSync, ListCheckedKeepsSync DEF Main
  <2>3. CASE Terminated
    BY <1>1, <2>3, StutterKeepsSync DEF Terminated
  <2> QED BY <1>1, <2>1, <2>2, <2>3 DEF Next
<1> QED BY <1>1, InitSync, StutterKeepsSync

-----------------------------------------------------------------------------

LEMMA SyncKept == [Next]_vars => sync' = sync
BY DEF Next, vars, setup, Main, PthreadError, CreateThread, NextLoop, JoinThread, CheckList,
   CheckOperating, ListChecked, Report, Thread, LoopHead, Lock, Operating, DeleteFailed,
   Unlock, Terminated

LEMMA SyncAlways == Spec => [](sync # "none" => SyncInv)
<1>1. Init => (sync # "none" => SyncInv)
  BY SyncInductive
<1>2. (sync # "none" => SyncInv) /\ [Next]_vars => (sync # "none" => SyncInv)'
  BY SyncInductive, SyncKept
<1> QED BY <1>1, <1>2, PTL DEF Spec

LEMMA SyncFreeLists == SyncInv => FreeListsAreRings
<1> SUFFICES ASSUME SyncInv, NEW l \in HeadIds, lock[l] = NoThread
             PROVE  IsRing(l, {e \in ListElements : hash[e] = l /\ Holds(e[1], e[2])})
  BY DEF FreeListsAreRings
<1>1. Ring(l, Contents(l)) /\ KeysApart /\ Contents(l) \in SUBSET Keyed
  BY SyncKeyed DEF SyncInv, ListsInv, Contents
<1>2. ASSUME NEW e \in ListElements, hash[e] = l
      PROVE  Holds(e[1], e[2]) <=> IsIn(e)
  <2> DEFINE t == e[1]
  <2>1. t \in Threads /\ e[2] \in Nat /\ e = <<t, e[2]>> /\ turn[t] \in Nat
    BY ThreadFacts DEF SyncInv, ControlInv
  <2>2. CASE th[t].pc \in {"only3", "only4", "link6"}
    <3>1. Operates(t) /\ phase[t] = "insert"
      BY <2>1, <2>2, LabelFacts DEF Operates, IdleLabels, SyncInv, ControlInv
    <3>2. lock[ListIndex(t)] = t /\ t # NoThread
      BY <2>1, <3>1, OperatorOwns, ThreadFacts
    <3>3. e[2] # turn[t]
      BY <1>2, <2>1, <3>1, <3>2 DEF ListIndex, Element
    <3>4. Done(t) = turn[t] /\ Made(t) = turn[t] + 1
      BY <2>1, <2>2, AbstractPcFacts DEF Done, Made, MadeLabels
    <3> QED BY <2>1, <3>1, <3>3, <3>4 DEF Holds, IsIn
  <2>3. CASE th[t].pc \notin {"only3", "only4", "link6"}
    <3>1. Done(t) = Made(t)
      BY <2>1, <2>3, AbstractPcFacts DEF Done, Made, MadeLabels
    <3> QED BY <3>1 DEF Holds, IsIn
  <2> QED BY <2>2, <2>3
<1>3. {e \in ListElements : hash[e] = l /\ Holds(e[1], e[2])} = Contents(l)
  BY <1>2 DEF Contents
<1> QED BY <1>1, <1>3, RingIsRing

(* Whatever the threads are doing to other sublists, and however often     *)
(* this one was locked before: whenever its lock is free its pointers form *)
(* the sorted ring of exactly the elements that belong there.              *)
THEOREM FreeRings == Spec => []FreeListsAreRings
<1>1. (sync # "none" => SyncInv) => FreeListsAreRings
  BY SyncFreeLists DEF FreeListsAreRings
<1> QED BY <1>1, SyncAlways, PTL

-----------------------------------------------------------------------------
(* The refinement.                                                         *)

LEMMA ChainIsContents == SyncInv => \A m \in HeadIds : contentsBar[m] = Contents(m)
<1> SUFFICES ASSUME SyncInv, NEW l \in HeadIds PROVE Chain(l, "prev") = Contents(l)
  BY DEF contentsBar
<1>1. CASE lock[l] = NoThread
  BY <1>1, PrevChain, ThreadFacts, SyncKeyed DEF SyncInv, ListsInv, Ring
<1>2. CASE lock[l] \in Threads
  <2>1. Operates(lock[l]) /\ ListIndex(lock[l]) = l
    BY <1>2 DEF SyncInv, ListsInv
  <2> QED BY <1>2, <2>1, OperatorOwns, InsideChain
<1> QED BY <1>1, <1>2 DEF SyncInv

LEMMA ChainIsContentsNext == SyncInv' => \A m \in HeadIds : contentsBar'[m] = Contents(m)'
<1>1. SyncInv' => (\A m \in HeadIds : contentsBar[m] = Contents(m))'
  BY ChainIsContents, PTL
<1> QED BY <1>1

LEMMA ContentsBarKept ==
  ASSUME SyncInv, SyncInv', \A m : Contents(m)' = Contents(m)
  PROVE  contentsBar' = contentsBar
<1>2. \A l \in HeadIds : contentsBar'[l] = contentsBar[l]
  BY ChainIsContents, ChainIsContentsNext
<1>3. /\ contentsBar = [l \in HeadIds |-> contentsBar[l]]
      /\ contentsBar' = [l \in HeadIds |-> contentsBar'[l]]
  BY DEF contentsBar
<1> QED BY <1>2, <1>3

LEMMA AbstractNames ==
  /\ Abstract!Threads = Threads /\ Abstract!NoThread = NoThread /\ Abstract!Lists = HeadIds
  /\ Abstract!Elements = ListElements
  /\ \A t : /\ Abstract!Element(t) = Element(t) /\ Abstract!ListIndex(t) = ListIndex(t)
            /\ Abstract!LoopBound(t) = LoopBound(t)
BY DEF Abstract!Threads, Threads, Abstract!NoThread, NoThread, Abstract!Lists, Abstract!Elements,
   Abstract!Turns, Abstract!Element, Element, Abstract!ListIndex, ListIndex,
   Abstract!LoopBound, LoopBound

LEMMA AbstractCardinality == \A S : Abstract!Cardinality(S) = Cardinality(S)
BY DEF Abstract!Cardinality, Cardinality

(* A step of thread t sets only its own place in the barred variables.     *)
LEMMA BarsOf ==
  ASSUME NEW t \in Threads, \A q \in Procs : q # t => th'[q] = th[q]
  PROVE  /\ pcBar[t] = AbstractPc(t)
         /\ pcBar' = [pcBar EXCEPT ![t] = AbstractPc(t)']
         /\ UNCHANGED size => sizeBar' = [sizeBar EXCEPT ![t] =
              size[t] + IF th'[t].pc = "done" THEN th'[t].count ELSE 0]
<1>1. \A s \in Threads : s # t => th'[s] = th[s]
  BY ThreadFacts
<1>2. \A s \in Threads : s # t => AbstractPc(s)' = AbstractPc(s)
  BY <1>1 DEF AbstractPc
<1>3. pcBar' = [pcBar EXCEPT ![t] = AbstractPc(t)']
  BY <1>2 DEF pcBar
<1>4. UNCHANGED size => sizeBar' = [sizeBar EXCEPT ![t] =
        size[t] + IF th'[t].pc = "done" THEN th'[t].count ELSE 0]
  BY <1>1 DEF sizeBar
<1> QED BY <1>3, <1>4 DEF pcBar

LEMMA AbstractInit ==
  ASSUME Init, sync # "none"
  PROVE  Abstract!Init
<1>1. SyncInv
  BY InitSync
<1>2. /\ hash \in [ListElements -> HeadIds] /\ lock = [l \in HeadIds |-> NoThread]
      /\ phase = [t \in Threads |-> "insert"] /\ turn = [t \in Threads |-> 0]
      /\ size = [t \in Threads |-> 0] /\ main = "create" /\ t_main = 0 /\ outcome = "running"
      /\ \A p \in Procs : th[p] = Idle("unborn")
  BY DEF Init
<1>3. \A t \in Threads : th[t].pc = "unborn"
  BY <1>2, ThreadFacts DEF Idle
<1>4. pcBar = [t \in Threads |-> "unborn"]
  BY <1>3 DEF pcBar, AbstractPc
<1>5. sizeBar = [t \in Threads |-> 0]
  BY <1>2, <1>3 DEF sizeBar
<1>6. contentsBar = [l \in HeadIds |-> {}]
  <2>1. \A t \in Threads : Made(t) = 0 /\ phase[t] = "insert"
    BY <1>2, <1>3 DEF Made, AbstractPc
  <2>2. \A e \in ListElements : ~IsIn(e)
    BY <2>1, ThreadFacts DEF IsIn
  <2>3. \A l \in HeadIds : contentsBar[l] = {}
    BY <1>1, <2>2, ChainIsContents DEF Contents
  <2> QED BY <2>3 DEF contentsBar
<1>7. mainBar = "create" /\ t_mainBar = 0 /\ outcomeBar = "running"
  BY <1>2 DEF mainBar, t_mainBar, outcomeBar
<1> QED BY <1>2, <1>4, <1>5, <1>6, <1>7, AbstractNames DEF Abstract!Init

(* What the steps of a thread keep.                                        *)
LEMMA MainBarsKept ==
  ASSUME UNCHANGED <<main, t_main, outcome>>
  PROVE  UNCHANGED <<mainBar, t_mainBar, outcomeBar>>
BY DEF mainBar, t_mainBar, outcomeBar

LEMMA LoopHeadMaps ==
  ASSUME SyncInv, NEW t \in Threads, LoopHead(t)
  PROVE  Abstract!Thread(t)
<1>1. SyncInv' /\ contentsBar' = contentsBar
  BY LoopHeadKeepsSync, ContentsBarKept
<1>2. /\ th[t].pc = "loop" /\ outcome = "running" /\ turn[t] \in Nat
      /\ phase[t] \in {"insert", "count", "delete"}
      /\ DOMAIN th = Procs /\ t \in Procs /\ size[t] \in Nat
      /\ UNCHANGED <<hash, lock, size, main, t_main>>
  BY ThreadFacts DEF LoopHead, On, SyncInv, ControlInv, setup, RegisterInv
<1>3. \A q \in Procs : q # t => th'[q] = th[q]
  <2>1. ASSUME NEW new, Set(t, new) PROVE \A q \in Procs : q # t => th'[q] = th[q]
    BY <1>2, <2>1, SetEffect
  <2> QED BY <2>1 DEF LoopHead
<1>4. /\ pcBar[t] = "loop" /\ outcomeBar = "running"
      /\ UNCHANGED <<mainBar, t_mainBar>>
      /\ pcBar' = [pcBar EXCEPT ![t] = AbstractPc(t)']
      /\ sizeBar' = [sizeBar EXCEPT ![t] =
              size[t] + IF th'[t].pc = "done" THEN th'[t].count ELSE 0]
      /\ sizeBar[t] = size[t]
  <2>1. sizeBar[t] = size[t]
    BY <1>2 DEF sizeBar
  <2>2. AbstractPc(t) = "loop"
    BY <1>2 DEF AbstractPc
  <2>3. outcomeBar = "running" /\ UNCHANGED <<mainBar, t_mainBar>>
    BY <1>2 DEF mainBar, t_mainBar, outcomeBar
  <2> QED BY <1>2, <1>3, <2>1, <2>2, <2>3, BarsOf
<1>5. th'[t].pc # "done" => sizeBar' = sizeBar
  <2> SUFFICES ASSUME th'[t].pc # "done" PROVE sizeBar' = sizeBar
    OBVIOUS
  <2>1. (size[t] + IF th'[t].pc = "done" THEN th'[t].count ELSE 0) = sizeBar[t]
    BY <1>2, <1>4
  <2>2. sizeBar' = [sizeBar EXCEPT ![t] = sizeBar[t]]
    BY <1>4, <2>1, Zenon
  <2>3. [sizeBar EXCEPT ![t] = sizeBar[t]] = sizeBar
    BY DEF sizeBar
  <2> QED BY <2>2, <2>3
<1>6. CASE turn[t] < LoopBound(t)
  <2>1. Set(t, [pc |-> "lock"]) /\ UNCHANGED <<phase, turn, outcome>>
    BY <1>2, <1>6 DEF LoopHead, LoopBound
  <2>2. th'[t].pc = "lock"
    BY <1>2, <2>1, SetEffect
  <2>3. pcBar' = [pcBar EXCEPT ![t] = "lock"]
    BY <1>4, <2>2 DEF AbstractPc
  <2>4. outcomeBar' = outcomeBar /\ ~(turn[t] >= LoopBound(t))
    BY <1>2, <1>6, <2>1 DEF outcomeBar, LoopBound
  <2> QED BY <1>1, <1>2, <1>4, <1>5, <2>1, <2>2, <2>3, <2>4, AbstractNames
      DEF Abstract!Thread, Abstract!LoopHead, Abstract!At, Abstract!Goto, Abstract!setup
<1>7. CASE turn[t] >= LoopBound(t)
  <2>1. ~(turn[t] < LoopBound(t))
    BY <1>2, <1>7 DEF LoopBound
  <2>2. \/ phase[t] = "count" /\ size[t] < NumIterations /\ outcome' = "corrupted" /\ UNCHANGED <<th, phase, turn>>
        \/ /\ phase[t] # "delete" /\ UNCHANGED <<th, outcome>>
           /\ phase[t] = "count" => size[t] >= NumIterations
           /\ phase' = [phase EXCEPT ![t] = NextPhase[@]] /\ turn' = [turn EXCEPT ![t] = 0]
        \/ /\ phase[t] = "delete" /\ UNCHANGED <<phase, turn, outcome>>
           /\ Set(t, [pc |-> "returned"])
    BY <2>1 DEF LoopHead
  <2>3. Abstract!LeaveLoop(t)
    <3>1. CASE UNCHANGED th
      <4>1. UNCHANGED pcBar
        BY <3>1 DEF pcBar, AbstractPc
      <4>2. CASE outcome' = "corrupted" /\ phase[t] = "count" /\ size[t] < NumIterations /\ UNCHANGED <<phase, turn>>
        BY <1>4, <4>1, <4>2 DEF Abstract!LeaveLoop, outcomeBar
      <4>3. CASE /\ phase[t] # "delete" /\ UNCHANGED outcome
                 /\ phase[t] = "count" => size[t] >= NumIterations
                 /\ phase' = [phase EXCEPT ![t] = NextPhase[@]] /\ turn' = [turn EXCEPT ![t] = 0]
        <5>1. outcomeBar' = outcomeBar
          BY <4>3 DEF outcomeBar
        <5>2. phase' = [phase EXCEPT ![t] = NextPhase[phase[t]]]
          BY <4>3
        <5>3. CASE phase[t] = "insert"
          <6>1. NextPhase[phase[t]] = "count"
            BY <5>3 DEF NextPhase
          <6> QED BY <4>1, <4>3, <5>1, <5>2, <5>3, <6>1 DEF Abstract!LeaveLoop
        <5>4. CASE phase[t] = "count"
          <6>1. NextPhase[phase[t]] = "delete"
            BY <5>4 DEF NextPhase
          <6> QED BY <1>4, <4>1, <4>3, <5>1, <5>2, <5>4, <6>1 DEF Abstract!LeaveLoop
        <5> QED BY <1>2, <4>3, <5>3, <5>4
      <4>4. CASE phase[t] = "delete" /\ UNCHANGED <<phase, turn, outcome>> /\ Set(t, [pc |-> "returned"])
        <5>1. th'[t].pc = "returned"
          BY <1>2, <4>4, SetEffect
        <5> QED BY <1>2, <3>1, <5>1
      <4> QED BY <2>2, <4>2, <4>3, <4>4
    <3>2. CASE phase[t] = "delete" /\ UNCHANGED <<phase, turn, outcome>> /\ Set(t, [pc |-> "returned"])
      <4>1. th'[t].pc = "returned"
        BY <1>2, <3>2, SetEffect
      <4>2. pcBar' = [pcBar EXCEPT ![t] = "returned"] /\ outcomeBar' = outcomeBar
        BY <1>4, <3>2, <4>1 DEF AbstractPc, outcomeBar
      <4> QED BY <3>2, <4>2 DEF Abstract!LeaveLoop, Abstract!Goto
    <3> QED BY <2>2, <3>1, <3>2
  <2>4. th'[t].pc # "done"
    <3>1. ASSUME Set(t, [pc |-> "returned"]) PROVE th'[t].pc = "returned"
      BY <1>2, <3>1, SetEffect
    <3> QED BY <1>2, <2>2, <3>1
  <2> QED BY <1>1, <1>2, <1>4, <1>5, <1>7, <2>3, <2>4, AbstractNames
      DEF Abstract!Thread, Abstract!LoopHead, Abstract!At, Abstract!setup
<1> QED BY <1>2, <1>6, <1>7 DEF LoopBound

LEMMA LockMaps ==
  ASSUME SyncInv, NEW t \in Threads, Lock(t)
  PROVE  Abstract!Thread(t)
<1> DEFINE l == ListIndex(t)
<1>1. /\ SyncInv' /\ \A m : Contents(m)' = Contents(m)
      /\ lock[l] = NoThread /\ lock' = [lock EXCEPT ![l] = t]
      /\ th'[t].pc = Operation[phase[t]]
      /\ \A q \in Procs : q # t => th'[q] = th[q]
  BY LockKeepsSync
<1>2. contentsBar' = contentsBar
  BY <1>1, ContentsBarKept
<1>3. /\ th[t].pc = "lock" /\ outcome = "running" /\ phase[t] \in {"insert", "count", "delete"}
      /\ UNCHANGED <<hash, outcome, phase, turn, size, main, t_main>>
  BY DEF Lock, On, setup, SyncInv, ControlInv
<1>4. size' = size
  BY <1>3
<1>5. th'[t].pc \in {"insert", "length", "lookup"}
  BY <1>1, <1>3 DEF Operation
<1>6. /\ pcBar[t] = "lock" /\ outcomeBar = "running"
      /\ UNCHANGED <<mainBar, t_mainBar, outcomeBar>>
      /\ pcBar' = [pcBar EXCEPT ![t] = AbstractPc(t)']
      /\ sizeBar' = [sizeBar EXCEPT ![t] =
              size[t] + IF th'[t].pc = "done" THEN th'[t].count ELSE 0]
      /\ AbstractPc(t)' = "op"
  BY <1>1, <1>3, <1>5, BarsOf DEF AbstractPc, mainBar, t_mainBar, outcomeBar
<1>7. sizeBar' = sizeBar
  BY <1>3, <1>5, <1>6 DEF sizeBar
<1> QED BY <1>1, <1>2, <1>3, <1>6, <1>7, AbstractNames
    DEF Abstract!Thread, Abstract!Lock, Abstract!At, Abstract!Goto, Abstract!setup, Abstract!mainVars

(* An operation is the one step of PartitionedList at its store to a       *)
(* backward pointer, or when a count gets back to the head.                *)
LEMMA OperatingMaps ==
  ASSUME SyncInv, NEW t \in Threads, Operating(t),
         NEW l, l = ListIndex(t), NEW S, S = Contents(l), NEW T, T = After(t, S)
  PROVE  Abstract!Thread(t) \/ UNCHANGED Abstract!vars
<1>1. /\ Operates(t) /\ l \in HeadIds /\ lock[l] = t
      /\ Advances(t, l, S, T) /\ Contents(l)' = T
      /\ \A m \in HeadIds : m # l => Contents(m)' = Contents(m)
  BY ThreadOperates
<1>2. SyncInv'
  BY OperatingKeepsSync
<1>3. /\ UNCHANGED <<key, sync, hash, lock, phase, turn, size, main, t_main, outcome>>
      /\ outcome = "running" /\ \A q \in Procs : q # t => th'[q] = th[q]
      /\ th[t].pc \notin IdleLabels \cup {"done"}
  BY <1>1, OperateLabels DEF Operating, setup, Advances, Moves
<1>4. /\ phase[t] # "count" => th[t].elem = Element(t)
      /\ phase[t] \in {"insert", "count", "delete"} /\ Owns(t, l, S)
      /\ th[t].pc \in IF phase[t] = "insert" THEN InsertLabels \cup {"done"}
                      ELSE IF phase[t] = "count" THEN LengthLabels \cup {"done"}
                      ELSE LookupLabels \cup UnlinkLabels \cup {"done"}
  BY <1>1, OperatorOwns DEF SyncInv, ControlInv
<1>5. size' = size /\ size[t] \in Nat
  BY <1>3 DEF SyncInv, ControlInv
<1>6. /\ pcBar[t] = AbstractPc(t)
      /\ pcBar' = [pcBar EXCEPT ![t] = AbstractPc(t)']
      /\ sizeBar' = [sizeBar EXCEPT ![t] =
              size[t] + IF th'[t].pc = "done" THEN th'[t].count ELSE 0]
  BY <1>3, <1>5, BarsOf
<1>7. outcomeBar = "running" /\ UNCHANGED <<mainBar, t_mainBar, outcomeBar>>
  BY <1>3 DEF mainBar, t_mainBar, outcomeBar
<1>8. sizeBar[t] = size[t] /\ [sizeBar EXCEPT ![t] = size[t]] = sizeBar
  <2>1. sizeBar[t] = size[t]
    BY <1>3, <1>5 DEF sizeBar
  <2>2. [sizeBar EXCEPT ![t] = sizeBar[t]] = sizeBar
    BY DEF sizeBar
  <2> QED BY <2>1, <2>2
<1>9. /\ contentsBar[l] = S /\ contentsBar' = [contentsBar EXCEPT ![l] = T]
  <2>2. \A m \in HeadIds : contentsBar'[m] = IF m = l THEN T ELSE contentsBar[m]
    BY <1>1, <1>2, ChainIsContents, ChainIsContentsNext
  <2>3. /\ contentsBar = [m \in HeadIds |-> contentsBar[m]]
        /\ contentsBar' = [m \in HeadIds |-> contentsBar'[m]]
    BY DEF contentsBar
  <2>4. contentsBar' = [contentsBar EXCEPT ![l] = T]
    BY <2>2, <2>3
  <2> QED BY <1>1, <2>4, ChainIsContents
<1>10. AbstractPc(t) = IF th[t].pc \in MadeLabels THEN "unlock" ELSE "op"
  BY <1>3 DEF AbstractPc, MadeLabels, IdleLabels
<1>11. AbstractPc(t)' = IF th'[t].pc \in MadeLabels THEN "unlock" ELSE "op"
  <2>1. th'[t].pc \in OperationOf(th[t].pc) \cup {"done"}
    BY <1>1 DEF Advances
  <2>2. th'[t].pc \notin IdleLabels
    <3>1. th'[t].pc \in InsertLabels \cup LookupLabels \cup UnlinkLabels \cup LengthLabels
                           \cup {"done"}
      <4>1. th[t].pc \in InsertLabels \cup LookupLabels \cup UnlinkLabels \cup LengthLabels
        BY <1>3, <1>4
      <4> QED BY <2>1, <4>1, LabelFacts
    <3> QED BY <3>1, LabelFacts DEF IdleLabels, LookupLabels, UnlinkLabels, LengthLabels
  <2> QED BY <2>2 DEF AbstractPc, MadeLabels, IdleLabels
<1>12. /\ th[t].pc # "count" =>
            (th'[t].pc \in MadeLabels <=> th[t].pc \in MadeLabels \cup {"only2", "link5", "unlink6"})
       /\ th'[t].pc = "done" => th'[t].count = IF th[t].pc = "count" THEN Cardinality(S) ELSE 0
  BY <1>1 DEF Advances
<1>13. {"only2", "link5", "unlink6", "count"} \cap MadeLabels = {} /\ "done" \in MadeLabels
  BY DEF MadeLabels
<1>14. /\ th[t].pc \in {"only2", "link5"} => phase[t] = "insert"
       /\ th[t].pc = "unlink6" => phase[t] = "delete"
       /\ th[t].pc = "count" => phase[t] = "count"
  BY <1>4, LabelFacts DEF LookupLabels, UnlinkLabels, LengthLabels
<1>15. th[t].pc # "count" => sizeBar' = sizeBar
  <2> SUFFICES ASSUME th[t].pc # "count" PROVE sizeBar' = sizeBar
    OBVIOUS
  <2>1. (size[t] + IF th'[t].pc = "done" THEN th'[t].count ELSE 0) = size[t]
    BY <1>5, <1>12
  <2> QED BY <1>6, <1>8, <2>1, Zenon
<1>16. CASE th[t].pc \in {"only2", "link5"}
  <2>1. T = S \cup {Element(t)} /\ phase[t] = "insert"
    BY <1>4, <1>14, <1>16 DEF After
  <2>2. pcBar[t] = "op" /\ pcBar' = [pcBar EXCEPT ![t] = "unlock"]
    BY <1>6, <1>10, <1>11, <1>12, <1>13, <1>16
  <2>3. sizeBar' = sizeBar /\ contentsBar' = [contentsBar EXCEPT ![l] = contentsBar[l] \cup {Element(t)}]
    BY <1>9, <1>15, <1>16, <2>1
  <2>4. Abstract!Insert(t)
    BY <1>3, <1>7, <2>1, <2>2, <2>3, AbstractNames
    DEF Abstract!Insert, Abstract!At, Abstract!Goto, Abstract!setup, Abstract!mainVars
  <2> QED BY <2>4 DEF Abstract!Thread
<1>17. CASE th[t].pc = "unlink6"
  <2>1. T = S \ {Element(t)} /\ phase[t] = "delete"
    BY <1>4, <1>14, <1>17 DEF After
  <2>2. pcBar[t] = "op" /\ pcBar' = [pcBar EXCEPT ![t] = "unlock"]
    BY <1>6, <1>10, <1>11, <1>12, <1>13, <1>17
  <2>3. sizeBar' = sizeBar /\ contentsBar' = [contentsBar EXCEPT ![l] = contentsBar[l] \ {Element(t)}]
    BY <1>9, <1>15, <1>17, <2>1
  <2>4. Element(t) \in contentsBar[l]
    <3>1. DeleteInv(t, l, S) /\ th[t].elem = Element(t)
      BY <1>4, <2>1 DEF Owns, Inside
    <3> QED BY <1>9, <1>17, <3>1 DEF DeleteInv, UnlinkLabels
  <2>5. Abstract!LookupAndDelete(t)
    BY <1>3, <1>7, <2>1, <2>2, <2>3, <2>4, AbstractNames
    DEF Abstract!LookupAndDelete, Abstract!At, Abstract!Goto, Abstract!setup
  <2> QED BY <2>5 DEF Abstract!Thread
<1>18. CASE th[t].pc = "count" /\ th'[t].pc = "done"
  <2>1. T = S /\ phase[t] = "count"
    BY <1>14, <1>18 DEF After
  <2>2. pcBar[t] = "op" /\ pcBar' = [pcBar EXCEPT ![t] = "unlock"]
    BY <1>6, <1>10, <1>11, <1>13, <1>18
  <2>3. contentsBar' = contentsBar
    <3>1. [contentsBar EXCEPT ![l] = contentsBar[l]] = contentsBar
      BY DEF contentsBar
    <3> QED BY <1>9, <2>1, <3>1, Zenon
  <2>4. sizeBar' = [sizeBar EXCEPT ![t] = sizeBar[t] + Cardinality(contentsBar[l])]
    <3>1. (size[t] + IF th'[t].pc = "done" THEN th'[t].count ELSE 0)
            = sizeBar[t] + Cardinality(contentsBar[l])
      BY <1>8, <1>9, <1>12, <1>18
    <3> QED BY <1>6, <3>1
  <2>5. sizeBar' = [sizeBar EXCEPT ![t] = @ + Abstract!Cardinality(contentsBar[Abstract!ListIndex(t)])]
    BY <2>4, AbstractNames, AbstractCardinality
  <2>6. Abstract!Length(t)
    BY <1>3, <1>7, <2>1, <2>2, <2>3, <2>5
    DEF Abstract!Length, Abstract!At, Abstract!Goto, Abstract!setup, Abstract!mainVars
  <2> QED BY <2>6 DEF Abstract!Thread
<1>19. CASE /\ th[t].pc \notin {"only2", "link5", "unlink6"}
            /\ ~(th[t].pc = "count" /\ th'[t].pc = "done")
  <2>1. T = S
    BY <1>19 DEF After
  <2>2. contentsBar' = contentsBar
    <3>1. [contentsBar EXCEPT ![l] = contentsBar[l]] = contentsBar
      BY DEF contentsBar
    <3> QED BY <1>9, <2>1, <3>1, Zenon
  <2>3. AbstractPc(t)' = AbstractPc(t)
    <3>1. CASE th[t].pc # "count"
      BY <1>10, <1>11, <1>12, <1>13, <1>19, <3>1
    <3>2. CASE th[t].pc = "count"
      <4>1. th'[t].pc \in LengthLabels
        BY <1>1, <1>19, <3>2, LabelFacts DEF Advances, LengthLabels
      <4>2. th'[t].pc \notin MadeLabels
        BY <4>1 DEF LengthLabels, MadeLabels
      <4> QED BY <1>10, <1>11, <1>13, <3>2, <4>2
    <3> QED BY <3>1, <3>2
  <2>4. pcBar' = pcBar
    <3>1. [pcBar EXCEPT ![t] = pcBar[t]] = pcBar
      BY DEF pcBar
    <3> QED BY <1>6, <2>3, <3>1, Zenon
  <2>5. sizeBar' = sizeBar
    <3>1. CASE th[t].pc = "count"
      <4>1. (size[t] + IF th'[t].pc = "done" THEN th'[t].count ELSE 0) = size[t]
        BY <1>5, <1>19, <3>1
      <4> QED BY <1>6, <1>8, <4>1, Zenon
    <3> QED BY <1>15, <3>1
  <2> QED BY <1>3, <1>7, <2>2, <2>4, <2>5 DEF Abstract!vars
<1> QED BY <1>16, <1>17, <1>18, <1>19

LEMMA UnlockMaps ==
  ASSUME SyncInv, NEW t \in Threads, Unlock(t)
  PROVE  Abstract!Thread(t)
<1> DEFINE l == ListIndex(t)
<1>1. /\ SyncInv' /\ \A m : Contents(m)' = Contents(m)
      /\ lock' = [lock EXCEPT ![l] = NoThread]
      /\ th'[t].pc = "loop"
      /\ \A q \in Procs : q # t => th'[q] = th[q]
  BY UnlockKeepsSync
<1>2. contentsBar' = contentsBar
  BY <1>1, ContentsBarKept
<1>3. /\ th[t].pc = "done" /\ outcome = "running"
      /\ size' = [size EXCEPT ![t] = @ + th[t].count] /\ turn' = [turn EXCEPT ![t] = @ + 1]
      /\ UNCHANGED <<hash, outcome, phase, main, t_main>>
  BY DEF Unlock, On, setup
<1>4. /\ pcBar[t] = AbstractPc(t) /\ pcBar' = [pcBar EXCEPT ![t] = AbstractPc(t)']
  BY <1>1, BarsOf
<1>5. AbstractPc(t) = "unlock" /\ AbstractPc(t)' = "loop"
  BY <1>1, <1>3 DEF AbstractPc
<1>6. /\ outcomeBar = "running" /\ UNCHANGED <<mainBar, t_mainBar, outcomeBar>>
  BY <1>3 DEF mainBar, t_mainBar, outcomeBar
<1>7. sizeBar' = sizeBar
  <2>1. /\ size \in [Threads -> Nat] /\ th[t].count \in Nat
    BY ThreadFacts DEF SyncInv, ControlInv, RegisterInv
  <2>2. ASSUME NEW s \in Threads
        PROVE  size'[s] + (IF th'[s].pc = "done" THEN th'[s].count ELSE 0)
                 = size[s] + (IF th[s].pc = "done" THEN th[s].count ELSE 0)
    <3>1. CASE s = t
      BY <1>1, <1>3, <2>1, <3>1
    <3>2. CASE s # t
      BY <1>1, <1>3, <2>1, <3>2, ThreadFacts
    <3> QED BY <3>1, <3>2
  <2> QED BY <2>2 DEF sizeBar
<1>8. Abstract!Unlock(t)
  BY <1>1, <1>2, <1>3, <1>4, <1>5, <1>6, <1>7, AbstractNames
  DEF Abstract!Unlock, Abstract!At, Abstract!Goto, Abstract!setup, Abstract!mainVars
<1> QED BY <1>8 DEF Abstract!Thread

(* main() creates and joins the threads as PartitionedList says; its loop  *)
(* over the lists finds every one of them empty.                           *)
LEMMA MainMaps ==
  ASSUME SyncInv, Main
  PROVE  Abstract!Main \/ UNCHANGED Abstract!vars
<1>1. MainInv /\ RegisterInv /\ outcome # "segfault" /\ sync # "none"
  BY DEF SyncInv
<1>2. ASSUME UNCHANGED th, UNCHANGED size
      PROVE  pcBar' = pcBar /\ sizeBar' = sizeBar
  BY <1>2 DEF pcBar, sizeBar, AbstractPc
<1>3. ASSUME UNCHANGED size, \A q \in Procs : q # MainProc => th'[q] = th[q]
      PROVE  pcBar' = pcBar /\ sizeBar' = sizeBar
  <2>1. \A s \in Threads : th'[s] = th[s]
    BY <1>3, ThreadFacts
  <2> QED BY <1>3, <2>1 DEF pcBar, sizeBar, AbstractPc
<1>4. CASE PthreadError \/ NextLoop \/ JoinThread \/ Report
  <2>1. /\ contentsBar' = contentsBar /\ pcBar' = pcBar /\ sizeBar' = sizeBar
        /\ UNCHANGED <<hash, lock, phase, turn>>
    BY <1>2, <1>4, ProgressKeepsSync, ContentsBarKept
  <2>2. CASE PthreadError
    <3>1. /\ outcome = "running" /\ outcome' = "exit2" /\ UNCHANGED <<main, t_main>>
          /\ \/ main = "create" /\ (t_main < NumThreads \/ t_main = 0)
             \/ main = "join" /\ t_main < NumThreads /\ th[t_main].pc = "returned"
      BY <2>2 DEF PthreadError
    <3>2. outcomeBar = "running" /\ outcomeBar' = "exit2" /\ UNCHANGED <<mainBar, t_mainBar>>
      BY <3>1 DEF outcomeBar, mainBar, t_mainBar
    <3>3. mainBar = main /\ t_mainBar = t_main /\ NumLists > 0
      BY <3>1 DEF mainBar, t_mainBar
    <3>4. main = "join" => t_main \in Threads /\ pcBar[t_main] = "returned"
      BY <1>1, <3>1 DEF MainInv, Threads, pcBar, AbstractPc
    <3>5. Abstract!PthreadError
      BY <2>1, <3>1, <3>2, <3>3, <3>4 DEF Abstract!PthreadError, Abstract!setup
    <3> QED BY <3>5 DEF Abstract!Main
  <2>3. CASE NextLoop
    <3>1. /\ outcome = "running" /\ UNCHANGED outcome /\ t_main = NumThreads /\ t_main' = 0
          /\ main \in {"create", "join"} /\ main' = IF main = "create" THEN "join" ELSE "check"
      BY <2>3 DEF NextLoop
    <3>2. outcomeBar = "running" /\ UNCHANGED outcomeBar
      BY <3>1 DEF outcomeBar
    <3>3. CASE main = "create"
      <4>1. mainBar = "create" /\ mainBar' = "join" /\ t_mainBar = NumThreads /\ t_mainBar' = 0
        BY <3>1, <3>3 DEF mainBar, t_mainBar
      <4>2. Abstract!AllCreated
        BY <2>1, <3>2, <4>1 DEF Abstract!AllCreated, Abstract!setup
      <4> QED BY <4>2 DEF Abstract!Main
    <3>4. CASE main = "join"
      <4>1. UNCHANGED <<mainBar, t_mainBar>>
        BY <3>1, <3>4 DEF mainBar, t_mainBar
      <4> QED BY <2>1, <3>2, <4>1 DEF Abstract!vars
    <3> QED BY <3>1, <3>3, <3>4
  <2>4. CASE JoinThread
    <3>1. /\ outcome = "running" /\ UNCHANGED <<main, outcome>> /\ main = "join"
          /\ t_main < NumThreads /\ th[t_main].pc = "returned" /\ t_main' = t_main + 1
      BY <2>4 DEF JoinThread
    <3>2. /\ outcomeBar = "running" /\ UNCHANGED outcomeBar /\ mainBar = "join" /\ UNCHANGED mainBar
          /\ t_mainBar = t_main /\ t_mainBar' = t_main'
      BY <3>1 DEF outcomeBar, mainBar, t_mainBar
    <3>3. pcBar[t_main] = "returned"
      BY <1>1, <3>1 DEF MainInv, Threads, pcBar, AbstractPc
    <3>4. Abstract!JoinThread
      BY <2>1, <3>1, <3>2, <3>3 DEF Abstract!JoinThread, Abstract!setup
    <3> QED BY <3>4 DEF Abstract!Main
  <2>5. CASE Report
    <3>1. /\ outcome = "running" /\ main = "check" /\ UNCHANGED <<main, t_main>>
          /\ outcome' = IF NumThreads * NumIterations = 0 THEN "sigfpe" ELSE "printed"
      BY <2>5 DEF Report
    <3>2. /\ outcomeBar = "running" /\ outcomeBar' = outcome'
          /\ mainBar = "join" /\ t_mainBar = NumThreads /\ UNCHANGED <<mainBar, t_mainBar>>
      BY <3>1 DEF outcomeBar, mainBar, t_mainBar
    <3>3. \A l \in HeadIds : contentsBar[l] = {}
      BY <3>1, EmptyAtTheEnd, ChainIsContents
    <3>4. Abstract!Report
      BY <2>1, <3>1, <3>2, <3>3, AbstractNames DEF Abstract!Report, Abstract!setup
    <3> QED BY <3>4 DEF Abstract!Main
  <2> QED BY <1>4, <2>2, <2>3, <2>4, <2>5
<1>5. CASE CreateThread
  <2>1. /\ contentsBar' = contentsBar /\ t_main \in Threads /\ th'[t_main].pc = "loop"
        /\ \A q \in Procs : q # t_main => th'[q] = th[q]
    BY <1>5, CreateKeepsSync, ContentsBarKept
  <2>2. /\ outcome = "running" /\ main = "create" /\ t_main < NumThreads /\ t_main' = t_main + 1
        /\ UNCHANGED <<hash, lock, phase, turn, size, main, outcome>>
    BY <1>5 DEF CreateThread, setup
  <2>3. th[t_main].pc = "unborn"
    BY <1>1, <2>1, <2>2 DEF MainInv, Threads
  <2>4. PICK t \in Threads : t = t_main
    BY <2>1
  <2>5. pcBar' = [pcBar EXCEPT ![t] = "loop"]
    <3>1. AbstractPc(t)' = "loop"
      BY <2>1, <2>4 DEF AbstractPc
    <3> QED BY <2>1, <2>4, <3>1, BarsOf
  <2>6. sizeBar' = sizeBar
    <3>1. \A s \in Threads : th'[s].pc = "done" <=> th[s].pc = "done"
      BY <2>1, <2>3, ThreadFacts
    <3>2. \A s \in Threads : th[s].pc = "done" => th'[s] = th[s]
      BY <2>1, <2>3, ThreadFacts
    <3> QED BY <2>2, <3>1, <3>2 DEF sizeBar
  <2>7. /\ outcomeBar = "running" /\ mainBar = "create" /\ t_mainBar = t_main
        /\ t_mainBar' = t_main' /\ UNCHANGED <<outcomeBar, mainBar>>
    BY <2>2 DEF outcomeBar, mainBar, t_mainBar
  <2>8. Abstract!CreateThread
    BY <2>1, <2>2, <2>4, <2>5, <2>6, <2>7
    DEF Abstract!CreateThread, Abstract!Goto, Abstract!setup
  <2> QED BY <2>8 DEF Abstract!Main
<1>6. CASE CheckList \/ CheckOperating \/ ListChecked
  <2>1. /\ contentsBar' = contentsBar /\ \A q \in Procs : q # MainProc => th'[q] = th[q]
        /\ UNCHANGED outcome
    BY <1>6, CheckListKeepsSync, CheckOperatingKeepsSync, ListCheckedKeepsSync, ContentsBarKept
    DEF CheckList
  <2>2. UNCHANGED <<hash, lock, phase, turn, size, main>>
    BY <1>6 DEF CheckList, CheckOperating, ListChecked, setup
  <2>3. main = "check"
    <3>1. th[MainProc].pc # "unborn" \/ main = "check"
      BY <1>6, OperateLabels DEF CheckList, CheckOperating, ListChecked, On, IdleLabels
    <3> QED BY <1>1, <3>1 DEF MainInv
  <2>4. UNCHANGED <<mainBar, t_mainBar, outcomeBar>>
    BY <2>1, <2>2, <2>3 DEF mainBar, t_mainBar, outcomeBar
  <2>5. pcBar' = pcBar /\ sizeBar' = sizeBar
    BY <1>3, <2>1, <2>2
  <2> QED BY <2>1, <2>2, <2>4, <2>5 DEF Abstract!vars
<1> QED BY <1>4, <1>5, <1>6 DEF Main

LEMMA StutterMaps ==
  ASSUME SyncInv, UNCHANGED vars
  PROVE  UNCHANGED Abstract!vars
<1>1. UNCHANGED <<mem, key, th, outcome, sync, hash, lock, phase, turn, size, main, t_main>>
  BY DEF vars
<1>2. contentsBar' = contentsBar
  BY StutterKeepsSync, ContentsBarKept
<1>3. pcBar' = pcBar /\ sizeBar' = sizeBar
  BY <1>1 DEF pcBar, sizeBar, AbstractPc
<1>4. UNCHANGED <<mainBar, t_mainBar, outcomeBar>>
  BY <1>1 DEF mainBar, t_mainBar, outcomeBar
<1> QED BY <1>1, <1>2, <1>3, <1>4 DEF Abstract!vars

LEMMA StepMaps == SyncInv /\ [Next]_vars => [Abstract!Next]_(Abstract!vars)
<1> SUFFICES ASSUME SyncInv, [Next]_vars PROVE [Abstract!Next]_(Abstract!vars)
  OBVIOUS
<1>1. ASSUME NEW t \in Threads, Thread(t)
      PROVE  Abstract!Thread(t) \/ UNCHANGED Abstract!vars
  <2>1. CASE Operating(t)
    BY <2>1, OperatingMaps
  <2> QED BY <1>1, <2>1, LoopHeadMaps, LockMaps, NeverFails, UnlockMaps DEF Thread
<1>2. CASE Main
  BY <1>2, MainMaps DEF Abstract!Next
<1>3. CASE Terminated \/ UNCHANGED vars
  BY <1>3, StutterMaps DEF Terminated
<1> QED BY <1>1, <1>2, <1>3, AbstractNames DEF Next, Abstract!Next

(* For every number of threads, iterations and sublists, every hash and    *)
(* every order of the keys: a process with --sync on the pointers of       *)
(* SortedList.c does nothing that PartitionedList, where an operation is   *)
(* one step on a set, does not do.                                         *)
THEOREM ListsAtomic ==
  ASSUME "none" \notin SyncModes
  PROVE  Spec => ListsAreAtomic
<1>1. Init => sync # "none" /\ Abstract!Init
  <2>1. Init => sync # "none"
    BY DEF Init
  <2> QED BY <2>1, AbstractInit
<1>2. Spec => []SyncInv
  <2>1. Init => SyncInv
    BY <1>1, SyncInductive
  <2> QED BY <2>1, SyncInductive, PTL DEF Spec
<1> QED BY <1>1, <1>2, StepMaps, PTL DEF Spec, ListsAreAtomic, Abstract!Spec

-----------------------------------------------------------------------------
(* What PartitionedListProofs proves of PartitionedList, for the barred    *)
(* variables.                                                              *)
Promises == INSTANCE PartitionedListProofs WITH
  ListCounts <- {NumLists}, num_lists <- NumLists, contents <- contentsBar, pc <- pcBar,
  size <- sizeBar, main <- mainBar, t_main <- t_mainBar, outcome <- outcomeBar

LEMMA PromisesAssumption == Promises!ListAssumption
BY DEF Promises!ListAssumption

LEMMA SameThread == \A t : Abstract!Thread(t) => Promises!Thread(t)
<1>1. \A t : Abstract!LoopHead(t) => Promises!LoopHead(t)
  BY DEF Abstract!LoopHead, Abstract!At, Abstract!LoopBound, Abstract!LeaveLoop, Abstract!Goto,
     Abstract!setup, Promises!LoopHead, Promises!At, Promises!LoopBound, Promises!LeaveLoop,
     Promises!Goto, Promises!setup
<1>2. \A t : Abstract!Lock(t) => Promises!Lock(t)
  BY DEF Abstract!Lock, Abstract!At, Abstract!Goto, Abstract!NoThread, Abstract!ListIndex,
     Abstract!Element, Abstract!setup, Abstract!mainVars, Promises!Lock, Promises!At,
     Promises!Goto, Promises!NoThread, Promises!ListIndex, Promises!Element, Promises!setup,
     Promises!mainVars
<1>3. \A t : Abstract!Insert(t) => Promises!Insert(t)
  BY DEF Abstract!Insert, Abstract!At, Abstract!Goto, Abstract!ListIndex,
     Abstract!Element, Abstract!setup, Abstract!mainVars, Promises!Insert, Promises!At,
     Promises!Goto, Promises!ListIndex, Promises!Element, Promises!setup, Promises!mainVars
<1>4. \A t : Abstract!Length(t) => Promises!Length(t)
  <2>1. \A S : Abstract!Cardinality(S) = Promises!Cardinality(S)
    BY DEF Abstract!Cardinality, Promises!Cardinality
  <2> QED BY <2>1
  DEF Abstract!Length, Abstract!At, Abstract!Goto, Abstract!ListIndex,
     Abstract!Element, Abstract!setup, Abstract!mainVars, Promises!Length, Promises!At,
     Promises!Goto, Promises!ListIndex, Promises!Element, Promises!setup, Promises!mainVars
<1>5. \A t : Abstract!LookupAndDelete(t) => Promises!LookupAndDelete(t)
  BY DEF Abstract!LookupAndDelete, Abstract!At, Abstract!Goto, Abstract!ListIndex,
     Abstract!Element, Abstract!setup, Promises!LookupAndDelete, Promises!At,
     Promises!Goto, Promises!ListIndex, Promises!Element, Promises!setup
<1>6. \A t : Abstract!Unlock(t) => Promises!Unlock(t)
  BY DEF Abstract!Unlock, Abstract!At, Abstract!Goto, Abstract!NoThread, Abstract!ListIndex,
     Abstract!Element, Abstract!setup, Abstract!mainVars, Promises!Unlock, Promises!At,
     Promises!Goto, Promises!NoThread, Promises!ListIndex, Promises!Element, Promises!setup,
     Promises!mainVars
<1> QED BY <1>1, <1>2, <1>3, <1>4, <1>5, <1>6 DEF Abstract!Thread, Promises!Thread

LEMMA SameMain == Abstract!Main => Promises!Main
<1>1. Abstract!PthreadError => Promises!PthreadError
  BY DEF Abstract!PthreadError, Abstract!setup, Promises!PthreadError, Promises!setup
<1>2. Abstract!CreateThread => Promises!CreateThread
  BY DEF Abstract!CreateThread, Abstract!setup, Abstract!Goto, Promises!CreateThread,
     Promises!setup, Promises!Goto
<1>3. Abstract!AllCreated => Promises!AllCreated
  BY DEF Abstract!AllCreated, Abstract!setup, Promises!AllCreated, Promises!setup
<1>4. Abstract!JoinThread => Promises!JoinThread
  BY DEF Abstract!JoinThread, Abstract!setup, Promises!JoinThread, Promises!setup
<1>5. Abstract!Report => Promises!Report
  BY DEF Abstract!Report, Abstract!setup, Abstract!Lists, Promises!Report, Promises!setup,
     Promises!Lists
<1> QED BY <1>1, <1>2, <1>3, <1>4, <1>5 DEF Abstract!Main, Promises!Main

LEMMA SameSpec == Abstract!Spec => Promises!Spec
<1>1. Abstract!Init => Promises!Init
  BY DEF Abstract!Init, Abstract!Elements, Abstract!Lists, Abstract!Threads, Abstract!Turns,
     Abstract!NoThread, Promises!Init, Promises!Elements, Promises!Lists, Promises!Threads,
     Promises!Turns, Promises!NoThread
<1>2. [Abstract!Next]_(Abstract!vars) => [Promises!Next]_(Promises!vars)
  <2>1. Abstract!vars = Promises!vars /\ Abstract!Threads = Promises!Threads
    BY DEF Abstract!vars, Promises!vars, Abstract!Threads, Promises!Threads
  <2>2. UNCHANGED Abstract!vars => UNCHANGED Promises!vars
    BY DEF Abstract!vars, Promises!vars
  <2>3. Abstract!Terminated => Promises!Terminated
    BY <2>2 DEF Abstract!Terminated, Promises!Terminated
  <2> QED BY <2>1, <2>2, <2>3, SameThread, SameMain DEF Abstract!Next, Promises!Next
<1> QED BY <1>1, <1>2, PTL DEF Abstract!Spec, Promises!Spec

(* A synchronised process on the pointers never follows NULL, and none of  *)
(* its checks (the sum of the lengths, the lookup before each delete, the  *)
(* lists that must be empty at the end) reports it as corrupted.           *)
THEOREM NeverCorrupted ==
  ASSUME "none" \notin SyncModes
  PROVE  Spec => [](outcome \notin {"segfault", "corrupted"})
<1>1. Spec => []Promises!NoFalseAlarm
  BY ListsAtomic, SameSpec, PromisesAssumption, Promises!NoAlarm, PTL DEF ListsAreAtomic
<1>2. Promises!NoFalseAlarm => outcome \notin {"segfault", "corrupted"}
  BY DEF Promises!NoFalseAlarm, outcomeBar
<1> QED BY <1>1, <1>2, PTL

=============================================================================
