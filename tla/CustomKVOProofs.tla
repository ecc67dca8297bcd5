--------------------------- MODULE CustomKVOProofs ---------------------------
(***************************************************************************)
(* Theorems about CustomKVO, for all objects, classes and observers and    *)
(* every set of categories a program is linked from, as long as the        *)
(* program keeps to what the categories support: one observer for each     *)
(* object, one key.                                                        *)
(***************************************************************************)
EXTENDS CustomKVO, WellFoundedInduction, TLAPS

\* What the demos do.
OneObserverEach ==
    \A o \in Objects, a, b \in Observers :
        <<o, a>> \in MayObserve /\ <<o, b>> \in MayObserve => a = b

OneKey == \A k, l \in Keys : k = l

\* What holds of an object: it shows whether it is observed, only its observer
\* was asked for, the setter is overridden when it is observed, and the observer
\* is where the category it is observed through keeps it.
ObjectInv(o) ==
    /\ o \in alive => isa[o] = IF asked[o] # {} THEN 1 ELSE 0
    /\ \A r \in asked[o] : <<o, r[1]>> \in MayObserve
    /\ asked[o] # {} => override[ClassOf[o]] \in Keys
    /\ via[o] # "pd" => \A r \in asked[o] : observer[o] = r[1]
    /\ via[o] = "pd" /\ o \in alive =>
        /\ \A i \in 1 .. Len(infos[o]) :
              <<infos[o][i].observer, infos[o][i].key>> \in asked[o]
        /\ asked[o] # {} => Len(infos[o]) > 0

IInv == TypeOK /\ \A o \in Objects : ObjectInv(o)
-----------------------------------------------------------------------------
LEMMA Categories == TypeOK => \A o \in Objects : via[o] \in {"gv", "zb", "pd"}
BY CustomKVOAssumption DEF TypeOK

\* What SelectInSeq finds: the least index.
LEMMA FirstOf ==
    ASSUME NEW I \in SUBSET Nat, I # {}
    PROVE  Min(I) \in I /\ \A j \in I : Min(I) <= j
<1>1. PICK i \in I : \A j \in I : ~(<<j, i>> \in OpToRel(<, Nat))
  BY WFMin, NatLessThanWellFounded, Zenon
<1>2. \A j \in I : ~(j < i)
  BY <1>1, Zenon DEF OpToRel
<1>3. \A j \in I : i <= j
  BY <1>2
<1> QED
  BY <1>1, <1>3 DEF Min

Info == [observer : Observers, key : Keys]

LEMMA InfosTyped ==
    ASSUME TypeOK, NEW o \in Objects
    PROVE  /\ infos[o] \in Seq(Info) /\ Len(infos[o]) \in Nat
           /\ \A i \in 1 .. Len(infos[o]) : infos[o][i] \in Info
<1>1. infos \in [Objects -> Seq(Info)]
  BY DEF TypeOK, Info
<1>2. infos[o] \in Seq(Info)
  BY <1>1
<1> QED
  BY <1>2

LEMMA ShownTyped ==
    ASSUME TypeOK, NEW o \in Objects
    PROVE  isa[o] \in Nat /\ Shown(o) \in Nat
BY DEF TypeOK, Shown

LEMMA AddTyped ==
    ASSUME TypeOK, NEW o \in Objects, NEW a \in Observers, NEW key \in Keys,
           Add(o, a, key)
    PROVE  /\ override' \in [Classes -> Keys \cup {NoKey}]
           /\ isa' \in [Objects -> Nat]
           /\ asked' \in [Objects -> SUBSET (Observers \X Keys)]
           /\ told' \subseteq Observers \X Keys
           /\ UNCHANGED <<linked, creator, via, alive>>
<1>1. override' \in [Classes -> Keys \cup {NoKey}]
  BY DEF Add, TypeOK, Classes
<1>2. isa' \in [Objects -> Nat]
  BY DEF Add, Created, Shown, TypeOK
<1>3. asked' \in [Objects -> SUBSET (Observers \X Keys)]
  BY DEF Add, TypeOK
<1> QED
  BY <1>1, <1>2, <1>3 DEF Add

LEMMA NextTyped == TypeOK /\ [Next]_vars => TypeOK'
<1> SUFFICES ASSUME TypeOK, [Next]_vars PROVE TypeOK'
  OBVIOUS
<1>1. CASE UNCHANGED vars
  BY <1>1 DEF vars, TypeOK
<1>2. ASSUME NEW o \in Objects, Dealloc(o) PROVE TypeOK'
  <2>1. CASE isa[o] > 0 /\ creator # "gv"
    <3>1. isa' \in [Objects -> Nat]
      BY <1>2, <2>1, ShownTyped DEF Dealloc, TypeOK
    <3> QED
      BY <1>2, <2>1, <3>1 DEF Dealloc, TypeOK
  <2>2. CASE ~(isa[o] > 0 /\ creator # "gv")
    <3>1. infos' = [infos EXCEPT ![o] = <<>>] /\ infos \in [Objects -> Seq(Info)]
      BY <1>2, <2>2 DEF Dealloc, TypeOK, Info
    <3>2. <<>> \in Seq(Info)
      OBVIOUS
    <3>3. infos' \in [Objects -> Seq([observer : Observers, key : Keys])]
      BY <3>1, <3>2 DEF Info
    <3> QED
      BY <1>2, <2>2, <3>3 DEF Dealloc, TypeOK
  <2> QED
    BY <2>1, <2>2
<1>3. ASSUME NEW o \in Objects, NEW key \in Keys, Set(o, key) PROVE TypeOK'
  <2>1. CASE ~(isa[o] = 1 /\ override[ClassOf[o]] = key)
    BY <1>3, <2>1 DEF Set, TypeOK
  <2>2. CASE isa[o] = 1 /\ override[ClassOf[o]] = key
    <3>1. Told(o, key) \subseteq Observers \X Keys
      <4>1. CASE creator # "pd"
        BY <4>1 DEF Told, TypeOK
      <4>2. CASE creator = "pd"
        <5> DEFINE I == {i \in 1 .. Len(infos[o]) : infos[o][i].key = key}
        <5>1. CASE I = {}
          BY <4>2, <5>1 DEF Told, SelectInSeq
        <5>2. CASE I # {}
          <6>1. Min(I) \in I
            <7>1. I \in SUBSET Nat
              BY InfosTyped
            <7> HIDE DEF I
            <7> QED
              BY <5>2, <7>1, FirstOf
          <6>2. Told(o, key) = {<<infos[o][Min(I)].observer, key>>}
            <7>1. Min(I) # 0
              BY <6>1
            <7> QED
              BY <4>2, <5>2, <7>1 DEF Told, SelectInSeq
          <6>3. infos[o][Min(I)] \in Info
            BY <6>1, InfosTyped
          <6> QED
            BY <6>2, <6>3 DEF Info
        <5> QED
          BY <5>1, <5>2
      <4> QED
        BY <4>1, <4>2
    <3> QED
      BY <1>3, <2>2, <3>1 DEF Set, TypeOK
  <2> QED
    BY <2>1, <2>2
<1>4. ASSUME NEW o \in Objects, NEW a \in Observers, NEW key \in Keys,
             AddObserver(o, a, key)
      PROVE  TypeOK'
  <2>1. observer' \in [Objects -> Observers \cup {Nil}]
    BY <1>4 DEF AddObserver, TypeOK
  <2>2. Add(o, a, key) /\ UNCHANGED infos
    BY <1>4 DEF AddObserver
  <2>3. /\ override' \in [Classes -> Keys \cup {NoKey}] /\ isa' \in [Objects -> Nat]
        /\ asked' \in [Objects -> SUBSET (Observers \X Keys)]
        /\ told' \subseteq Observers \X Keys
        /\ UNCHANGED <<linked, creator, via, alive, infos>>
    BY <2>2, AddTyped
  <2> QED
    BY <2>1, <2>3 DEF TypeOK, Classes
<1>5. ASSUME NEW o \in Objects, NEW a \in Observers, NEW key \in Keys,
             AddObserverBlock(o, a, key)
      PROVE  TypeOK'
  <2>1. Append(infos[o], [observer |-> a, key |-> key]) \in Seq(Info)
    <3>1. [observer |-> a, key |-> key] \in Info
      BY DEF Info
    <3> QED
      BY <3>1, InfosTyped
  <2>2. infos' = [infos EXCEPT ![o] = Append(infos[o], [observer |-> a, key |-> key])]
        /\ infos \in [Objects -> Seq(Info)]
    BY <1>5 DEF AddObserverBlock, TypeOK, Info
  <2>3. infos' \in [Objects -> Seq([observer : Observers, key : Keys])]
    BY <2>1, <2>2 DEF Info
  <2>4. Add(o, a, key) /\ UNCHANGED observer
    BY <1>5 DEF AddObserverBlock
  <2>5. /\ override' \in [Classes -> Keys \cup {NoKey}] /\ isa' \in [Objects -> Nat]
        /\ asked' \in [Objects -> SUBSET (Observers \X Keys)]
        /\ told' \subseteq Observers \X Keys
        /\ UNCHANGED <<linked, creator, via, alive, observer>>
    BY <2>4, AddTyped
  <2> QED
    BY <2>3, <2>5 DEF TypeOK, Classes
<1>6. ASSUME NEW o \in Objects, NEW a \in Observers, NEW key \in Keys,
             RemoveObserver(o, a, key)
      PROVE  TypeOK'
  <2>1. isa' \in [Objects -> Nat]
    BY <1>6, ShownTyped DEF RemoveObserver, TypeOK
  <2> QED
    BY <1>6, <2>1 DEF RemoveObserver, TypeOK
<1> QED
  BY <1>1, <1>2, <1>3, <1>4, <1>5, <1>6 DEF Next

LEMMA InitTyped == Init => TypeOK
BY CustomKVOAssumption DEF Init, TypeOK

\* Every variable of the three categories keeps its type.
THEOREM TypeCorrect == Spec => []TypeOK
BY InitTyped, NextTyped, PTL DEF Spec
-----------------------------------------------------------------------------
(* The invariant. *)

\* The calls for one object leave the others alone, but for the setter that
\* their class may have got.
LEMMA OthersKept ==
    ASSUME NEW x \in Objects, ObjectInv(x), UNCHANGED via,
           isa'[x] = isa[x], asked'[x] = asked[x], observer'[x] = observer[x],
           infos'[x] = infos[x], x \in alive' => x \in alive,
           override[ClassOf[x]] \in Keys => override'[ClassOf[x]] \in Keys
    PROVE  ObjectInv(x)'
BY DEF ObjectInv

LEMMA OverrideGrows ==
    ASSUME TypeOK, NEW o \in Objects, NEW a, NEW key \in Keys, Add(o, a, key)
    PROVE  /\ override'[ClassOf[o]] \in Keys
           /\ \A x \in Objects : override[ClassOf[x]] \in Keys => override'[ClassOf[x]] \in Keys
<1>1. ClassOf[o] \in Classes /\ \A x \in Objects : ClassOf[x] \in Classes
  BY DEF Classes
<1>2. override' = [override EXCEPT ![ClassOf[o]] = IF @ = NoKey THEN key ELSE @]
  BY DEF Add
<1>3. override \in [Classes -> Keys \cup {NoKey}]
  BY DEF TypeOK
<1>4. override'[ClassOf[o]] \in Keys
  BY <1>1, <1>2, <1>3
<1>5. ASSUME NEW x \in Objects, override[ClassOf[x]] \in Keys
      PROVE  override'[ClassOf[x]] \in Keys
  BY <1>1, <1>2, <1>3, <1>4, <1>5
<1> QED
  BY <1>4, <1>5

LEMMA AddEffect ==
    ASSUME IInv, NEW o \in Objects, NEW a \in Observers, NEW key \in Keys, Add(o, a, key)
    PROVE  /\ isa'[o] = 1 /\ asked'[o] = asked[o] \cup {<<a, key>>}
           /\ <<o, a>> \in MayObserve /\ o \in alive
           /\ \A x \in Objects : x # o => isa'[x] = isa[x] /\ asked'[x] = asked[x]
<1>1. o \in alive /\ isa[o] \in {0, 1}
  BY DEF Add, IInv, ObjectInv
<1>2. Created(o) = 1
  BY <1>1 DEF Created, Shown
<1> QED
  BY <1>1, <1>2 DEF Add, IInv, TypeOK

LEMMA SetKeeps ==
    ASSUME IInv, NEW o \in Objects, NEW key \in Keys, Set(o, key), NEW x \in Objects
    PROVE  ObjectInv(x)'
BY OthersKept DEF Set, IInv

LEMMA DeallocKeeps ==
    ASSUME IInv, NEW o \in Objects, Dealloc(o), NEW x \in Objects
    PROVE  ObjectInv(x)'
<1>1. CASE x = o
  <2>1. x \notin alive' /\ asked'[x] = {}
    BY <1>1 DEF Dealloc, IInv, TypeOK
  <2> QED
    BY <2>1 DEF ObjectInv
<1>2. CASE x # o
  <2>1. /\ asked'[x] = asked[x] /\ UNCHANGED <<via, override>> /\ (x \in alive' => x \in alive)
    BY <1>2 DEF Dealloc, IInv, TypeOK
  <2>2. isa'[x] = isa[x] /\ observer'[x] = observer[x] /\ infos'[x] = infos[x]
    BY <1>2 DEF Dealloc, IInv, TypeOK
  <2> QED
    BY <2>1, <2>2, OthersKept DEF IInv
<1> QED
  BY <1>1, <1>2

LEMMA AddObserverKeeps ==
    ASSUME OneObserverEach, IInv, NEW o \in Objects, NEW a \in Observers, NEW key \in Keys,
           AddObserver(o, a, key), NEW x \in Objects
    PROVE  ObjectInv(x)'
<1>0. /\ Add(o, a, key) /\ UNCHANGED <<infos, via, alive>> /\ via[o] \in {"gv", "zb"}
      /\ observer' = [observer EXCEPT ![o] = a] /\ TypeOK
  BY DEF AddObserver, Add, IInv
<1>1. CASE x = o
  <2>1. ASSUME NEW r \in asked'[o]
        PROVE  <<o, r[1]>> \in MayObserve /\ observer'[o] = r[1]
    <3>1. observer'[o] = a /\ <<o, a>> \in MayObserve
      BY <1>0, AddEffect DEF TypeOK
    <3>2. CASE r = <<a, key>>
      BY <3>1, <3>2
    <3>3. CASE r \in asked[o]
      <4>1. <<o, r[1]>> \in MayObserve /\ r[1] \in Observers
        BY <3>3 DEF IInv, ObjectInv, TypeOK
      <4> QED
        BY <3>1, <4>1 DEF OneObserverEach
    <3>4. asked'[o] = asked[o] \cup {<<a, key>>}
      BY <1>0, AddEffect
    <3> QED
      BY <2>1, <3>2, <3>3, <3>4
  <2>2. isa'[o] = 1 /\ asked'[o] # {} /\ override'[ClassOf[o]] \in Keys
    BY <1>0, AddEffect, OverrideGrows
  <2> QED
    BY <1>0, <1>1, <2>1, <2>2 DEF ObjectInv
<1>2. CASE x # o
  <2>1. observer'[x] = observer[x]
    BY <1>0, <1>2 DEF TypeOK
  <2>2. isa'[x] = isa[x] /\ asked'[x] = asked[x]
        /\ (override[ClassOf[x]] \in Keys => override'[ClassOf[x]] \in Keys)
    BY <1>0, <1>2, AddEffect, OverrideGrows
  <2> QED
    BY <1>0, <2>1, <2>2, OthersKept DEF IInv
<1> QED
  BY <1>1, <1>2

LEMMA AddObserverBlockKeeps ==
    ASSUME IInv, NEW o \in Objects, NEW a \in Observers, NEW key \in Keys,
           AddObserverBlock(o, a, key), NEW x \in Objects
    PROVE  ObjectInv(x)'
<1> DEFINE new == [observer |-> a, key |-> key]
<1>0. /\ Add(o, a, key) /\ UNCHANGED <<observer, via, alive>> /\ via[o] = "pd" /\ o \in alive
      /\ infos' = [infos EXCEPT ![o] = Append(infos[o], new)] /\ TypeOK
  BY DEF AddObserverBlock, Add, IInv
<1>1. CASE x = o
  <2>1. infos'[o] = Append(infos[o], new) /\ infos[o] \in Seq(Info) /\ new \in Info
    BY <1>0, InfosTyped DEF TypeOK, Info
  <2>2. /\ Len(infos'[o]) = Len(infos[o]) + 1 /\ Len(infos[o]) \in Nat
        /\ infos'[o][Len(infos[o]) + 1] = new
        /\ \A i \in 1 .. Len(infos[o]) : infos'[o][i] = infos[o][i]
    BY <2>1
  <2>3. asked'[o] = asked[o] \cup {<<a, key>>} /\ <<o, a>> \in MayObserve
    BY <1>0, AddEffect
  <2>4. ASSUME NEW i \in 1 .. Len(infos'[o])
        PROVE  <<infos'[o][i].observer, infos'[o][i].key>> \in asked'[o]
    <3>1. CASE i = Len(infos[o]) + 1
      BY <2>2, <2>3, <3>1
    <3>2. CASE i \in 1 .. Len(infos[o])
      BY <1>0, <2>2, <2>3, <3>2 DEF IInv, ObjectInv
    <3> QED
      BY <2>2, <2>4, <3>1, <3>2
  <2>5. \A r \in asked'[o] : <<o, r[1]>> \in MayObserve
    BY <2>3 DEF IInv, ObjectInv
  <2>6. isa'[o] = 1 /\ asked'[o] # {} /\ override'[ClassOf[o]] \in Keys
        /\ Len(infos'[o]) > 0
    <3>1. isa'[o] = 1 /\ override'[ClassOf[o]] \in Keys
      BY <1>0, AddEffect, OverrideGrows
    <3>2. asked'[o] # {}
      BY <2>3
    <3>3. Len(infos'[o]) > 0
      BY <2>2
    <3> QED
      BY <3>1, <3>2, <3>3
  <2> QED
    BY <1>0, <1>1, <2>4, <2>5, <2>6 DEF ObjectInv
<1>2. CASE x # o
  <2>1. infos'[x] = infos[x]
    BY <1>0, <1>2 DEF TypeOK
  <2>2. isa'[x] = isa[x] /\ asked'[x] = asked[x]
        /\ (override[ClassOf[x]] \in Keys => override'[ClassOf[x]] \in Keys)
    BY <1>0, <1>2, AddEffect, OverrideGrows
  <2> QED
    BY <1>0, <2>1, <2>2, OthersKept DEF IInv
<1> QED
  BY <1>1, <1>2

LEMMA RemoveObserverKeeps ==
    ASSUME OneObserverEach, OneKey, IInv, NEW o \in Objects, NEW a \in Observers,
           NEW key \in Keys, RemoveObserver(o, a, key), NEW x \in Objects
    PROVE  ObjectInv(x)'
<1>0. /\ o \in alive /\ <<o, a>> \in MayObserve /\ via[o] = "gv"
      /\ isa' = [isa EXCEPT ![o] = Shown(o)]
      /\ asked' = [asked EXCEPT ![o] = @ \ {<<a, key>>}]
      /\ UNCHANGED <<via, override, observer, infos, alive>> /\ TypeOK
  BY DEF RemoveObserver, IInv
<1>1. CASE x = o
  <2>1. ASSUME NEW r \in asked[o] PROVE r = <<a, key>>
    <3>1. r \in Observers \X Keys /\ <<o, r[1]>> \in MayObserve
      BY <1>0, <2>1 DEF TypeOK, IInv, ObjectInv
    <3>2. r[1] = a /\ r[2] = key
      BY <1>0, <3>1 DEF OneObserverEach, OneKey
    <3> QED
      BY <3>1, <3>2
  <2>2. asked'[o] = {}
    BY <1>0, <2>1 DEF TypeOK
  <2>3. isa'[o] = 0
    <3>1. isa[o] \in {0, 1}
      BY <1>0 DEF IInv, ObjectInv
    <3> QED
      BY <1>0, <3>1 DEF Shown, TypeOK
  <2> QED
    BY <1>0, <1>1, <2>2, <2>3 DEF ObjectInv
<1>2. CASE x # o
  <2>1. isa'[x] = isa[x] /\ asked'[x] = asked[x]
    BY <1>0, <1>2 DEF TypeOK
  <2> QED
    BY <1>0, <2>1, OthersKept DEF IInv
<1> QED
  BY <1>1, <1>2

LEMMA NextKeeps ==
    ASSUME OneObserverEach, OneKey, IInv, [Next]_vars
    PROVE  IInv'
<1>1. TypeOK'
  BY NextTyped DEF IInv
<1>2. ASSUME NEW x \in Objects PROVE ObjectInv(x)'
  <2>1. CASE UNCHANGED vars
    BY <2>1, OthersKept DEF vars, IInv
  <2>2. CASE Next
    BY <2>2, SetKeeps, DeallocKeeps, AddObserverKeeps, AddObserverBlockKeeps,
       RemoveObserverKeeps DEF Next
  <2> QED
    BY <2>1, <2>2
<1> QED
  BY <1>1, <1>2 DEF IInv

LEMMA InitInv == Init => IInv
<1> SUFFICES ASSUME Init PROVE \A o \in Objects : ObjectInv(o)
  BY InitTyped DEF IInv
<1>1. \A o \in Objects : isa[o] = 0 /\ asked[o] = {} /\ infos[o] = <<>>
  BY DEF Init
<1> QED
  BY <1>1 DEF ObjectInv

THEOREM Invariant ==
    ASSUME OneObserverEach, OneKey
    PROVE  Spec => []IInv
<1>1. IInv /\ [Next]_vars => IInv'
  BY NextKeeps
<1> QED
  BY <1>1, InitInv, PTL DEF Spec

\* With one observer for each object and one key, an object's isa is the
\* notifying class below its own class while it is observed, and its own class
\* otherwise, however often it is observed and given back.
THEOREM IsaAlwaysShows ==
    ASSUME OneObserverEach, OneKey
    PROVE  Spec => []IsaShowsObserved
<1>1. TypeOK /\ (\A o \in Objects : ObjectInv(o)) => IsaShowsObserved
  BY DEF TypeOK, ObjectInv, IsaShowsObserved
<1> QED
  BY <1>1, Invariant, PTL DEF IInv
-----------------------------------------------------------------------------
(* Who is told. *)

\* The setter in effect tells the observer that was added.
LEMMA ToldIsAsked ==
    ASSUME OneObserverEach, OneKey, IInv, NEW o \in alive, NEW key \in Keys, Served(o),
           asked[o] # {}
    PROVE  Told(o, key) = asked[o]
<1>0. TypeOK /\ o \in Objects
  BY DEF IInv, TypeOK
<1>1. PICK a \in Observers : <<o, a>> \in MayObserve /\ asked[o] = {<<a, key>>}
  <2>1. PICK r \in asked[o] : TRUE
    OBVIOUS
  <2>2. \A q \in asked[o] : q \in Observers \X Keys /\ <<o, q[1]>> \in MayObserve
    BY <1>0 DEF TypeOK, IInv, ObjectInv
  <2>3. ASSUME NEW q \in asked[o] PROVE q = <<r[1], key>>
    <3>1. /\ q \in Observers \X Keys /\ <<o, q[1]>> \in MayObserve
          /\ r \in Observers \X Keys /\ <<o, r[1]>> \in MayObserve
      BY <2>1, <2>2, <2>3
    <3>2. q = <<q[1], q[2]>> /\ q[1] \in Observers /\ q[2] \in Keys /\ r[1] \in Observers
      BY <3>1
    <3>3. q[1] = r[1] /\ q[2] = key
      BY <1>0, <3>1, <3>2 DEF OneObserverEach, OneKey
    <3> QED
      BY <3>2, <3>3
  <2>4. asked[o] = {<<r[1], key>>}
    BY <2>1, <2>3
  <2> QED
    BY <2>1, <2>2, <2>4
<1>2. CASE creator # "pd"
  <2>1. observer[o] = a
    <3>1. via[o] # "pd"
      BY <1>2 DEF Served
    <3>2. <<a, key>> \in asked[o]
      BY <1>1
    <3>3. observer[o] = <<a, key>>[1]
      BY <1>0, <3>1, <3>2 DEF IInv, ObjectInv
    <3> QED
      BY <3>3
  <2>2. <<a, key>> # <<Nil, key>>
    BY CustomKVOAssumption
  <2> QED
    BY <1>1, <1>2, <2>1, <2>2 DEF Told
<1>3. CASE creator = "pd"
  <2> DEFINE I == {i \in 1 .. Len(infos[o]) : infos[o][i].key = key}
  <2>1. \A i \in 1 .. Len(infos[o]) : <<infos[o][i].observer, infos[o][i].key>> = <<a, key>>
    BY <1>0, <1>1, <1>3 DEF IInv, ObjectInv, Served
  <2>2. I # {}
    <3>1. Len(infos[o]) > 0 /\ Len(infos[o]) \in Nat
      BY <1>0, <1>3, InfosTyped DEF IInv, ObjectInv, Served
    <3>2. 1 \in 1 .. Len(infos[o])
      BY <3>1
    <3> QED
      BY <2>1, <3>2
  <2>3. Min(I) \in I
    <3>1. I \in SUBSET Nat
      BY <1>0, InfosTyped
    <3> HIDE DEF I
    <3> QED
      BY <2>2, <3>1, FirstOf
  <2>4. Told(o, key) = {<<infos[o][Min(I)].observer, key>>}
    <3>1. Min(I) # 0
      BY <2>3
    <3> QED
      BY <1>3, <2>2, <3>1 DEF Told, SelectInSeq
  <2>5. infos[o][Min(I)].observer = a
    BY <2>1, <2>3
  <2> QED
    BY <1>1, <2>4, <2>5
<1> QED
  BY <1>2, <1>3

\* With one observer for each object and one key, a change of an object that is
\* served by the setter in effect is told to its observers and to nobody else,
\* whatever was observed and given back before.
THEOREM ChangesTold ==
    ASSUME OneObserverEach, OneKey
    PROVE  Spec => EveryChangeTold
<1>1. ASSUME IInv, NEW o \in Objects, NEW key \in Keys, Set(o, key), Served(o)
      PROVE  told' = {r \in asked[o] : r[2] = key}
  <2>1. o \in alive /\ TypeOK
    BY <1>1 DEF Set, IInv
  <2>2. {r \in asked[o] : r[2] = key} = asked[o]
    <3>1. \A r \in asked[o] : r \in Observers \X Keys
      BY <1>1, <2>1 DEF TypeOK
    <3> QED
      BY <3>1 DEF OneKey
  <2>3. CASE asked[o] = {}
    <3>1. isa[o] = 0
      BY <1>1, <2>1, <2>3 DEF IInv, ObjectInv
    <3> QED
      BY <1>1, <2>3, <3>1 DEF Set
  <2>4. CASE asked[o] # {}
    <3>1. isa[o] = 1 /\ override[ClassOf[o]] = key
      BY <1>1, <2>1, <2>4 DEF IInv, ObjectInv, OneKey
    <3>2. Told(o, key) = asked[o]
      BY <1>1, <2>1, <2>4, ToldIsAsked
    <3> QED
      BY <1>1, <2>2, <3>1, <3>2 DEF Set
  <2> QED
    BY <2>3, <2>4
<1>2. IInv /\ [Next]_vars =>
        [\A o \in Objects, key \in Keys :
            Set(o, key) /\ Served(o) => told' = {r \in asked[o] : r[2] = key}]_vars
  BY <1>1
<1> QED
  BY <1>2, Invariant, PTL DEF Spec, EveryChangeTold
=============================================================================
