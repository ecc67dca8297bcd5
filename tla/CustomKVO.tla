------------------------------ MODULE CustomKVO ------------------------------
(***************************************************************************)
(* The three home-made KVO categories on NSObject of the KVO project:      *)
(*   "gv"  Demo3/NSObject+KVO.m             gv_addObserver:...             *)
(*   "zb"  Demo4/NSObject+AutoDeallocKVO.m  zb_addObserver:...             *)
(*   "pd"  Demo5/NSObject+BlockKVO.m        pd_addObserverBlock:...        *)
(*                                                                         *)
(* All three make the same class, NSKVONotifying_<class>, with a method    *)
(* createClass: that each of them adds to NSObject: where several are      *)
(* linked into one program, as the project does, one createClass: serves   *)
(* them all, and nothing says which.  An object is observed through one    *)
(* category.                                                               *)
(*                                                                         *)
(* Everything runs on the main thread; an action is one call.  Observers   *)
(* live longer than what they observe: the demos' controllers keep it.     *)
(***************************************************************************)
EXTENDS Integers, Sequences, SequencesExt

CONSTANTS
    Objects,
    ClassOf,    \* ClassOf[o]: the class o was made of
    Observers,
    MayObserve, \* who observes what
    Nil,
    Keys,       \* properties of the objects
    NoKey,
    Builds      \* the sets of categories a program may be linked from

ASSUME CustomKVOAssumption ==
    /\ Nil \notin Observers
    /\ NoKey \notin Keys
    /\ MayObserve \subseteq Objects \X Observers
    /\ Builds \subseteq SUBSET {"gv", "zb", "pd"} \ {{}}

VARIABLES
    linked,    \* the categories of this program
    creator,   \* the one whose createClass: is in effect
    via,       \* via[o]: the category through which o is observed
    override,  \* override[c]: the key whose setter NSKVONotifying_c overrides
    isa,       \* isa[o]: how far o's isa is below its own class
    observer,  \* observer[o]: the object that gv and zb associate (ASSIGN)
    infos,     \* infos[o]: the array that pd associates
    asked,     \* history: <<observer, key>> added to o and not removed since
    alive,
    told       \* the notifications of the last set

vars == <<linked, creator, via, override, isa, observer, infos, asked, alive, told>>

Classes == {ClassOf[o] : o \in Objects}

Init ==
    /\ linked \in Builds
    /\ creator \in linked
    /\ via \in [Objects -> linked]
    /\ override = [c \in Classes |-> NoKey]
    /\ isa = [o \in Objects |-> 0]
    /\ observer = [o \in Objects |-> Nil]
    /\ infos = [o \in Objects |-> <<>>]
    /\ asked = [o \in Objects |-> {}]
    /\ alive = Objects
    /\ told = {}

\* [o class]: a notifying class answers with its superclass.
Shown(o) == IF isa[o] > 0 THEN isa[o] - 1 ELSE isa[o]

\* Mutant: the notifying class is made below the object's isa.
CreatedBelow(o) == isa[o] + 1

\* The class createClass: names, below [self class].
Created(o) == Shown(o) + 1

\* Mutant: only the call that makes the class changes the object's isa.
AddToFirst(o, a, key) ==
    /\ o \in alive
    /\ <<o, a>> \in MayObserve
    /\ override' = [override EXCEPT ![ClassOf[o]] = IF @ = NoKey THEN key ELSE @]
    /\ isa' = IF override[ClassOf[o]] = NoKey THEN [isa EXCEPT ![o] = Created(o)] ELSE isa
    /\ asked' = [asked EXCEPT ![o] = @ \cup {<<a, key>>}]
    /\ told' = {}
    /\ UNCHANGED <<linked, creator, via, alive>>

\* The three ways to add an observer begin alike: createClass: makes the class
\* if need be, with a setter for the key it is called with, and the object gets it.
Add(o, a, key) ==
    /\ o \in alive
    /\ <<o, a>> \in MayObserve
    /\ override' = [override EXCEPT ![ClassOf[o]] = IF @ = NoKey THEN key ELSE @]
    /\ isa' = [isa EXCEPT ![o] = Created(o)]
    /\ asked' = [asked EXCEPT ![o] = @ \cup {<<a, key>>}]
    /\ told' = {}
    /\ UNCHANGED <<linked, creator, via, alive>>

\* gv_addObserver, zb_addObserver
AddObserver(o, a, key) ==
    /\ via[o] \in {"gv", "zb"}
    /\ Add(o, a, key)
    /\ observer' = [observer EXCEPT ![o] = a]
    /\ UNCHANGED infos

\* pd_addObserverBlock
AddObserverBlock(o, a, key) ==
    /\ via[o] = "pd"
    /\ Len(infos[o]) < 2                              \* bound
    /\ Add(o, a, key)
    /\ infos' = [infos EXCEPT ![o] = Append(@, [observer |-> a, key |-> key])]
    /\ UNCHANGED observer

\* Mutant: the superclass of the isa, as the line commented out has it.
RemoveStripping(o, a, key) ==
    /\ o \in alive
    /\ <<o, a>> \in MayObserve
    /\ via[o] = "gv"
    /\ isa' = [isa EXCEPT ![o] = @ - 1]
    /\ asked' = [asked EXCEPT ![o] = @ \ {<<a, key>>}]
    /\ told' = {}
    /\ UNCHANGED <<linked, creator, via, override, observer, infos, alive>>

\* gv_removeObserver, the only one of the three that a header declares.
RemoveObserver(o, a, key) ==
    /\ o \in alive
    /\ <<o, a>> \in MayObserve
    /\ via[o] = "gv"
    /\ isa' = [isa EXCEPT ![o] = Shown(o)]
    /\ asked' = [asked EXCEPT ![o] = @ \ {<<a, key>>}]
    /\ told' = {}
    /\ UNCHANGED <<linked, creator, via, override, observer, infos, alive>>

\* Whom the setter tells: tz_setter and zb_setter the associated observer,
\* pd_setter the first info of the key.
Told(o, key) ==
    IF creator # "pd"
    THEN {<<observer[o], key>>} \ {<<Nil, key>>}
    ELSE LET i == SelectInSeq(infos[o], LAMBDA info : info.key = key)
         IN IF i = 0 THEN {} ELSE {<<infos[o][i].observer, key>>}

\* o's setter is called (with an object, not nil).
Set(o, key) ==
    /\ o \in alive
    /\ told' = IF isa[o] = 1 /\ override[ClassOf[o]] = key THEN Told(o, key) ELSE {}
    /\ UNCHANGED <<linked, creator, via, override, isa, observer, infos, asked, alive>>

\* The last reference goes.  myDealloc and pdMyDealloc give back the isa and
\* end there; NSObject's dealloc removes the associations.
Dealloc(o) ==
    /\ o \in alive
    /\ alive' = alive \ {o}
    /\ asked' = [asked EXCEPT ![o] = {}]
    /\ told' = {}
    /\ IF isa[o] > 0 /\ creator # "gv"
       THEN isa' = [isa EXCEPT ![o] = Shown(o)] /\ UNCHANGED <<observer, infos>>
       ELSE /\ observer' = [observer EXCEPT ![o] = Nil]
            /\ infos' = [infos EXCEPT ![o] = <<>>]
            /\ UNCHANGED isa
    /\ UNCHANGED <<linked, creator, via, override>>
-----------------------------------------------------------------------------
Next == \E o \in Objects :
    \/ Dealloc(o)
    \/ \E key \in Keys :
        \/ Set(o, key)
        \/ \E a \in Observers :
            \/ AddObserver(o, a, key)
            \/ AddObserverBlock(o, a, key)
            \/ RemoveObserver(o, a, key)

Spec == Init /\ [][Next]_vars
-----------------------------------------------------------------------------
\* Every variable has its type.
TypeOK ==
    /\ linked \in Builds /\ creator \in linked
    /\ via \in [Objects -> linked]
    /\ override \in [Classes -> Keys \cup {NoKey}]
    /\ isa \in [Objects -> Nat]
    /\ observer \in [Objects -> Observers \cup {Nil}]
    /\ infos \in [Objects -> Seq([observer : Observers, key : Keys])]
    /\ asked \in [Objects -> SUBSET (Observers \X Keys)]
    /\ alive \subseteq Objects
    /\ told \subseteq Observers \X Keys

\* However often an object is observed and given back, its isa is its own class
\* or the notifying class right below it, and it is the latter if and only if
\* somebody observes it: so [o class] always shows the object's own class.
IsaShowsObserved ==
    \A o \in alive : isa[o] = IF asked[o] # {} THEN 1 ELSE 0

\* The setter of createClass: in effect looks for observers where the
\* category that observes o has put them.
Served(o) == (creator = "pd") = (via[o] = "pd")

\* What the comment in the setters says, as far as it is true: when a value
\* changes, the observers of that key of that object are told, and nobody
\* else is, if the setter in effect knows where they are.
EveryChangeTold ==
    [][\A o \in Objects, key \in Keys :
        Set(o, key) /\ Served(o) => told' = {r \in asked[o] : r[2] = key}]_vars
=============================================================================
