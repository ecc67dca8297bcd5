------------------------------ MODULE RefCount ------------------------------
(***************************************************************************)
(* runtime/objc-object.h and NSObject.mm: the reference count of an object *)
(* is kept in a few bits of its isa, overflows by halves into a side       *)
(* table, and moves there altogether when the isa becomes a raw pointer.   *)
(*                                                                         *)
(* The isa is changed by compare and swap without any lock, the side table *)
(* under its lock.  A round of a compare and swap loop that touches        *)
(* nothing else is one action, the round that succeeds; where a loop takes *)
(* the lock or changes the table between its load and its store, it is     *)
(* several.  One object, the variables that weakly refer to it (as one),   *)
(* and threads that release only what they own.                            *)
(***************************************************************************)
EXTENDS Naturals, FiniteSets

CONSTANTS
    Threads,
    NoThread,
    RC_HALF,   \* half the range of extra_rc
    MaxOwned   \* bound: references a thread keeps at a time

ASSUME ConstantsAssumption ==
    /\ NoThread \notin Threads
    /\ RC_HALF \in Nat \ {0}
    /\ MaxOwned \in Nat

VARIABLES
    isa,         \* the bits of isa_t
    table,       \* the object's entry in SideTable::refcnts
    lock,        \* the thread in the side table's lock
    loaded,      \* oldisa of the thread in the lock
    pc,          \* pc[t]: where thread t is
    try,         \* try[t]: is the retain of t a tryRetain?
    owned,       \* owned[t]: references t must release
    deallocator, \* the thread that runs -dealloc
    weakVar,     \* does a weak variable hold the object?
    freed

local == <<pc, try, owned, deallocator>>
vars == <<isa, table, lock, loaded, local, weakVar, freed>>

RC_FULL == 2 * RC_HALF - 1   \* the carry out of extra_rc

IsaOf(r, n) == [raw |-> r, extra_rc |-> n, has_sidetable_rc |-> FALSE,
                deallocating |-> FALSE, weakly_referenced |-> FALSE, has_assoc |-> FALSE]
NoEntry == [in |-> FALSE, rc |-> 0, deallocating |-> FALSE, weak |-> FALSE]

\* initIsa, and the thread that has the new object's only reference.
Init ==
    /\ isa = IsaOf(FALSE, 0)
    /\ table = NoEntry
    /\ lock = NoThread
    /\ loaded = isa
    /\ pc = [t \in Threads |-> "idle"]
    /\ try = [t \in Threads |-> FALSE]
    /\ \E t \in Threads : owned = [u \in Threads |-> IF u = t THEN 1 ELSE 0]
    /\ deallocator = NoThread
    /\ weakVar = FALSE
    /\ freed = FALSE

Goto(t, p) == pc' = [pc EXCEPT ![t] = p]
Free       == lock = NoThread
Unlock(t)  == lock' = IF lock = t THEN NoThread ELSE lock

\* A thread may use the object when it owns it, or runs its -dealloc.
MayUse(t) == pc[t] = "idle" /\ ~freed /\ (owned[t] > 0 \/ deallocator = t)

---------------------------------------------------------------------------
\* The clients.

CallRetain(t) ==
    /\ MayUse(t)
    /\ owned[t] < MaxOwned
    /\ Goto(t, "retain")
    /\ UNCHANGED <<isa, table, lock, loaded, try, owned, deallocator, weakVar, freed>>

CallRelease(t) ==
    /\ MayUse(t)
    /\ owned[t] > 0
    /\ owned' = [owned EXCEPT ![t] = @ - 1]
    /\ Goto(t, "release")
    /\ UNCHANGED <<isa, table, lock, loaded, try, deallocator, weakVar, freed>>

\* t passes a reference on to u.
HandOver(t, u) ==
    /\ MayUse(t) /\ deallocator # t /\ t # u
    /\ owned[t] > 0 /\ owned[u] < MaxOwned
    /\ owned' = [owned EXCEPT ![t] = @ - 1, ![u] = @ + 1]
    /\ UNCHANGED <<isa, table, lock, loaded, pc, try, deallocator, weakVar, freed>>

SetHasAssociatedObjects(t) ==
    /\ MayUse(t) /\ ~isa.raw
    /\ isa' = [isa EXCEPT !.has_assoc = TRUE]
    /\ UNCHANGED <<table, lock, loaded, local, weakVar, freed>>

\* storeWeak: what it does under the lock to the object.
StoreWeak(t) ==
    /\ MayUse(t) /\ Free
    /\ deallocator = NoThread   \* weak_register_no_lock: not rootIsDeallocating
    /\ isa' = IF isa.raw THEN isa ELSE [isa EXCEPT !.weakly_referenced = TRUE]
    /\ table' = IF isa.raw THEN [table EXCEPT !.in = TRUE, !.weak = TRUE] ELSE table
    /\ weakVar' = TRUE
    /\ UNCHANGED <<lock, loaded, local, freed>>

---------------------------------------------------------------------------
\* objc_loadWeakRetained: the variable is read, and read again in the lock.

LoadWeak(t) ==
    /\ pc[t] = "idle" /\ weakVar /\ owned[t] < MaxOwned
    /\ Goto(t, "load")
    /\ UNCHANGED <<isa, table, lock, loaded, try, owned, deallocator, weakVar, freed>>

LoadWeakLocked(t) ==
    /\ pc[t] = "load" /\ Free
    /\ IF weakVar
       THEN /\ lock' = t
            /\ try' = [try EXCEPT ![t] = TRUE]
            /\ Goto(t, "retain")
       ELSE /\ Goto(t, "idle")
            /\ UNCHANGED <<lock, try>>
    /\ UNCHANGED <<isa, table, loaded, owned, deallocator, weakVar, freed>>

---------------------------------------------------------------------------
\* rootRetain.

\* The retain is done; whoever took the lock leaves it.
Retained(t) ==
    /\ Goto(t, "idle")
    /\ Unlock(t)
    /\ try' = [try EXCEPT ![t] = FALSE]
    /\ owned' = [owned EXCEPT ![t] = @ + 1]
    /\ UNCHANGED <<loaded, deallocator, weakVar, freed>>

\* Mutant: the carry is not looked at.
RetainUnchecked(t) ==
    /\ pc[t] = "retain" /\ ~isa.raw
    /\ ~(try[t] /\ isa.deallocating)
    /\ isa' = [isa EXCEPT !.extra_rc = @ + 1]
    /\ Retained(t)
    /\ UNCHANGED table

RetainInline(t) ==
    /\ pc[t] = "retain" /\ ~isa.raw
    /\ ~(try[t] /\ isa.deallocating)
    /\ isa.extra_rc < RC_FULL
    /\ isa' = [isa EXCEPT !.extra_rc = @ + 1]
    /\ Retained(t)
    /\ UNCHANGED table

RetainLock(t) ==
    /\ pc[t] = "retain" /\ ~isa.raw /\ isa.extra_rc = RC_FULL
    /\ Free
    /\ lock' = t
    /\ UNCHANGED <<isa, table, loaded, local, weakVar, freed>>

RetainOverflow(t) ==
    /\ pc[t] = "retain" /\ ~isa.raw
    /\ ~(try[t] /\ isa.deallocating)
    /\ isa.extra_rc = RC_FULL /\ lock = t
    /\ isa' = [isa EXCEPT !.extra_rc = RC_HALF, !.has_sidetable_rc = TRUE]
    /\ Goto(t, "transcribe")
    /\ UNCHANGED <<table, lock, loaded, try, owned, deallocator, weakVar, freed>>

\* sidetable_addExtraRC_nolock(RC_HALF)
Transcribe(t) ==
    /\ pc[t] = "transcribe"
    /\ table' = [table EXCEPT !.in = TRUE, !.rc = @ + RC_HALF]
    /\ Retained(t)
    /\ UNCHANGED isa

TryFails(t) ==
    /\ pc[t] = "retain" /\ try[t]
    /\ isa.deallocating \/ table.deallocating
    /\ Goto(t, "idle")
    /\ Unlock(t)
    /\ try' = [try EXCEPT ![t] = FALSE]
    /\ UNCHANGED <<isa, table, loaded, owned, deallocator, weakVar, freed>>

\* The isa became a raw pointer: leave the lock, if taken, and start over.
RetainRaw(t) ==
    /\ pc[t] = "retain" /\ ~try[t] /\ isa.raw
    /\ Unlock(t)
    /\ Goto(t, "sidetable_retain")
    /\ UNCHANGED <<isa, table, loaded, try, owned, deallocator, weakVar, freed>>

\* sidetable_retain, and sidetable_tryRetain whose caller is in the lock.
SidetableRetain(t) ==
    /\ \/ pc[t] = "sidetable_retain" /\ Free
       \/ pc[t] = "retain" /\ try[t] /\ isa.raw /\ ~table.deallocating
    /\ table' = [table EXCEPT !.in = TRUE, !.rc = @ + 1]
    /\ Retained(t)
    /\ UNCHANGED isa

---------------------------------------------------------------------------
\* rootRelease.

Released(t) ==
    /\ Goto(t, "idle")
    /\ Unlock(t)
    /\ UNCHANGED <<loaded, try, owned, weakVar, freed>>

ReleaseInline(t) ==
    /\ pc[t] = "release" /\ ~isa.raw /\ isa.extra_rc > 0
    /\ isa' = [isa EXCEPT !.extra_rc = @ - 1]
    /\ Released(t)
    /\ UNCHANGED <<table, deallocator>>

Underflow(t) == pc[t] = "release" /\ ~isa.raw /\ isa.extra_rc = 0

ReleaseLock(t) ==
    /\ Underflow(t) /\ isa.has_sidetable_rc
    /\ Free
    /\ lock' = t
    /\ UNCHANGED <<isa, table, loaded, local, weakVar, freed>>

\* sidetable_subExtraRC_nolock(RC_HALF)
Borrow(t) ==
    /\ Underflow(t) /\ isa.has_sidetable_rc /\ lock = t
    /\ loaded' = isa
    /\ IF table.rc > 0
       THEN /\ table' = [table EXCEPT !.rc = @ - RC_HALF]
            /\ Goto(t, "borrowed")
       ELSE /\ Goto(t, "empty")
            /\ UNCHANGED table
    /\ UNCHANGED <<isa, lock, try, owned, deallocator, weakVar, freed>>

\* Mutant: the count is stored whatever others made of the isa meanwhile.
StoreBorrowedBlind(t) ==
    /\ pc[t] = "borrowed"
    /\ isa' = [isa EXCEPT !.extra_rc = RC_HALF - 1]
    /\ Released(t)
    /\ UNCHANGED <<table, deallocator>>

\* The first store replaces what was loaded; the second one adds to what
\* others have made of it meanwhile.
StoreBorrowed(t) ==
    /\ pc[t] = "borrowed"
    /\ \/ /\ isa = loaded
          /\ isa' = [isa EXCEPT !.extra_rc = RC_HALF - 1]
       \/ /\ isa.extra_rc + RC_HALF - 1 <= RC_FULL
          /\ isa' = [isa EXCEPT !.extra_rc = @ + RC_HALF - 1]
    /\ Released(t)
    /\ UNCHANGED <<table, deallocator>>

\* Both stores failed.  A store may fail with nothing changed: the access
\* to the table can end the reservation of a load-exclusive.
PutBack(t) ==
    /\ pc[t] = "borrowed"
    /\ table' = [table EXCEPT !.in = TRUE, !.rc = @ + RC_HALF]
    /\ Goto(t, "release")
    /\ UNCHANGED <<isa, lock, loaded, try, owned, deallocator, weakVar, freed>>

\* No count left anywhere.  If the object is dying already this is
\* overrelease_error, which logs.
Dies(t) ==
    /\ isa' = [isa EXCEPT !.deallocating = TRUE]
    /\ deallocator' = IF isa.deallocating THEN deallocator ELSE t
    /\ Released(t)
    /\ UNCHANGED table

ReleaseLast(t) ==
    \/ Underflow(t) /\ ~isa.has_sidetable_rc /\ Dies(t)
    \/ pc[t] = "empty" /\ isa = loaded /\ Dies(t)

\* That store fails, as one may: retry, still in the lock.
Retry(t) ==
    /\ pc[t] = "empty"
    /\ Goto(t, "release")
    /\ UNCHANGED <<isa, table, lock, loaded, try, owned, deallocator, weakVar, freed>>

ReleaseRaw(t) ==
    /\ pc[t] = "release" /\ isa.raw
    /\ Unlock(t)
    /\ Goto(t, "sidetable_release")
    /\ UNCHANGED <<isa, table, loaded, try, owned, deallocator, weakVar, freed>>

\* A release too many of a raw object wraps its count, to a pinned one that
\* no longer changes; here the count stays 0 and the object dying.
SidetableRelease(t) ==
    /\ pc[t] = "sidetable_release" /\ Free
    /\ IF table.rc = 0
       THEN /\ table' = [table EXCEPT !.in = TRUE, !.deallocating = TRUE]
            /\ deallocator' = IF table.deallocating THEN deallocator ELSE t
       ELSE /\ table' = [table EXCEPT !.rc = @ - 1]
            /\ UNCHANGED deallocator
    /\ Released(t)
    /\ UNCHANGED isa

---------------------------------------------------------------------------
\* changeIsa to a class whose instances must have a raw isa.

ChangeIsa(t) ==
    /\ MayUse(t) /\ ~isa.raw /\ Free
    /\ lock' = t
    /\ Goto(t, "change")
    /\ UNCHANGED <<isa, table, loaded, try, owned, deallocator, weakVar, freed>>

StoreRaw(t) ==
    /\ pc[t] = "change"
    /\ loaded' = isa
    /\ isa' = IsaOf(TRUE, 0)
    /\ Goto(t, "move")
    /\ UNCHANGED <<table, lock, try, owned, deallocator, weakVar, freed>>

\* Mutant: the table's count is replaced, not added to.
MoveOverwriting(t) ==
    /\ pc[t] = "move"
    /\ table' = [in |-> TRUE, rc |-> loaded.extra_rc,
                 deallocating |-> loaded.deallocating, weak |-> loaded.weakly_referenced]
    /\ Goto(t, "idle")
    /\ Unlock(t)
    /\ UNCHANGED <<isa, loaded, try, owned, deallocator, weakVar, freed>>

\* sidetable_moveExtraRC_nolock
MoveExtraRC(t) ==
    /\ pc[t] = "move"
    /\ table' = [in |-> TRUE, rc |-> table.rc + loaded.extra_rc,
                 deallocating |-> loaded.deallocating, weak |-> loaded.weakly_referenced]
    /\ Goto(t, "idle")
    /\ Unlock(t)
    /\ UNCHANGED <<isa, loaded, try, owned, deallocator, weakVar, freed>>

---------------------------------------------------------------------------
\* -[NSObject dealloc]: the fast path frees at once.

RootDealloc(t) ==
    /\ pc[t] = "idle" /\ deallocator = t /\ owned[t] = 0 /\ ~freed
    /\ Goto(t, IF isa.raw \/ isa.weakly_referenced \/ isa.has_assoc \/ isa.has_sidetable_rc
               THEN "dispose" ELSE "free")
    /\ UNCHANGED <<isa, table, lock, loaded, try, owned, deallocator, weakVar, freed>>

\* Mutant: without weak references the table is not cleared.
ClearWeakOnly(t) ==
    /\ pc[t] = "dispose"
    /\ IF isa.weakly_referenced \/ table.weak
       THEN /\ Free
            /\ weakVar' = FALSE
            /\ table' = NoEntry
       ELSE UNCHANGED <<weakVar, table>>
    /\ Goto(t, "free")
    /\ UNCHANGED <<isa, lock, loaded, try, owned, deallocator, freed>>

\* clearDeallocating: weak_clear_no_lock and the erased entry.
ClearDeallocating(t) ==
    /\ pc[t] = "dispose"
    /\ IF isa.raw \/ isa.weakly_referenced \/ isa.has_sidetable_rc
       THEN /\ Free
            /\ weakVar' = IF isa.weakly_referenced \/ table.weak THEN FALSE ELSE weakVar
            /\ table' = IF isa.raw \/ isa.has_sidetable_rc THEN NoEntry ELSE table
       ELSE UNCHANGED <<weakVar, table>>
    /\ Goto(t, "free")
    /\ UNCHANGED <<isa, lock, loaded, try, owned, deallocator, freed>>

FreeObject(t) ==
    /\ pc[t] = "free"
    /\ freed' = TRUE
    /\ Goto(t, "idle")
    /\ UNCHANGED <<isa, table, lock, loaded, try, owned, deallocator, weakVar>>

---------------------------------------------------------------------------
RetainStep(t) ==
    \/ CallRetain(t) \/ RetainInline(t) \/ RetainLock(t) \/ RetainOverflow(t)
    \/ Transcribe(t) \/ RetainRaw(t) \/ SidetableRetain(t)

WeakStep(t) == StoreWeak(t) \/ LoadWeak(t) \/ LoadWeakLocked(t) \/ TryFails(t)

ReleaseStep(t) ==
    \/ CallRelease(t) \/ ReleaseInline(t) \/ ReleaseLock(t) \/ Borrow(t)
    \/ StoreBorrowed(t) \/ PutBack(t) \/ ReleaseLast(t) \/ Retry(t)
    \/ ReleaseRaw(t) \/ SidetableRelease(t)

OtherStep(t) ==
    \/ SetHasAssociatedObjects(t)
    \/ ChangeIsa(t) \/ StoreRaw(t) \/ MoveExtraRC(t)
    \/ RootDealloc(t) \/ ClearDeallocating(t) \/ FreeObject(t)
    \/ \E u \in Threads : HandOver(t, u)

Next == \E t \in Threads : RetainStep(t) \/ WeakStep(t) \/ ReleaseStep(t) \/ OtherStep(t)

Spec == Init /\ [][Next]_vars

---------------------------------------------------------------------------
Steps == {"idle", "retain", "transcribe", "sidetable_retain", "load", "release", "borrowed",
          "empty", "sidetable_release", "change", "move", "dispose", "free"}

IsaBits == [raw : BOOLEAN, extra_rc : 0..RC_FULL, has_sidetable_rc : BOOLEAN,
        deallocating : BOOLEAN, weakly_referenced : BOOLEAN, has_assoc : BOOLEAN]

\* The variables keep their types: in particular extra_rc fits its bits and
\* the table's count does not fall below zero.
TypeOK ==
    /\ isa \in IsaBits /\ loaded \in IsaBits
    /\ table \in [in : BOOLEAN, rc : Nat, deallocating : BOOLEAN, weak : BOOLEAN]
    /\ lock \in Threads \cup {NoThread}
    /\ deallocator \in Threads \cup {NoThread}
    /\ pc \in [Threads -> Steps]
    /\ try \in [Threads -> BOOLEAN]
    /\ owned \in [Threads -> Nat]
    /\ weakVar \in BOOLEAN /\ freed \in BOOLEAN

Doing(p) == lock \in Threads /\ pc[lock] = p

\* References on their way between the isa and the table.
InTransit ==
    IF Doing("transcribe") \/ Doing("borrowed") THEN RC_HALF
    ELSE IF Doing("move") THEN loaded.extra_rc ELSE 0

Erased == freed \/ \E t \in Threads : pc[t] = "free"   \* the table's entry is gone

Dying ==
    \/ isa.deallocating \/ table.deallocating \/ Erased
    \/ Doing("move") /\ loaded.deallocating

Count == isa.extra_rc + table.rc + InTransit + (IF Dying THEN 0 ELSE 1)

\* The three places and the moves between them are one counter: no retain
\* or release is lost or done twice, and only the release that takes the
\* last reference makes the object dying, once.
Abstract == INSTANCE Counter WITH count <- Count, dying <- Dying
ImplementsCounter == Abstract!Spec

\* The references there are: those each thread owns, and one its retain or
\* release has at hand.
AtHand(t)  == pc[t] \in {"transcribe", "release", "borrowed", "empty", "sidetable_release"}
References == UNION {{t} \X (1..owned[t] + (IF AtHand(t) THEN 1 ELSE 0)) : t \in Threads}

\* Whoever owns a reference, from retain or from a weak variable, finds the
\* object alive; the count is exactly the references that are owned.
OwnedIsAlive ==
    /\ \A t \in Threads : owned[t] > 0 => ~freed /\ (Dying => deallocator = t)
    /\ Count = Cardinality(References)

\* When the memory is given back nothing is left that leads to it: no weak
\* variable, no count in the table, nobody at work on the object (the
\* assertion of rootDealloc and clearDeallocating, and more).
FreedIsForgotten ==
    freed => /\ ~weakVar /\ ~table.in
             /\ \A t \in Threads : pc[t] \in {"idle", "load"}
=============================================================================
