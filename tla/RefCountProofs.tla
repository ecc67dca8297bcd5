--------------------------- MODULE RefCountProofs ---------------------------
(***************************************************************************)
(* Theorems about RefCount, for every set of threads and every width of    *)
(* the inline count.                                                       *)
(***************************************************************************)
EXTENDS RefCount, FiniteSetTheorems, TLAPS

\* Who is between the lock and its release.
LockInv ==
    \A t \in Threads :
        /\ pc[t] \in {"transcribe", "borrowed", "empty", "change", "move"} => lock = t
        /\ try[t] => pc[t] \in {"retain", "transcribe"} /\ lock = t /\ weakVar

\* The side table has full halves only, until the isa is raw.
Halves == \E k \in Nat : table.rc = k * RC_HALF

\* What the bits of the isa say of the table.
IsaInv ==
    /\ isa.raw =>
          /\ isa.extra_rc = 0 /\ ~isa.has_sidetable_rc
          /\ ~isa.deallocating /\ ~isa.weakly_referenced
    /\ ~isa.raw =>
          /\ ~table.deallocating /\ ~table.weak
          /\ Halves
          /\ ~isa.has_sidetable_rc => ~table.in /\ table.rc = 0

\* What a thread in the lock, or on its way to the table, relies on.
HolderInv ==
    \A t \in Threads :
        /\ pc[t] \in {"transcribe", "borrowed", "empty"} => ~isa.raw /\ isa.has_sidetable_rc
        /\ pc[t] \in {"borrowed", "empty"} => loaded.extra_rc = 0
        /\ pc[t] = "empty" => table.rc = 0
        /\ pc[t] = "change" => ~isa.raw
        /\ pc[t] = "move" => isa.raw /\ ~table.deallocating /\ ~table.weak
        /\ pc[t] \in {"sidetable_retain", "sidetable_release"} => isa.raw

\* A weak variable shows somewhere, and is gone when the object goes.
WeakInv ==
    /\ weakVar => \/ isa.weakly_referenced \/ table.weak
                  \/ Doing("move") /\ loaded.weakly_referenced
    /\ Erased => ~weakVar /\ ~table.in /\ table.rc = 0

\* A retain, or a change of the isa, by a thread that owns a reference.
Using(t) ==
    \/ pc[t] = "retain" /\ ~try[t]
    \/ pc[t] \in {"sidetable_retain", "change", "move"}

\* Once the object is dying only the thread in its -dealloc works on it.
DyingInv ==
    /\ Dying <=> deallocator # NoThread
    /\ \A t \in Threads :
          /\ Using(t) => owned[t] > 0 \/ deallocator = t
          /\ Dying /\ t # deallocator => owned[t] = 0 /\ ~AtHand(t)
          /\ pc[t] \in {"dispose", "free"} => deallocator = t /\ owned[t] = 0
    /\ freed => \A t \in Threads : pc[t] \in {"idle", "load"} /\ owned[t] = 0

CountInv == IsFiniteSet(References) /\ Count = Cardinality(References)

IInv == TypeOK /\ LockInv /\ IsaInv /\ HolderInv /\ WeakInv /\ DyingInv /\ CountInv
-----------------------------------------------------------------------------
\* Records as the actions change them.
IsaTo(m) == [raw : BOOLEAN, extra_rc : 0..m, has_sidetable_rc : BOOLEAN,
             deallocating : BOOLEAN, weakly_referenced : BOOLEAN, has_assoc : BOOLEAN]
Entry == [in : BOOLEAN, rc : Nat, deallocating : BOOLEAN, weak : BOOLEAN]

\* i has these fields, and the entry e those.
IsaIs(m, i, r, n, h, d, w) ==
    /\ i \in IsaTo(m)
    /\ i.raw = r /\ i.extra_rc = n /\ i.has_sidetable_rc = h
    /\ i.deallocating = d /\ i.weakly_referenced = w
EntryIs(e, i, n, d, w) ==
    /\ e \in Entry
    /\ e.in = i /\ e.rc = n /\ e.deallocating = d /\ e.weak = w

LEMMA HalfType == RC_HALF \in Nat \ {0} /\ RC_FULL \in Nat /\ RC_FULL = 2 * RC_HALF - 1
  BY ConstantsAssumption DEF RC_FULL

\* A bit of the isa, or its count, is changed.
LEMMA WithCount ==
    ASSUME NEW m \in Nat, NEW i \in IsaTo(m), NEW n \in 0..m
    PROVE  IsaIs(m, [i EXCEPT !.extra_rc = n], i.raw, n, i.has_sidetable_rc, i.deallocating,
                 i.weakly_referenced)
  BY DEF IsaTo, IsaOf, IsaIs

LEMMA WithTable ==
    ASSUME NEW m \in Nat, NEW i \in IsaTo(m), NEW n \in 0..m
    PROVE  IsaIs(m, [i EXCEPT !.extra_rc = n, !.has_sidetable_rc = TRUE], i.raw, n, TRUE,
                 i.deallocating, i.weakly_referenced)
  BY DEF IsaTo, IsaOf, IsaIs

LEMMA WithDying ==
    ASSUME NEW m \in Nat, NEW i \in IsaTo(m)
    PROVE  IsaIs(m, [i EXCEPT !.deallocating = TRUE], i.raw, i.extra_rc, i.has_sidetable_rc, TRUE,
                 i.weakly_referenced)
  BY DEF IsaTo, IsaOf, IsaIs

LEMMA WithWeak ==
    ASSUME NEW m \in Nat, NEW i \in IsaTo(m)
    PROVE  IsaIs(m, [i EXCEPT !.weakly_referenced = TRUE], i.raw, i.extra_rc, i.has_sidetable_rc,
                 i.deallocating, TRUE)
  BY DEF IsaTo, IsaOf, IsaIs

LEMMA WithAssoc ==
    ASSUME NEW m \in Nat, NEW i \in IsaTo(m)
    PROVE  IsaIs(m, [i EXCEPT !.has_assoc = TRUE], i.raw, i.extra_rc, i.has_sidetable_rc,
                 i.deallocating, i.weakly_referenced)
  BY DEF IsaTo, IsaOf, IsaIs

LEMMA RawBits ==
    ASSUME NEW m \in Nat
    PROVE  IsaIs(m, IsaOf(TRUE, 0), TRUE, 0, FALSE, FALSE, FALSE)
  BY DEF IsaTo, IsaOf, IsaIs

LEMMA NewBits ==
    ASSUME NEW m \in Nat
    PROVE  IsaIs(m, IsaOf(FALSE, 0), FALSE, 0, FALSE, FALSE, FALSE)
  BY DEF IsaTo, IsaOf, IsaIs

\* A field of the table's entry is changed.
LEMMA EntryCount ==
    ASSUME NEW e \in Entry, NEW n \in Nat
    PROVE  EntryIs([e EXCEPT !.in = TRUE, !.rc = n], TRUE, n, e.deallocating, e.weak)
  BY DEF Entry, EntryIs, NoEntry

LEMMA EntryLess ==
    ASSUME NEW e \in Entry, NEW n \in Nat
    PROVE  EntryIs([e EXCEPT !.rc = n], e.in, n, e.deallocating, e.weak)
  BY DEF Entry, EntryIs, NoEntry

LEMMA EntryDying ==
    ASSUME NEW e \in Entry
    PROVE  EntryIs([e EXCEPT !.in = TRUE, !.deallocating = TRUE], TRUE, e.rc, TRUE, e.weak)
  BY DEF Entry, EntryIs, NoEntry

LEMMA EntryWeak ==
    ASSUME NEW e \in Entry
    PROVE  EntryIs([e EXCEPT !.in = TRUE, !.weak = TRUE], TRUE, e.rc, e.deallocating, TRUE)
  BY DEF Entry, EntryIs, NoEntry

LEMMA EntryNew ==
    ASSUME NEW e \in Entry, NEW n \in Nat, NEW a \in BOOLEAN, NEW b \in BOOLEAN
    PROVE  EntryIs([in |-> TRUE, rc |-> n, deallocating |-> a, weak |-> b], TRUE, n, a, b)
  BY DEF Entry, EntryIs, NoEntry

LEMMA EntryNone == EntryIs(NoEntry, FALSE, 0, FALSE, FALSE)
  BY DEF Entry, EntryIs, NoEntry

LEMMA Types ==
    ASSUME TypeOK
    PROVE  /\ isa \in IsaTo(RC_FULL) /\ loaded \in IsaTo(RC_FULL) /\ IsaBits = IsaTo(RC_FULL)
           /\ table \in Entry
           /\ isa.extra_rc \in 0..RC_FULL /\ loaded.extra_rc \in 0..RC_FULL /\ table.rc \in Nat
           /\ isa.raw \in BOOLEAN /\ isa.deallocating \in BOOLEAN
           /\ isa.has_sidetable_rc \in BOOLEAN /\ isa.weakly_referenced \in BOOLEAN
           /\ loaded.deallocating \in BOOLEAN /\ loaded.weakly_referenced \in BOOLEAN
           /\ table.in \in BOOLEAN /\ table.deallocating \in BOOLEAN /\ table.weak \in BOOLEAN
  BY DEF TypeOK, IsaBits, IsaTo, Entry

\* A table with halves keeps to halves.
LEMMA HalfLess ==
    ASSUME TypeOK, Halves, table.rc > 0
    PROVE  table.rc - RC_HALF \in Nat /\ \E k \in Nat : table.rc - RC_HALF = k * RC_HALF
<1>1. PICK k \in Nat : table.rc = k * RC_HALF
  BY DEF Halves
<1>2. k # 0
  BY <1>1, HalfType
<1>3. k - 1 \in Nat /\ table.rc - RC_HALF = (k - 1) * RC_HALF
  BY <1>1, <1>2, HalfType
<1>4. (k - 1) * RC_HALF \in Nat
  BY <1>3, HalfType
<1> QED
  BY <1>3, <1>4

LEMMA HalfNone == \E k \in Nat : 0 = k * RC_HALF
<1> WITNESS 0 \in Nat
<1> QED
  BY HalfType

LEMMA HalfMore ==
    ASSUME TypeOK, Halves
    PROVE  \E k \in Nat : table.rc + RC_HALF = k * RC_HALF
<1>1. PICK k \in Nat : table.rc = k * RC_HALF
  BY DEF Halves
<1>2. k + 1 \in Nat /\ table.rc + RC_HALF = (k + 1) * RC_HALF
  BY <1>1, HalfType
<1> WITNESS k + 1 \in Nat
<1> QED
  BY <1>2
-----------------------------------------------------------------------------
\* What each action leaves of the isa or of the table.
LEMMA RetainInlineEffect ==
    ASSUME TypeOK, NEW t \in Threads, RetainInline(t)
    PROVE  IsaIs(RC_FULL, isa', isa.raw, isa.extra_rc + 1, isa.has_sidetable_rc, isa.deallocating,
                 isa.weakly_referenced)
<1>1. isa.extra_rc + 1 \in 0..RC_FULL
  BY Types, HalfType DEF RetainInline
<1>2. IsaIs(RC_FULL, [isa EXCEPT !.extra_rc = isa.extra_rc + 1], isa.raw, isa.extra_rc + 1,
            isa.has_sidetable_rc, isa.deallocating, isa.weakly_referenced)
  BY Types, HalfType, <1>1, WithCount
<1> QED
  BY <1>2 DEF RetainInline

LEMMA RetainOverflowEffect ==
    ASSUME TypeOK, NEW t \in Threads, RetainOverflow(t)
    PROVE  IsaIs(RC_FULL, isa', isa.raw, RC_HALF, TRUE, isa.deallocating, isa.weakly_referenced)
<1>1. RC_HALF \in 0..RC_FULL
  BY Types, HalfType DEF RetainOverflow
<1>2. IsaIs(RC_FULL, [isa EXCEPT !.extra_rc = RC_HALF, !.has_sidetable_rc = TRUE], isa.raw,
            RC_HALF, TRUE, isa.deallocating, isa.weakly_referenced)
  BY Types, HalfType, <1>1, WithTable
<1> QED
  BY <1>2 DEF RetainOverflow

LEMMA ReleaseInlineEffect ==
    ASSUME TypeOK, NEW t \in Threads, ReleaseInline(t)
    PROVE  IsaIs(RC_FULL, isa', isa.raw, isa.extra_rc - 1, isa.has_sidetable_rc, isa.deallocating,
                 isa.weakly_referenced)
<1>1. isa.extra_rc - 1 \in 0..RC_FULL
  BY Types, HalfType DEF ReleaseInline
<1>2. IsaIs(RC_FULL, [isa EXCEPT !.extra_rc = isa.extra_rc - 1], isa.raw, isa.extra_rc - 1,
            isa.has_sidetable_rc, isa.deallocating, isa.weakly_referenced)
  BY Types, HalfType, <1>1, WithCount
<1> QED
  BY <1>2 DEF ReleaseInline

LEMMA StoreBorrowedEffect ==
    ASSUME IInv, NEW t \in Threads, StoreBorrowed(t)
    PROVE  IsaIs(RC_FULL, isa', isa.raw, isa.extra_rc + RC_HALF - 1, isa.has_sidetable_rc,
                 isa.deallocating, isa.weakly_referenced)
<1> DEFINE n == isa.extra_rc + RC_HALF - 1
<1> USE DEF IInv
<1>0. loaded.extra_rc = 0
  BY DEF HolderInv, StoreBorrowed
<1>1. n \in 0..RC_FULL /\ isa' = [isa EXCEPT !.extra_rc = n]
  <2>1. CASE isa' = [isa EXCEPT !.extra_rc = RC_HALF - 1] /\ isa = loaded
    BY <1>0, <2>1, Types, HalfType
  <2>2. CASE /\ isa' = [isa EXCEPT !.extra_rc = isa.extra_rc + RC_HALF - 1]
             /\ isa.extra_rc + RC_HALF - 1 <= RC_FULL
    BY <2>2, Types, HalfType
  <2> QED
    BY <2>1, <2>2 DEF StoreBorrowed
<1> HIDE DEF n
<1>2. IsaIs(RC_FULL, [isa EXCEPT !.extra_rc = n], isa.raw, n, isa.has_sidetable_rc,
            isa.deallocating, isa.weakly_referenced)
  BY <1>1, Types, HalfType, WithCount
<1> QED
  BY <1>1, <1>2 DEF n

LEMMA DiesEffect ==
    ASSUME TypeOK, NEW t \in Threads, Dies(t)
    PROVE  IsaIs(RC_FULL, isa', isa.raw, isa.extra_rc, isa.has_sidetable_rc, TRUE,
                 isa.weakly_referenced)
<1>2. IsaIs(RC_FULL, [isa EXCEPT !.deallocating = TRUE], isa.raw, isa.extra_rc,
            isa.has_sidetable_rc, TRUE, isa.weakly_referenced)
  BY Types, HalfType, WithDying
<1> QED
  BY <1>2 DEF Dies

LEMMA SetAssocEffect ==
    ASSUME TypeOK, NEW t \in Threads, SetHasAssociatedObjects(t)
    PROVE  IsaIs(RC_FULL, isa', isa.raw, isa.extra_rc, isa.has_sidetable_rc, isa.deallocating,
                 isa.weakly_referenced)
<1>2. IsaIs(RC_FULL, [isa EXCEPT !.has_assoc = TRUE], isa.raw, isa.extra_rc, isa.has_sidetable_rc,
            isa.deallocating, isa.weakly_referenced)
  BY Types, HalfType, WithAssoc
<1> QED
  BY <1>2 DEF SetHasAssociatedObjects

LEMMA StoreRawEffect ==
    ASSUME TypeOK, NEW t \in Threads, StoreRaw(t)
    PROVE  IsaIs(RC_FULL, isa', TRUE, 0, FALSE, FALSE, FALSE)
<1> QED
  BY Types, HalfType, RawBits DEF StoreRaw

LEMMA StoreWeakEffect ==
    ASSUME TypeOK, NEW t \in Threads, StoreWeak(t)
    PROVE  /\ isa.raw => isa' = isa /\ EntryIs(table', TRUE, table.rc, table.deallocating, TRUE)
           /\ ~isa.raw => table' = table /\ IsaIs(RC_FULL, isa', isa.raw, isa.extra_rc,
                                                  isa.has_sidetable_rc, isa.deallocating, TRUE)
<1>1. EntryIs([table EXCEPT !.in = TRUE, !.weak = TRUE], TRUE, table.rc, table.deallocating, TRUE)
  BY Types, EntryWeak
<1>2. IsaIs(RC_FULL, [isa EXCEPT !.weakly_referenced = TRUE], isa.raw, isa.extra_rc,
            isa.has_sidetable_rc, isa.deallocating, TRUE)
  BY Types, HalfType, WithWeak
<1> QED
  BY <1>1, <1>2 DEF StoreWeak

LEMMA TranscribeEffect ==
    ASSUME TypeOK, NEW t \in Threads, Transcribe(t)
    PROVE  EntryIs(table', TRUE, table.rc + RC_HALF, table.deallocating, table.weak)
<1>1. table.rc + RC_HALF \in Nat
  BY Types, HalfType DEF Transcribe
<1>2. EntryIs([table EXCEPT !.in = TRUE, !.rc = table.rc + RC_HALF], TRUE, table.rc + RC_HALF,
              table.deallocating, table.weak)
  BY Types, HalfType, <1>1, EntryCount
<1> QED
  BY <1>2 DEF Transcribe

LEMMA SidetableRetainEffect ==
    ASSUME TypeOK, NEW t \in Threads, SidetableRetain(t)
    PROVE  EntryIs(table', TRUE, table.rc + 1, table.deallocating, table.weak)
<1>1. table.rc + 1 \in Nat
  BY Types, HalfType DEF SidetableRetain
<1>2. EntryIs([table EXCEPT !.in = TRUE, !.rc = table.rc + 1], TRUE, table.rc + 1,
              table.deallocating, table.weak)
  BY Types, HalfType, <1>1, EntryCount
<1> QED
  BY <1>2 DEF SidetableRetain

LEMMA PutBackEffect ==
    ASSUME TypeOK, NEW t \in Threads, PutBack(t)
    PROVE  EntryIs(table', TRUE, table.rc + RC_HALF, table.deallocating, table.weak)
<1>1. table.rc + RC_HALF \in Nat
  BY Types, HalfType DEF PutBack
<1>2. EntryIs([table EXCEPT !.in = TRUE, !.rc = table.rc + RC_HALF], TRUE, table.rc + RC_HALF,
              table.deallocating, table.weak)
  BY Types, HalfType, <1>1, EntryCount
<1> QED
  BY <1>2 DEF PutBack

LEMMA BorrowEffect ==
    ASSUME IInv, NEW t \in Threads, Borrow(t)
    PROVE  /\ table.rc > 0 => EntryIs(table', table.in, table.rc - RC_HALF, table.deallocating,
                                      table.weak)
           /\ ~(table.rc > 0) => table' = table
<1>1. ASSUME table.rc > 0
      PROVE  EntryIs([table EXCEPT !.rc = table.rc - RC_HALF], table.in, table.rc - RC_HALF,
                     table.deallocating, table.weak)
  BY <1>1, Types, HalfLess, EntryLess DEF IInv, IsaInv, Borrow, Underflow
<1> QED
  BY <1>1 DEF Borrow

LEMMA SidetableReleaseEffect ==
    ASSUME TypeOK, NEW t \in Threads, SidetableRelease(t)
    PROVE  /\ table.rc = 0 => EntryIs(table', TRUE, table.rc, TRUE, table.weak)
           /\ table.rc # 0 => EntryIs(table', table.in, table.rc - 1, table.deallocating,
                                      table.weak)
<1>1. EntryIs([table EXCEPT !.in = TRUE, !.deallocating = TRUE], TRUE, table.rc, TRUE, table.weak)
  BY Types, EntryDying
<1>2. ASSUME table.rc # 0
      PROVE  EntryIs([table EXCEPT !.rc = table.rc - 1], table.in, table.rc - 1,
                     table.deallocating, table.weak)
  <2>1. table.rc - 1 \in Nat
    BY <1>2, Types
  <2> QED
    BY <2>1, Types, EntryLess
<1> QED
  BY <1>1, <1>2 DEF SidetableRelease

LEMMA MoveExtraRCEffect ==
    ASSUME TypeOK, NEW t \in Threads, MoveExtraRC(t)
    PROVE  EntryIs(table', TRUE, table.rc + loaded.extra_rc, loaded.deallocating,
                   loaded.weakly_referenced)
<1>1. table.rc + loaded.extra_rc \in Nat
  BY Types, HalfType
<1> QED
  BY <1>1, Types, EntryNew DEF MoveExtraRC

LEMMA ClearEffect ==
    ASSUME TypeOK, NEW t \in Threads, ClearDeallocating(t)
    PROVE  table' = table \/ EntryIs(table', FALSE, 0, FALSE, FALSE)
<1> QED
  BY Types, HalfType, EntryNone DEF ClearDeallocating
-----------------------------------------------------------------------------
LEMMA RetainedTypes ==
    ASSUME TypeOK, NEW t \in Threads, Retained(t), isa' \in IsaBits, table' \in Entry
    PROVE  TypeOK'
<1>1. owned' \in [Threads -> Nat]
  BY DEF TypeOK, Retained
<1> QED
  BY <1>1 DEF TypeOK, Entry, Retained, Goto, Unlock, Steps

LEMMA TypeStep == IInv /\ [Next]_vars => TypeOK'
<1> SUFFICES ASSUME IInv, [Next]_vars
             PROVE  TypeOK'
  OBVIOUS
<1> USE Types, HalfType DEF IInv
<1>1. CASE UNCHANGED vars
  BY <1>1 DEF vars, local, TypeOK, Entry, Steps
<1>2. ASSUME NEW t \in Threads, CallRetain(t) PROVE TypeOK'
  BY <1>2 DEF CallRetain, Goto, Unlock, Free, MayUse, local, TypeOK, Entry, Steps
<1>3. ASSUME NEW t \in Threads, RetainInline(t) PROVE TypeOK'
  <2>1. isa' \in IsaBits /\ table' \in Entry
    BY <1>3, RetainInlineEffect DEF RetainInline, IsaIs, EntryIs
  <2> QED
    BY <1>3, <2>1, RetainedTypes DEF RetainInline
<1>4. ASSUME NEW t \in Threads, RetainLock(t) PROVE TypeOK'
  BY <1>4 DEF RetainLock, Goto, Unlock, Free, MayUse, local, TypeOK, Entry, Steps
<1>5. ASSUME NEW t \in Threads, RetainOverflow(t) PROVE TypeOK'
  BY <1>5, RetainOverflowEffect DEF RetainOverflow, Goto, Unlock, Free, MayUse, local, TypeOK,
       Entry, Steps, IsaIs, EntryIs
<1>6. ASSUME NEW t \in Threads, Transcribe(t) PROVE TypeOK'
  <2>1. isa' \in IsaBits /\ table' \in Entry
    BY <1>6, TranscribeEffect DEF Transcribe, IsaIs, EntryIs
  <2> QED
    BY <1>6, <2>1, RetainedTypes DEF Transcribe
<1>7. ASSUME NEW t \in Threads, RetainRaw(t) PROVE TypeOK'
  BY <1>7 DEF RetainRaw, Goto, Unlock, Free, MayUse, local, TypeOK, Entry, Steps
<1>8. ASSUME NEW t \in Threads, SidetableRetain(t) PROVE TypeOK'
  <2>1. isa' \in IsaBits /\ table' \in Entry
    BY <1>8, SidetableRetainEffect DEF SidetableRetain, IsaIs, EntryIs
  <2> QED
    BY <1>8, <2>1, RetainedTypes DEF SidetableRetain
<1>9. ASSUME NEW t \in Threads, StoreWeak(t) PROVE TypeOK'
  BY <1>9, StoreWeakEffect DEF StoreWeak, Goto, Unlock, Free, MayUse, local, TypeOK, Entry, Steps,
       IsaIs, EntryIs
<1>10. ASSUME NEW t \in Threads, LoadWeak(t) PROVE TypeOK'
  BY <1>10 DEF LoadWeak, Goto, Unlock, Free, MayUse, local, TypeOK, Entry, Steps
<1>11. ASSUME NEW t \in Threads, LoadWeakLocked(t) PROVE TypeOK'
  BY <1>11, ZenonT(40) DEF LoadWeakLocked, Goto, Unlock, Free, MayUse, local, TypeOK, Entry, Steps
<1>12. ASSUME NEW t \in Threads, TryFails(t) PROVE TypeOK'
  BY <1>12 DEF TryFails, Goto, Unlock, Free, MayUse, local, TypeOK, Entry, Steps
<1>13. ASSUME NEW t \in Threads, CallRelease(t) PROVE TypeOK'
  BY <1>13 DEF CallRelease, Goto, Unlock, Free, MayUse, local, TypeOK, Entry, Steps
<1>14. ASSUME NEW t \in Threads, ReleaseInline(t) PROVE TypeOK'
  BY <1>14, ReleaseInlineEffect DEF ReleaseInline, Released, Goto, Unlock, Free, MayUse, local,
       TypeOK, Entry, Steps, IsaIs, EntryIs
<1>15. ASSUME NEW t \in Threads, ReleaseLock(t) PROVE TypeOK'
  BY <1>15 DEF ReleaseLock, Underflow, Goto, Unlock, Free, MayUse, local, TypeOK, Entry, Steps
<1>16. ASSUME NEW t \in Threads, Borrow(t) PROVE TypeOK'
  BY <1>16, BorrowEffect DEF Borrow, Underflow, Goto, Unlock, Free, MayUse, local, TypeOK, Entry,
       Steps, IsaIs, EntryIs
<1>17. ASSUME NEW t \in Threads, StoreBorrowed(t) PROVE TypeOK'
  BY <1>17, StoreBorrowedEffect DEF StoreBorrowed, Released, Goto, Unlock, Free, MayUse, local,
       TypeOK, Entry, Steps, IsaIs, EntryIs
<1>18. ASSUME NEW t \in Threads, PutBack(t) PROVE TypeOK'
  BY <1>18, PutBackEffect DEF PutBack, Goto, Unlock, Free, MayUse, local, TypeOK, Entry, Steps,
       IsaIs, EntryIs
<1>19. ASSUME NEW t \in Threads, ReleaseLast(t) PROVE TypeOK'
  BY <1>19, DiesEffect DEF ReleaseLast, Underflow, Dies, Released, Goto, Unlock, Free, MayUse,
       local, TypeOK, Entry, Steps, IsaIs, EntryIs
<1>20. ASSUME NEW t \in Threads, Retry(t) PROVE TypeOK'
  BY <1>20 DEF Retry, Goto, Unlock, Free, MayUse, local, TypeOK, Entry, Steps
<1>21. ASSUME NEW t \in Threads, ReleaseRaw(t) PROVE TypeOK'
  BY <1>21 DEF ReleaseRaw, Goto, Unlock, Free, MayUse, local, TypeOK, Entry, Steps
<1>22. ASSUME NEW t \in Threads, SidetableRelease(t) PROVE TypeOK'
  BY <1>22, SidetableReleaseEffect DEF SidetableRelease, Released, Goto, Unlock, Free, MayUse,
       local, TypeOK, Entry, Steps, IsaIs, EntryIs
<1>23. ASSUME NEW t \in Threads, SetHasAssociatedObjects(t) PROVE TypeOK'
  BY <1>23, SetAssocEffect DEF SetHasAssociatedObjects, Goto, Unlock, Free, MayUse, local, TypeOK,
       Entry, Steps, IsaIs, EntryIs
<1>24. ASSUME NEW t \in Threads, ChangeIsa(t) PROVE TypeOK'
  BY <1>24 DEF ChangeIsa, Goto, Unlock, Free, MayUse, local, TypeOK, Entry, Steps
<1>25. ASSUME NEW t \in Threads, StoreRaw(t) PROVE TypeOK'
  BY <1>25, StoreRawEffect DEF StoreRaw, Goto, Unlock, Free, MayUse, local, TypeOK, Entry, Steps,
       IsaIs, EntryIs
<1>26. ASSUME NEW t \in Threads, MoveExtraRC(t) PROVE TypeOK'
  BY <1>26, MoveExtraRCEffect DEF MoveExtraRC, Goto, Unlock, Free, MayUse, local, TypeOK, Entry,
       Steps, IsaIs, EntryIs
<1>27. ASSUME NEW t \in Threads, RootDealloc(t) PROVE TypeOK'
  BY <1>27 DEF RootDealloc, Goto, Unlock, Free, MayUse, local, TypeOK, Entry, Steps
<1>28. ASSUME NEW t \in Threads, ClearDeallocating(t) PROVE TypeOK'
  BY <1>28, ClearEffect DEF ClearDeallocating, Goto, Unlock, Free, MayUse, local, TypeOK, Entry,
       Steps, IsaIs, EntryIs
<1>29. ASSUME NEW t \in Threads, FreeObject(t) PROVE TypeOK'
  BY <1>29 DEF FreeObject, Goto, Unlock, Free, MayUse, local, TypeOK, Entry, Steps
<1>30. ASSUME NEW t \in Threads, NEW u \in Threads, HandOver(t, u) PROVE TypeOK'
  BY <1>30 DEF HandOver, MayUse, local, TypeOK, Entry, Steps
<1> QED
  BY <1>1, <1>2, <1>3, <1>4, <1>5, <1>6, <1>7, <1>8, <1>9, <1>10, <1>11, <1>12, <1>13, <1>14,
       <1>15, <1>16, <1>17, <1>18, <1>19, <1>20, <1>21, <1>22, <1>23, <1>24, <1>25, <1>26, <1>27,
       <1>28, <1>29, <1>30
  DEF Next, RetainStep, WeakStep, ReleaseStep, OtherStep

\* Once the table's entry is gone nobody is at work on the object.
LEMMA ErasedQuiet ==
    ASSUME IInv, Erased, NEW t \in Threads
    PROVE  pc[t] \in {"idle", "load", "dispose", "free"}
<1> USE DEF IInv
<1>1. Dying
  BY DEF Dying
<1>2. ~try[t]
  BY DEF LockInv, WeakInv
<1>3. CASE t = deallocator
  <2>1. ASSUME NEW u \in Threads, pc[u] = "free" PROVE u = t
    BY <1>3, <2>1 DEF DyingInv
  <2> QED
    BY <2>1 DEF DyingInv, Erased
<1>4. CASE t # deallocator
  BY <1>1, <1>2, <1>4 DEF DyingInv, Using, AtHand, TypeOK, Steps
<1> QED
  BY <1>3, <1>4


LEMMA LockStep == IInv /\ [Next]_vars => LockInv'
<1> SUFFICES ASSUME IInv, [Next]_vars
             PROVE  LockInv'
  OBVIOUS
<1> USE Types, HalfType DEF IInv
<1>1. CASE UNCHANGED vars
  BY <1>1, ConstantsAssumption DEF vars, local, LockInv, TypeOK, Steps
<1>2. ASSUME NEW t \in Threads, CallRetain(t) PROVE LockInv'
  BY <1>2, ConstantsAssumption DEF CallRetain, Goto, Unlock, Free, MayUse, local, LockInv, TypeOK,
       Steps
<1>3. ASSUME NEW t \in Threads, RetainInline(t) PROVE LockInv'
  BY <1>3, ConstantsAssumption, RetainInlineEffect DEF RetainInline, Retained, Goto, Unlock, Free,
       MayUse, local, LockInv, TypeOK, Steps, IsaIs, EntryIs
<1>4. ASSUME NEW t \in Threads, RetainLock(t) PROVE LockInv'
  BY <1>4, ConstantsAssumption DEF RetainLock, Goto, Unlock, Free, MayUse, local, LockInv, TypeOK,
       Steps
<1>5. ASSUME NEW t \in Threads, RetainOverflow(t) PROVE LockInv'
  BY <1>5, ConstantsAssumption, RetainOverflowEffect DEF RetainOverflow, Goto, Unlock, Free,
       MayUse, local, LockInv, TypeOK, Steps, IsaIs, EntryIs
<1>6. ASSUME NEW t \in Threads, Transcribe(t) PROVE LockInv'
  BY <1>6, ConstantsAssumption, TranscribeEffect DEF Transcribe, Retained, Goto, Unlock, Free,
       MayUse, local, LockInv, TypeOK, Steps, IsaIs, EntryIs
<1>7. ASSUME NEW t \in Threads, RetainRaw(t) PROVE LockInv'
  BY <1>7, ConstantsAssumption DEF RetainRaw, Goto, Unlock, Free, MayUse, local, LockInv, TypeOK,
       Steps
<1>8. ASSUME NEW t \in Threads, SidetableRetain(t) PROVE LockInv'
  BY <1>8, ConstantsAssumption, SidetableRetainEffect DEF SidetableRetain, Retained, Goto, Unlock,
       Free, MayUse, local, LockInv, TypeOK, Steps, IsaIs, EntryIs
<1>9. ASSUME NEW t \in Threads, StoreWeak(t) PROVE LockInv'
  BY <1>9, ConstantsAssumption, StoreWeakEffect DEF StoreWeak, Goto, Unlock, Free, MayUse, local,
       LockInv, TypeOK, Steps, IsaIs, EntryIs
<1>10. ASSUME NEW t \in Threads, LoadWeak(t) PROVE LockInv'
  BY <1>10, ConstantsAssumption DEF LoadWeak, Goto, Unlock, Free, MayUse, local, LockInv, TypeOK,
       Steps
<1>11. ASSUME NEW t \in Threads, LoadWeakLocked(t) PROVE LockInv'
  BY <1>11, ConstantsAssumption DEF LoadWeakLocked, Goto, Unlock, Free, MayUse, local, LockInv,
       TypeOK, Steps
<1>12. ASSUME NEW t \in Threads, TryFails(t) PROVE LockInv'
  BY <1>12, ConstantsAssumption DEF TryFails, Goto, Unlock, Free, MayUse, local, LockInv, TypeOK,
       Steps
<1>13. ASSUME NEW t \in Threads, CallRelease(t) PROVE LockInv'
  BY <1>13, ConstantsAssumption DEF CallRelease, Goto, Unlock, Free, MayUse, local, LockInv,
       TypeOK, Steps
<1>14. ASSUME NEW t \in Threads, ReleaseInline(t) PROVE LockInv'
  BY <1>14, ConstantsAssumption, ReleaseInlineEffect DEF ReleaseInline, Released, Goto, Unlock,
       Free, MayUse, local, LockInv, TypeOK, Steps, IsaIs, EntryIs
<1>15. ASSUME NEW t \in Threads, ReleaseLock(t) PROVE LockInv'
  BY <1>15, ConstantsAssumption DEF ReleaseLock, Underflow, Goto, Unlock, Free, MayUse, local,
       LockInv, TypeOK, Steps
<1>16. ASSUME NEW t \in Threads, Borrow(t) PROVE LockInv'
  BY <1>16, ConstantsAssumption, BorrowEffect DEF Borrow, Underflow, Goto, Unlock, Free, MayUse,
       local, LockInv, TypeOK, Steps, IsaIs, EntryIs
<1>17. ASSUME NEW t \in Threads, StoreBorrowed(t) PROVE LockInv'
  BY <1>17, ConstantsAssumption, StoreBorrowedEffect DEF StoreBorrowed, Released, Goto, Unlock,
       Free, MayUse, local, LockInv, TypeOK, Steps, IsaIs, EntryIs
<1>18. ASSUME NEW t \in Threads, PutBack(t) PROVE LockInv'
  BY <1>18, ConstantsAssumption, PutBackEffect DEF PutBack, Goto, Unlock, Free, MayUse, local,
       LockInv, TypeOK, Steps, IsaIs, EntryIs
<1>19. ASSUME NEW t \in Threads, ReleaseLast(t) PROVE LockInv'
  BY <1>19, ConstantsAssumption, DiesEffect DEF ReleaseLast, Underflow, Dies, Released, Goto,
       Unlock, Free, MayUse, local, LockInv, TypeOK, Steps, IsaIs, EntryIs
<1>20. ASSUME NEW t \in Threads, Retry(t) PROVE LockInv'
  BY <1>20, ConstantsAssumption DEF Retry, Goto, Unlock, Free, MayUse, local, LockInv, TypeOK, Steps
<1>21. ASSUME NEW t \in Threads, ReleaseRaw(t) PROVE LockInv'
  BY <1>21, ConstantsAssumption DEF ReleaseRaw, Goto, Unlock, Free, MayUse, local, LockInv, TypeOK,
       Steps
<1>22. ASSUME NEW t \in Threads, SidetableRelease(t) PROVE LockInv'
  BY <1>22, ConstantsAssumption, SidetableReleaseEffect DEF SidetableRelease, Released, Goto,
       Unlock, Free, MayUse, local, LockInv, TypeOK, Steps, IsaIs, EntryIs
<1>23. ASSUME NEW t \in Threads, SetHasAssociatedObjects(t) PROVE LockInv'
  BY <1>23, ConstantsAssumption, SetAssocEffect DEF SetHasAssociatedObjects, Goto, Unlock, Free,
       MayUse, local, LockInv, TypeOK, Steps, IsaIs, EntryIs
<1>24. ASSUME NEW t \in Threads, ChangeIsa(t) PROVE LockInv'
  BY <1>24, ConstantsAssumption DEF ChangeIsa, Goto, Unlock, Free, MayUse, local, LockInv, TypeOK,
       Steps
<1>25. ASSUME NEW t \in Threads, StoreRaw(t) PROVE LockInv'
  BY <1>25, ConstantsAssumption, StoreRawEffect DEF StoreRaw, Goto, Unlock, Free, MayUse, local,
       LockInv, TypeOK, Steps, IsaIs, EntryIs
<1>26. ASSUME NEW t \in Threads, MoveExtraRC(t) PROVE LockInv'
  BY <1>26, ConstantsAssumption, MoveExtraRCEffect DEF MoveExtraRC, Goto, Unlock, Free, MayUse,
       local, LockInv, TypeOK, Steps, IsaIs, EntryIs
<1>27. ASSUME NEW t \in Threads, RootDealloc(t) PROVE LockInv'
  BY <1>27, ConstantsAssumption DEF RootDealloc, Goto, Unlock, Free, MayUse, local, LockInv,
       TypeOK, Steps
<1>28. ASSUME NEW t \in Threads, ClearDeallocating(t) PROVE LockInv'
  BY <1>28, ConstantsAssumption, ClearEffect, ZenonT(40)
      DEF ClearDeallocating, Goto, Unlock, Free, MayUse, local, LockInv, TypeOK, Steps, IsaIs, EntryIs
<1>29. ASSUME NEW t \in Threads, FreeObject(t) PROVE LockInv'
  BY <1>29, ConstantsAssumption DEF FreeObject, Goto, Unlock, Free, MayUse, local, LockInv, TypeOK,
       Steps
<1>30. ASSUME NEW t \in Threads, NEW u \in Threads, HandOver(t, u) PROVE LockInv'
  BY <1>30, ConstantsAssumption DEF HandOver, MayUse, local, LockInv, TypeOK, Steps
<1> QED
  BY <1>1, <1>2, <1>3, <1>4, <1>5, <1>6, <1>7, <1>8, <1>9, <1>10, <1>11, <1>12, <1>13, <1>14,
       <1>15, <1>16, <1>17, <1>18, <1>19, <1>20, <1>21, <1>22, <1>23, <1>24, <1>25, <1>26, <1>27,
       <1>28, <1>29, <1>30
  DEF Next, RetainStep, WeakStep, ReleaseStep, OtherStep

LEMMA IsaStep == IInv /\ [Next]_vars => IsaInv'
<1> SUFFICES ASSUME IInv, [Next]_vars
             PROVE  IsaInv'
  OBVIOUS
<1> USE Types, HalfType DEF IInv
<1>1. CASE UNCHANGED vars
  BY <1>1 DEF vars, local, Halves, IsaInv, LockInv, HolderInv, TypeOK
<1>2. ASSUME NEW t \in Threads, CallRetain(t) PROVE IsaInv'
  BY <1>2 DEF CallRetain, Goto, Unlock, Free, MayUse, local, IsaInv, LockInv, HolderInv, TypeOK,
       Halves
<1>3. ASSUME NEW t \in Threads, RetainInline(t) PROVE IsaInv'
  BY <1>3, RetainInlineEffect DEF RetainInline, Retained, Goto, Unlock, Free, MayUse, local,
       IsaInv, LockInv, HolderInv, TypeOK, IsaIs, EntryIs, Halves
<1>4. ASSUME NEW t \in Threads, RetainLock(t) PROVE IsaInv'
  BY <1>4 DEF RetainLock, Goto, Unlock, Free, MayUse, local, IsaInv, LockInv, HolderInv, TypeOK,
       Halves
<1>5. ASSUME NEW t \in Threads, RetainOverflow(t) PROVE IsaInv'
  BY <1>5, RetainOverflowEffect DEF RetainOverflow, Goto, Unlock, Free, MayUse, local, IsaInv,
       LockInv, HolderInv, TypeOK, IsaIs, EntryIs, Halves
<1>6. ASSUME NEW t \in Threads, Transcribe(t) PROVE IsaInv'
  <2>1. Halves'
    BY <1>6, HalfMore, TranscribeEffect DEF Transcribe, IsaInv, HolderInv, Halves, EntryIs
  <2> QED
    BY <1>6, <2>1, TranscribeEffect DEF Transcribe, Retained, Goto, Unlock, Free, MayUse, local,
         IsaInv, LockInv, HolderInv, TypeOK, IsaIs, EntryIs
<1>7. ASSUME NEW t \in Threads, RetainRaw(t) PROVE IsaInv'
  BY <1>7 DEF RetainRaw, Goto, Unlock, Free, MayUse, local, IsaInv, LockInv, HolderInv, TypeOK,
       Halves
<1>8. ASSUME NEW t \in Threads, SidetableRetain(t) PROVE IsaInv'
  BY <1>8, SidetableRetainEffect DEF SidetableRetain, Retained, Goto, Unlock, Free, MayUse, local,
       IsaInv, LockInv, HolderInv, TypeOK, IsaIs, EntryIs, Halves
<1>9. ASSUME NEW t \in Threads, StoreWeak(t) PROVE IsaInv'
  BY <1>9, StoreWeakEffect DEF StoreWeak, Goto, Unlock, Free, MayUse, local, IsaInv, LockInv,
       HolderInv, TypeOK, IsaIs, EntryIs, Halves
<1>10. ASSUME NEW t \in Threads, LoadWeak(t) PROVE IsaInv'
  BY <1>10 DEF LoadWeak, Goto, Unlock, Free, MayUse, local, IsaInv, LockInv, HolderInv, TypeOK,
       Halves
<1>11. ASSUME NEW t \in Threads, LoadWeakLocked(t) PROVE IsaInv'
  BY <1>11 DEF LoadWeakLocked, Goto, Unlock, Free, MayUse, local, IsaInv, LockInv, HolderInv,
       TypeOK, Halves
<1>12. ASSUME NEW t \in Threads, TryFails(t) PROVE IsaInv'
  BY <1>12 DEF TryFails, Goto, Unlock, Free, MayUse, local, IsaInv, LockInv, HolderInv, TypeOK,
       Halves
<1>13. ASSUME NEW t \in Threads, CallRelease(t) PROVE IsaInv'
  BY <1>13 DEF CallRelease, Goto, Unlock, Free, MayUse, local, IsaInv, LockInv, HolderInv, TypeOK,
       Halves
<1>14. ASSUME NEW t \in Threads, ReleaseInline(t) PROVE IsaInv'
  BY <1>14, ReleaseInlineEffect DEF ReleaseInline, Released, Goto, Unlock, Free, MayUse, local,
       IsaInv, LockInv, HolderInv, TypeOK, IsaIs, EntryIs, Halves
<1>15. ASSUME NEW t \in Threads, ReleaseLock(t) PROVE IsaInv'
  BY <1>15 DEF ReleaseLock, Underflow, Goto, Unlock, Free, MayUse, local, IsaInv, LockInv,
       HolderInv, TypeOK, Halves
<1>16. ASSUME NEW t \in Threads, Borrow(t) PROVE IsaInv'
  <2>1. Halves'
    BY <1>16, HalfLess, BorrowEffect DEF Borrow, Underflow, IsaInv, HolderInv, Halves, EntryIs
  <2> QED
    BY <1>16, <2>1, BorrowEffect DEF Borrow, Underflow, Goto, Unlock, Free, MayUse, local, IsaInv,
         LockInv, HolderInv, TypeOK, IsaIs, EntryIs
<1>17. ASSUME NEW t \in Threads, StoreBorrowed(t) PROVE IsaInv'
  BY <1>17, StoreBorrowedEffect DEF StoreBorrowed, Released, Goto, Unlock, Free, MayUse, local,
       IsaInv, LockInv, HolderInv, TypeOK, IsaIs, EntryIs, Halves
<1>18. ASSUME NEW t \in Threads, PutBack(t) PROVE IsaInv'
  <2>1. Halves'
    BY <1>18, HalfMore, PutBackEffect DEF PutBack, IsaInv, HolderInv, Halves, EntryIs
  <2> QED
    BY <1>18, <2>1, PutBackEffect DEF PutBack, Goto, Unlock, Free, MayUse, local, IsaInv, LockInv,
         HolderInv, TypeOK, IsaIs, EntryIs
<1>19. ASSUME NEW t \in Threads, ReleaseLast(t) PROVE IsaInv'
  BY <1>19, DiesEffect DEF ReleaseLast, Underflow, Dies, Released, Goto, Unlock, Free, MayUse,
       local, IsaInv, LockInv, HolderInv, TypeOK, IsaIs, EntryIs, Halves
<1>20. ASSUME NEW t \in Threads, Retry(t) PROVE IsaInv'
  BY <1>20 DEF Retry, Goto, Unlock, Free, MayUse, local, IsaInv, LockInv, HolderInv, TypeOK, Halves
<1>21. ASSUME NEW t \in Threads, ReleaseRaw(t) PROVE IsaInv'
  BY <1>21 DEF ReleaseRaw, Goto, Unlock, Free, MayUse, local, IsaInv, LockInv, HolderInv, TypeOK,
       Halves
<1>22. ASSUME NEW t \in Threads, SidetableRelease(t) PROVE IsaInv'
  BY <1>22, SidetableReleaseEffect DEF SidetableRelease, Released, Goto, Unlock, Free, MayUse,
       local, IsaInv, LockInv, HolderInv, TypeOK, IsaIs, EntryIs, Halves
<1>23. ASSUME NEW t \in Threads, SetHasAssociatedObjects(t) PROVE IsaInv'
  BY <1>23, SetAssocEffect DEF SetHasAssociatedObjects, Goto, Unlock, Free, MayUse, local, IsaInv,
       LockInv, HolderInv, TypeOK, IsaIs, EntryIs, Halves
<1>24. ASSUME NEW t \in Threads, ChangeIsa(t) PROVE IsaInv'
  BY <1>24 DEF ChangeIsa, Goto, Unlock, Free, MayUse, local, IsaInv, LockInv, HolderInv, TypeOK,
       Halves
<1>25. ASSUME NEW t \in Threads, StoreRaw(t) PROVE IsaInv'
  BY <1>25, StoreRawEffect DEF StoreRaw, Goto, Unlock, Free, MayUse, local, IsaInv, LockInv,
       HolderInv, TypeOK, IsaIs, EntryIs, Halves
<1>26. ASSUME NEW t \in Threads, MoveExtraRC(t) PROVE IsaInv'
  BY <1>26, MoveExtraRCEffect DEF MoveExtraRC, Goto, Unlock, Free, MayUse, local, IsaInv, LockInv,
       HolderInv, TypeOK, IsaIs, EntryIs, Halves
<1>27. ASSUME NEW t \in Threads, RootDealloc(t) PROVE IsaInv'
  BY <1>27 DEF RootDealloc, Goto, Unlock, Free, MayUse, local, IsaInv, LockInv, HolderInv, TypeOK,
       Halves
<1>28. ASSUME NEW t \in Threads, ClearDeallocating(t) PROVE IsaInv'
  <2>1. ASSUME ~isa.raw PROVE Halves'
    BY <1>28, <2>1, HalfNone, ClearEffect DEF IsaInv, Halves, EntryIs
  <2> QED
    BY <1>28, <2>1, ClearEffect DEF ClearDeallocating, Goto, Unlock, Free, MayUse, local, IsaInv,
         LockInv, HolderInv, TypeOK, IsaIs, EntryIs
<1>29. ASSUME NEW t \in Threads, FreeObject(t) PROVE IsaInv'
  BY <1>29 DEF FreeObject, Goto, Unlock, Free, MayUse, local, IsaInv, LockInv, HolderInv, TypeOK,
       Halves
<1>30. ASSUME NEW t \in Threads, NEW u \in Threads, HandOver(t, u) PROVE IsaInv'
  BY <1>30 DEF HandOver, MayUse, local, Halves, IsaInv, LockInv, HolderInv, TypeOK
<1> QED
  BY <1>1, <1>2, <1>3, <1>4, <1>5, <1>6, <1>7, <1>8, <1>9, <1>10, <1>11, <1>12, <1>13, <1>14,
       <1>15, <1>16, <1>17, <1>18, <1>19, <1>20, <1>21, <1>22, <1>23, <1>24, <1>25, <1>26, <1>27,
       <1>28, <1>29, <1>30
  DEF Next, RetainStep, WeakStep, ReleaseStep, OtherStep

LEMMA HolderStep == IInv /\ [Next]_vars => HolderInv'
<1> SUFFICES ASSUME IInv, [Next]_vars
             PROVE  HolderInv'
  OBVIOUS
<1> USE Types, HalfType DEF IInv
<1>1. CASE UNCHANGED vars
  BY <1>1, ConstantsAssumption DEF vars, local, HolderInv, IsaInv, LockInv, TypeOK, Steps
<1>2. ASSUME NEW t \in Threads, CallRetain(t) PROVE HolderInv'
  BY <1>2, ConstantsAssumption DEF CallRetain, Goto, Unlock, Free, MayUse, local, HolderInv,
       IsaInv, LockInv, TypeOK, Steps
<1>3. ASSUME NEW t \in Threads, RetainInline(t) PROVE HolderInv'
  BY <1>3, ConstantsAssumption, RetainInlineEffect DEF RetainInline, Retained, Goto, Unlock, Free,
       MayUse, local, HolderInv, IsaInv, LockInv, TypeOK, Steps, IsaIs, EntryIs
<1>4. ASSUME NEW t \in Threads, RetainLock(t) PROVE HolderInv'
  BY <1>4, ConstantsAssumption DEF RetainLock, Goto, Unlock, Free, MayUse, local, HolderInv,
       IsaInv, LockInv, TypeOK, Steps
<1>5. ASSUME NEW t \in Threads, RetainOverflow(t) PROVE HolderInv'
  BY <1>5, ConstantsAssumption, RetainOverflowEffect DEF RetainOverflow, Goto, Unlock, Free,
       MayUse, local, HolderInv, IsaInv, LockInv, TypeOK, Steps, IsaIs, EntryIs
<1>6. ASSUME NEW t \in Threads, Transcribe(t) PROVE HolderInv'
  BY <1>6, ConstantsAssumption, TranscribeEffect DEF Transcribe, Retained, Goto, Unlock, Free,
       MayUse, local, HolderInv, IsaInv, LockInv, TypeOK, Steps, IsaIs, EntryIs
<1>7. ASSUME NEW t \in Threads, RetainRaw(t) PROVE HolderInv'
  BY <1>7, ConstantsAssumption DEF RetainRaw, Goto, Unlock, Free, MayUse, local, HolderInv, IsaInv,
       LockInv, TypeOK, Steps
<1>8. ASSUME NEW t \in Threads, SidetableRetain(t) PROVE HolderInv'
  BY <1>8, ConstantsAssumption, SidetableRetainEffect DEF SidetableRetain, Retained, Goto, Unlock,
       Free, MayUse, local, HolderInv, IsaInv, LockInv, TypeOK, Steps, IsaIs, EntryIs
<1>9. ASSUME NEW t \in Threads, StoreWeak(t) PROVE HolderInv'
  BY <1>9, ConstantsAssumption, StoreWeakEffect DEF StoreWeak, Goto, Unlock, Free, MayUse, local,
       HolderInv, IsaInv, LockInv, TypeOK, Steps, IsaIs, EntryIs
<1>10. ASSUME NEW t \in Threads, LoadWeak(t) PROVE HolderInv'
  BY <1>10, ConstantsAssumption DEF LoadWeak, Goto, Unlock, Free, MayUse, local, HolderInv, IsaInv,
       LockInv, TypeOK, Steps
<1>11. ASSUME NEW t \in Threads, LoadWeakLocked(t) PROVE HolderInv'
  BY <1>11, ConstantsAssumption DEF LoadWeakLocked, Goto, Unlock, Free, MayUse, local, HolderInv,
       IsaInv, LockInv, TypeOK, Steps
<1>12. ASSUME NEW t \in Threads, TryFails(t) PROVE HolderInv'
  BY <1>12, ConstantsAssumption DEF TryFails, Goto, Unlock, Free, MayUse, local, HolderInv, IsaInv,
       LockInv, TypeOK, Steps
<1>13. ASSUME NEW t \in Threads, CallRelease(t) PROVE HolderInv'
  BY <1>13, ConstantsAssumption DEF CallRelease, Goto, Unlock, Free, MayUse, local, HolderInv,
       IsaInv, LockInv, TypeOK, Steps
<1>14. ASSUME NEW t \in Threads, ReleaseInline(t) PROVE HolderInv'
  BY <1>14, ConstantsAssumption, ReleaseInlineEffect DEF ReleaseInline, Released, Goto, Unlock,
       Free, MayUse, local, HolderInv, IsaInv, LockInv, TypeOK, Steps, IsaIs, EntryIs
<1>15. ASSUME NEW t \in Threads, ReleaseLock(t) PROVE HolderInv'
  BY <1>15, ConstantsAssumption DEF ReleaseLock, Underflow, Goto, Unlock, Free, MayUse, local,
       HolderInv, IsaInv, LockInv, TypeOK, Steps
<1>16. ASSUME NEW t \in Threads, Borrow(t) PROVE HolderInv'
  BY <1>16, ConstantsAssumption, BorrowEffect DEF Borrow, Underflow, Goto, Unlock, Free, MayUse,
       local, HolderInv, IsaInv, LockInv, TypeOK, Steps, IsaIs, EntryIs
<1>17. ASSUME NEW t \in Threads, StoreBorrowed(t) PROVE HolderInv'
  BY <1>17, ConstantsAssumption, StoreBorrowedEffect DEF StoreBorrowed, Released, Goto, Unlock,
       Free, MayUse, local, HolderInv, IsaInv, LockInv, TypeOK, Steps, IsaIs, EntryIs
<1>18. ASSUME NEW t \in Threads, PutBack(t) PROVE HolderInv'
  BY <1>18, ConstantsAssumption, PutBackEffect DEF PutBack, Goto, Unlock, Free, MayUse, local,
       HolderInv, IsaInv, LockInv, TypeOK, Steps, IsaIs, EntryIs
<1>19. ASSUME NEW t \in Threads, ReleaseLast(t) PROVE HolderInv'
  BY <1>19, ConstantsAssumption, DiesEffect, ZenonT(40)
      DEF ReleaseLast, Underflow, Dies, Released, Goto, Unlock, Free, MayUse, local, HolderInv, IsaInv, LockInv, TypeOK, Steps, IsaIs, EntryIs
<1>20. ASSUME NEW t \in Threads, Retry(t) PROVE HolderInv'
  BY <1>20, ConstantsAssumption DEF Retry, Goto, Unlock, Free, MayUse, local, HolderInv, IsaInv,
       LockInv, TypeOK, Steps
<1>21. ASSUME NEW t \in Threads, ReleaseRaw(t) PROVE HolderInv'
  BY <1>21, ConstantsAssumption DEF ReleaseRaw, Goto, Unlock, Free, MayUse, local, HolderInv,
       IsaInv, LockInv, TypeOK, Steps
<1>22. ASSUME NEW t \in Threads, SidetableRelease(t) PROVE HolderInv'
  BY <1>22, ConstantsAssumption, SidetableReleaseEffect DEF SidetableRelease, Released, Goto,
       Unlock, Free, MayUse, local, HolderInv, IsaInv, LockInv, TypeOK, Steps, IsaIs, EntryIs
<1>23. ASSUME NEW t \in Threads, SetHasAssociatedObjects(t) PROVE HolderInv'
  BY <1>23, ConstantsAssumption, SetAssocEffect DEF SetHasAssociatedObjects, Goto, Unlock, Free,
       MayUse, local, HolderInv, IsaInv, LockInv, TypeOK, Steps, IsaIs, EntryIs
<1>24. ASSUME NEW t \in Threads, ChangeIsa(t) PROVE HolderInv'
  BY <1>24, ConstantsAssumption DEF ChangeIsa, Goto, Unlock, Free, MayUse, local, HolderInv,
       IsaInv, LockInv, TypeOK, Steps
<1>25. ASSUME NEW t \in Threads, StoreRaw(t) PROVE HolderInv'
  BY <1>25, ConstantsAssumption, StoreRawEffect DEF StoreRaw, Goto, Unlock, Free, MayUse, local,
       HolderInv, IsaInv, LockInv, TypeOK, Steps, IsaIs, EntryIs
<1>26. ASSUME NEW t \in Threads, MoveExtraRC(t) PROVE HolderInv'
  BY <1>26, ConstantsAssumption, MoveExtraRCEffect DEF MoveExtraRC, Goto, Unlock, Free, MayUse,
       local, HolderInv, IsaInv, LockInv, TypeOK, Steps, IsaIs, EntryIs
<1>27. ASSUME NEW t \in Threads, RootDealloc(t) PROVE HolderInv'
  BY <1>27, ConstantsAssumption DEF RootDealloc, Goto, Unlock, Free, MayUse, local, HolderInv,
       IsaInv, LockInv, TypeOK, Steps
<1>28. ASSUME NEW t \in Threads, ClearDeallocating(t) PROVE HolderInv'
  BY <1>28, ConstantsAssumption, ClearEffect DEF ClearDeallocating, Goto, Unlock, Free, MayUse,
       local, HolderInv, IsaInv, LockInv, TypeOK, Steps, IsaIs, EntryIs
<1>29. ASSUME NEW t \in Threads, FreeObject(t) PROVE HolderInv'
  BY <1>29, ConstantsAssumption DEF FreeObject, Goto, Unlock, Free, MayUse, local, HolderInv,
       IsaInv, LockInv, TypeOK, Steps
<1>30. ASSUME NEW t \in Threads, NEW u \in Threads, HandOver(t, u) PROVE HolderInv'
  BY <1>30, ConstantsAssumption DEF HandOver, MayUse, local, HolderInv, IsaInv, LockInv, TypeOK,
       Steps
<1> QED
  BY <1>1, <1>2, <1>3, <1>4, <1>5, <1>6, <1>7, <1>8, <1>9, <1>10, <1>11, <1>12, <1>13, <1>14,
       <1>15, <1>16, <1>17, <1>18, <1>19, <1>20, <1>21, <1>22, <1>23, <1>24, <1>25, <1>26, <1>27,
       <1>28, <1>29, <1>30
  DEF Next, RetainStep, WeakStep, ReleaseStep, OtherStep

LEMMA WeakVarStep == IInv /\ [Next]_vars => WeakInv'
<1> SUFFICES ASSUME IInv, [Next]_vars
             PROVE  WeakInv'
  OBVIOUS
<1> USE Types, HalfType DEF IInv
<1>1. CASE UNCHANGED vars
  BY <1>1, ConstantsAssumption DEF vars, local, WeakInv, Doing, Erased, HolderInv, IsaInv, LockInv,
       DyingInv, TypeOK, Steps
<1>2. ASSUME NEW t \in Threads, CallRetain(t) PROVE WeakInv'
  BY <1>2, ConstantsAssumption DEF CallRetain, Goto, Unlock, Free, MayUse, local, WeakInv, Doing,
       Erased, HolderInv, IsaInv, LockInv, DyingInv, TypeOK, Steps
<1>3. ASSUME NEW t \in Threads, RetainInline(t) PROVE WeakInv'
  BY <1>3, ConstantsAssumption, RetainInlineEffect DEF RetainInline, Retained, Goto, Unlock, Free,
       MayUse, local, WeakInv, Doing, Erased, HolderInv, IsaInv, LockInv, DyingInv, TypeOK, Steps,
       IsaIs, EntryIs
<1>4. ASSUME NEW t \in Threads, RetainLock(t) PROVE WeakInv'
  BY <1>4, ConstantsAssumption DEF RetainLock, Goto, Unlock, Free, MayUse, local, WeakInv, Doing,
       Erased, HolderInv, IsaInv, LockInv, DyingInv, TypeOK, Steps
<1>5. ASSUME NEW t \in Threads, RetainOverflow(t) PROVE WeakInv'
  BY <1>5, ConstantsAssumption, RetainOverflowEffect DEF RetainOverflow, Goto, Unlock, Free,
       MayUse, local, WeakInv, Doing, Erased, HolderInv, IsaInv, LockInv, DyingInv, TypeOK, Steps,
       IsaIs, EntryIs
<1>6. ASSUME NEW t \in Threads, Transcribe(t) PROVE WeakInv'
  <2>1. ~Erased' /\ ~Erased
    BY <1>6, ErasedQuiet DEF Transcribe, Retained, Goto, Underflow, Erased, TypeOK, LockInv,
         WeakInv, IInv
  <2> QED
    BY <1>6, ConstantsAssumption, TranscribeEffect, <2>1 DEF Transcribe, Retained, Goto, Unlock,
         WeakInv, Doing, HolderInv, IsaInv, LockInv, TypeOK, Steps, IsaIs, EntryIs
<1>7. ASSUME NEW t \in Threads, RetainRaw(t) PROVE WeakInv'
  BY <1>7, ConstantsAssumption DEF RetainRaw, Goto, Unlock, Free, MayUse, local, WeakInv, Doing,
       Erased, HolderInv, IsaInv, LockInv, DyingInv, TypeOK, Steps
<1>8. ASSUME NEW t \in Threads, SidetableRetain(t) PROVE WeakInv'
  <2>1. ~Erased' /\ ~Erased
    BY <1>8, ErasedQuiet DEF SidetableRetain, Retained, Goto, Underflow, Erased, TypeOK, LockInv,
         WeakInv, IInv
  <2> QED
    BY <1>8, ConstantsAssumption, SidetableRetainEffect, <2>1 DEF SidetableRetain, Retained, Goto,
         Unlock, WeakInv, Doing, HolderInv, IsaInv, LockInv, TypeOK, Steps, IsaIs, EntryIs
<1>9. ASSUME NEW t \in Threads, StoreWeak(t) PROVE WeakInv'
  BY <1>9, ConstantsAssumption, StoreWeakEffect DEF StoreWeak, Goto, Unlock, Free, MayUse, local,
       WeakInv, Doing, Erased, HolderInv, IsaInv, LockInv, DyingInv, TypeOK, Steps, IsaIs, EntryIs
<1>10. ASSUME NEW t \in Threads, LoadWeak(t) PROVE WeakInv'
  BY <1>10, ConstantsAssumption DEF LoadWeak, Goto, Unlock, Free, MayUse, local, WeakInv, Doing,
       Erased, HolderInv, IsaInv, LockInv, DyingInv, TypeOK, Steps
<1>11. ASSUME NEW t \in Threads, LoadWeakLocked(t) PROVE WeakInv'
  BY <1>11, ConstantsAssumption DEF LoadWeakLocked, Goto, Unlock, Free, MayUse, local, WeakInv,
       Doing, Erased, HolderInv, IsaInv, LockInv, DyingInv, TypeOK, Steps
<1>12. ASSUME NEW t \in Threads, TryFails(t) PROVE WeakInv'
  BY <1>12, ConstantsAssumption DEF TryFails, Goto, Unlock, Free, MayUse, local, WeakInv, Doing,
       Erased, HolderInv, IsaInv, LockInv, DyingInv, TypeOK, Steps
<1>13. ASSUME NEW t \in Threads, CallRelease(t) PROVE WeakInv'
  BY <1>13, ConstantsAssumption DEF CallRelease, Goto, Unlock, Free, MayUse, local, WeakInv, Doing,
       Erased, HolderInv, IsaInv, LockInv, DyingInv, TypeOK, Steps
<1>14. ASSUME NEW t \in Threads, ReleaseInline(t) PROVE WeakInv'
  BY <1>14, ConstantsAssumption, ReleaseInlineEffect DEF ReleaseInline, Released, Goto, Unlock,
       Free, MayUse, local, WeakInv, Doing, Erased, HolderInv, IsaInv, LockInv, DyingInv, TypeOK,
       Steps, IsaIs, EntryIs
<1>15. ASSUME NEW t \in Threads, ReleaseLock(t) PROVE WeakInv'
  BY <1>15, ConstantsAssumption DEF ReleaseLock, Underflow, Goto, Unlock, Free, MayUse, local,
       WeakInv, Doing, Erased, HolderInv, IsaInv, LockInv, DyingInv, TypeOK, Steps
<1>16. ASSUME NEW t \in Threads, Borrow(t) PROVE WeakInv'
  BY <1>16, ConstantsAssumption, BorrowEffect DEF Borrow, Underflow, Goto, Unlock, Free, MayUse,
       local, WeakInv, Doing, Erased, HolderInv, IsaInv, LockInv, DyingInv, TypeOK, Steps, IsaIs,
       EntryIs
<1>17. ASSUME NEW t \in Threads, StoreBorrowed(t) PROVE WeakInv'
  BY <1>17, ConstantsAssumption, StoreBorrowedEffect DEF StoreBorrowed, Released, Goto, Unlock,
       Free, MayUse, local, WeakInv, Doing, Erased, HolderInv, IsaInv, LockInv, DyingInv, TypeOK,
       Steps, IsaIs, EntryIs
<1>18. ASSUME NEW t \in Threads, PutBack(t) PROVE WeakInv'
  <2>1. ~Erased' /\ ~Erased
    BY <1>18, ErasedQuiet DEF PutBack, Goto, Underflow, Erased, TypeOK, LockInv, WeakInv, IInv
  <2> QED
    BY <1>18, ConstantsAssumption, PutBackEffect, <2>1 DEF PutBack, Goto, Unlock, WeakInv, Doing,
         HolderInv, IsaInv, LockInv, TypeOK, Steps, IsaIs, EntryIs
<1>19. ASSUME NEW t \in Threads, ReleaseLast(t) PROVE WeakInv'
  <2>1. pc[t] \in {"release", "empty"} /\ Dies(t)
    BY <1>19 DEF ReleaseLast, Underflow
  <2>2. ~Erased
    BY <2>1, ErasedQuiet
  <2>3. ~Erased'
    BY <2>1, <2>2 DEF Dies, Released, Goto, Erased, TypeOK
  <2> QED
    BY <2>1, <2>2, <2>3, ConstantsAssumption, DiesEffect DEF Dies, Released, Goto, Unlock, WeakInv,
         Doing, HolderInv, IsaInv, LockInv, TypeOK, Steps, IsaIs
<1>20. ASSUME NEW t \in Threads, Retry(t) PROVE WeakInv'
  BY <1>20, ConstantsAssumption DEF Retry, Goto, Unlock, Free, MayUse, local, WeakInv, Doing,
       Erased, HolderInv, IsaInv, LockInv, DyingInv, TypeOK, Steps
<1>21. ASSUME NEW t \in Threads, ReleaseRaw(t) PROVE WeakInv'
  BY <1>21, ConstantsAssumption DEF ReleaseRaw, Goto, Unlock, Free, MayUse, local, WeakInv, Doing,
       Erased, HolderInv, IsaInv, LockInv, DyingInv, TypeOK, Steps
<1>22. ASSUME NEW t \in Threads, SidetableRelease(t) PROVE WeakInv'
  <2>1. ~Erased' /\ ~Erased
    BY <1>22, ErasedQuiet DEF SidetableRelease, Released, Goto, Underflow, Erased, TypeOK, LockInv,
         WeakInv, IInv
  <2> QED
    BY <1>22, ConstantsAssumption, SidetableReleaseEffect, <2>1 DEF SidetableRelease, Released,
         Goto, Unlock, WeakInv, Doing, HolderInv, IsaInv, LockInv, TypeOK, Steps, IsaIs, EntryIs
<1>23. ASSUME NEW t \in Threads, SetHasAssociatedObjects(t) PROVE WeakInv'
  BY <1>23, ConstantsAssumption, SetAssocEffect DEF SetHasAssociatedObjects, Goto, Unlock, Free,
       MayUse, local, WeakInv, Doing, Erased, HolderInv, IsaInv, LockInv, DyingInv, TypeOK, Steps,
       IsaIs, EntryIs
<1>24. ASSUME NEW t \in Threads, ChangeIsa(t) PROVE WeakInv'
  BY <1>24, ConstantsAssumption DEF ChangeIsa, Goto, Unlock, Free, MayUse, local, WeakInv, Doing,
       Erased, HolderInv, IsaInv, LockInv, DyingInv, TypeOK, Steps
<1>25. ASSUME NEW t \in Threads, StoreRaw(t) PROVE WeakInv'
  BY <1>25, ConstantsAssumption, StoreRawEffect DEF StoreRaw, Goto, Unlock, Free, MayUse, local,
       WeakInv, Doing, Erased, HolderInv, IsaInv, LockInv, DyingInv, TypeOK, Steps, IsaIs, EntryIs
<1>26. ASSUME NEW t \in Threads, MoveExtraRC(t) PROVE WeakInv'
  <2>1. ~Erased' /\ ~Erased
    BY <1>26, ErasedQuiet DEF MoveExtraRC, Goto, Underflow, Erased, TypeOK, LockInv, WeakInv, IInv
  <2> QED
    BY <1>26, ConstantsAssumption, MoveExtraRCEffect, <2>1 DEF MoveExtraRC, Goto, Unlock, WeakInv,
         Doing, HolderInv, IsaInv, LockInv, TypeOK, Steps, IsaIs, EntryIs
<1>27. ASSUME NEW t \in Threads, RootDealloc(t) PROVE WeakInv'
  BY <1>27, ConstantsAssumption DEF RootDealloc, Goto, Unlock, Free, MayUse, local, WeakInv, Doing,
       Erased, HolderInv, IsaInv, LockInv, DyingInv, TypeOK, Steps
<1>28. ASSUME NEW t \in Threads, ClearDeallocating(t) PROVE WeakInv'
  <2>1. ~weakVar'
    <3>1. CASE isa.raw \/ isa.weakly_referenced \/ isa.has_sidetable_rc
      <4>1. weakVar => isa.weakly_referenced \/ table.weak
        BY <1>28, <3>1, ConstantsAssumption DEF ClearDeallocating, Free, WeakInv, Doing
      <4> QED
        BY <1>28, <3>1, <4>1 DEF ClearDeallocating, TypeOK
    <3>2. CASE ~(isa.raw \/ isa.weakly_referenced \/ isa.has_sidetable_rc)
      <4>1. ~weakVar
        BY <3>2 DEF WeakInv, IsaInv, Doing, HolderInv
      <4> QED
        BY <1>28, <3>2, <4>1 DEF ClearDeallocating
    <3> QED
      BY <3>1, <3>2
  <2>2. ~table'.in /\ table'.rc = 0
    <3>1. CASE isa.raw \/ isa.has_sidetable_rc
      BY <1>28, <3>1, EntryNone DEF ClearDeallocating, EntryIs
    <3>2. CASE ~(isa.raw \/ isa.has_sidetable_rc)
      BY <1>28, <3>2 DEF ClearDeallocating, IsaInv
    <3> QED
      BY <3>1, <3>2
  <2> QED
    BY <2>1, <2>2 DEF WeakInv
<1>29. ASSUME NEW t \in Threads, FreeObject(t) PROVE WeakInv'
  BY <1>29, ConstantsAssumption DEF FreeObject, Goto, Unlock, Free, MayUse, local, WeakInv, Doing,
       Erased, HolderInv, IsaInv, LockInv, DyingInv, TypeOK, Steps
<1>30. ASSUME NEW t \in Threads, NEW u \in Threads, HandOver(t, u) PROVE WeakInv'
  BY <1>30, ConstantsAssumption DEF HandOver, MayUse, local, WeakInv, Doing, Erased, HolderInv,
       IsaInv, LockInv, DyingInv, TypeOK, Steps
<1> QED
  BY <1>1, <1>2, <1>3, <1>4, <1>5, <1>6, <1>7, <1>8, <1>9, <1>10, <1>11, <1>12, <1>13, <1>14,
       <1>15, <1>16, <1>17, <1>18, <1>19, <1>20, <1>21, <1>22, <1>23, <1>24, <1>25, <1>26, <1>27,
       <1>28, <1>29, <1>30
  DEF Next, RetainStep, WeakStep, ReleaseStep, OtherStep

-----------------------------------------------------------------------------
\* The references there are, as a number each thread holds.
Num(t)  == owned[t] + (IF AtHand(t) THEN 1 ELSE 0)
Held    == [t \in Threads |-> Num(t)]
Refs(n) == UNION {{t} \X (1..n[t]) : t \in Threads}

LEMMA HeldType ==
    ASSUME TypeOK
    PROVE  Held \in [Threads -> Nat] /\ References = Refs(Held)
<1>1. \A t \in Threads : Num(t) \in Nat
  BY DEF Num, TypeOK
<1>2. References = Refs(Held)
  BY DEF References, Refs, Held, Num
<1> QED
  BY <1>1, <1>2 DEF Held

LEMMA InRefs ==
    ASSUME NEW n \in [Threads -> Nat], NEW x
    PROVE  x \in Refs(n) <=> \E t \in Threads : \E i \in 1..n[t] : x = <<t, i>>
  BY DEF Refs

LEMMA OneMore ==
    ASSUME NEW n \in [Threads -> Nat], NEW t \in Threads, IsFiniteSet(Refs(n)),
           NEW m, m = [n EXCEPT ![t] = n[t] + 1]
    PROVE  /\ m \in [Threads -> Nat]
           /\ IsFiniteSet(Refs(m))
           /\ Cardinality(Refs(m)) = Cardinality(Refs(n)) + 1
<1>1. m \in [Threads -> Nat] /\ m[t] = n[t] + 1 /\ \A u \in Threads : u # t => m[u] = n[u]
  OBVIOUS
<1>2. <<t, n[t] + 1>> \notin Refs(n)
  BY InRefs
<1>3. ASSUME NEW x PROVE x \in Refs(m) <=> x \in Refs(n) \cup {<<t, n[t] + 1>>}
  <2>1. ASSUME x \in Refs(m) PROVE x \in Refs(n) \cup {<<t, n[t] + 1>>}
    <3>0. PICK u \in Threads : \E i \in 1..m[u] : x = <<u, i>>
      BY <2>1 DEF Refs
    <3>1. PICK i \in 1..m[u] : x = <<u, i>>
      BY <3>0
    <3>2. CASE u = t /\ i = n[t] + 1
      BY <3>1, <3>2
    <3>3. CASE ~(u = t /\ i = n[t] + 1)
      <4>1. i \in 1..n[u]
        BY <1>1, <3>1, <3>3
      <4> QED
        BY <3>1, <4>1, InRefs
    <3> QED
      BY <3>2, <3>3
  <2>2. ASSUME x \in Refs(n) PROVE x \in Refs(m)
    <3>0. PICK u \in Threads : \E i \in 1..n[u] : x = <<u, i>>
      BY <2>2, InRefs
    <3>1. PICK i \in 1..n[u] : x = <<u, i>>
      BY <3>0
    <3>2. i \in 1..m[u]
      BY <1>1, <3>1
    <3> QED
      BY <1>1, <3>1, <3>2, InRefs
  <2>3. <<t, n[t] + 1>> \in Refs(m)
    <3>1. n[t] + 1 \in 1..m[t]
      BY <1>1
    <3> QED
      BY <1>1, <3>1, InRefs
  <2> QED
    BY <2>1, <2>2, <2>3
<1>4. Refs(m) = Refs(n) \cup {<<t, n[t] + 1>>}
  <2> DEFINE S == Refs(n) \cup {<<t, n[t] + 1>>}
  <2>1. \A x : x \in Refs(m) <=> x \in S
    BY <1>3
  <2> HIDE DEF S
  <2>2. Refs(m) = S
    BY <2>1
  <2> QED
    BY <2>2 DEF S
<1> QED
  <2> DEFINE e == <<t, n[t] + 1>>
  <2>1. e \notin Refs(n) /\ Refs(m) = Refs(n) \cup {e}
    BY <1>2, <1>4
  <2> HIDE DEF e
  <2>2. /\ IsFiniteSet(Refs(n) \cup {e})
        /\ Cardinality(Refs(n) \cup {e}) = Cardinality(Refs(n)) + 1
    BY <2>1, FS_AddElement
  <2> QED
    BY <1>1, <2>1, <2>2

LEMMA OneLess ==
    ASSUME NEW n \in [Threads -> Nat], NEW t \in Threads, IsFiniteSet(Refs(n)), n[t] > 0,
           NEW m, m = [n EXCEPT ![t] = n[t] - 1]
    PROVE  /\ m \in [Threads -> Nat]
           /\ IsFiniteSet(Refs(m))
           /\ Cardinality(Refs(m)) = Cardinality(Refs(n)) - 1
<1>1. m \in [Threads -> Nat] /\ n = [m EXCEPT ![t] = m[t] + 1]
  <2>1. n[t] - 1 \in Nat
    OBVIOUS
  <2>2. m \in [Threads -> Nat] /\ m[t] = n[t] - 1
    BY <2>1
  <2>3. \A u \in Threads : n[u] = [m EXCEPT ![t] = m[t] + 1][u]
    BY <2>2
  <2> QED
    BY <2>2, <2>3
<1>2. Refs(m) \subseteq Refs(n)
  <2>1. ASSUME NEW x \in Refs(m) PROVE x \in Refs(n)
    <3>0. PICK u \in Threads : \E i \in 1..m[u] : x = <<u, i>>
      BY <1>1, InRefs
    <3>1. PICK i \in 1..m[u] : x = <<u, i>>
      BY <3>0
    <3>2. i \in 1..n[u]
      BY <1>1, <3>1
    <3> QED
      BY <3>1, <3>2, InRefs
  <2> QED
    BY <2>1
<1>3. IsFiniteSet(Refs(m))
  BY <1>2, FS_Subset
<1>4. Cardinality(Refs(n)) = Cardinality(Refs(m)) + 1
  BY <1>1, <1>3, OneMore
<1>5. Cardinality(Refs(m)) \in Nat
  BY <1>3, FS_CardinalityType
<1> QED
  BY <1>1, <1>3, <1>4, <1>5

\* When the counts are zero, the one reference there is is that of t.
LEMMA LastReference ==
    ASSUME IInv, NEW t \in Threads, AtHand(t), Count = IF Dying THEN 0 ELSE 1
    PROVE  /\ ~Dying
           /\ owned[t] = 0
           /\ \A u \in Threads : u # t => owned[u] = 0 /\ ~AtHand(u)
<1> USE DEF IInv
<1>1. Held \in [Threads -> Nat] /\ References = Refs(Held)
  BY HeldType
<1>2. \A u \in Threads : owned[u] \in Nat /\ Held[u] = owned[u] + (IF AtHand(u) THEN 1 ELSE 0)
  BY DEF Held, Num, TypeOK
<1>3. ASSUME NEW u \in Threads, NEW i \in 1..Held[u] PROVE <<u, i>> \in References
  BY <1>1, InRefs
<1>4. 1 \in 1..Held[t]
  BY <1>2
<1>5. Cardinality(References) # 0
  BY <1>3, <1>4, FS_EmptySet DEF CountInv
<1>6. ~Dying /\ Cardinality(References) = 1
  BY <1>5 DEF CountInv
<1>7. PICK x : References = {x}
  BY <1>6, FS_Singleton DEF CountInv
<1>8. x = <<t, 1>>
  BY <1>3, <1>4, <1>7
<1>9. owned[t] = 0
  <2>1. SUFFICES ASSUME owned[t] # 0 PROVE FALSE
    OBVIOUS
  <2>2. 2 \in 1..Held[t]
    BY <1>2, <2>1
  <2> QED
    BY <1>3, <1>7, <1>8, <2>2
<1>10. ASSUME NEW u \in Threads, u # t PROVE owned[u] = 0 /\ ~AtHand(u)
  <2>1. SUFFICES ASSUME ~(owned[u] = 0 /\ ~AtHand(u)) PROVE FALSE
    OBVIOUS
  <2>2. 1 \in 1..Held[u]
    BY <1>2, <2>1
  <2> QED
    BY <1>3, <1>7, <1>8, <1>10, <2>2
<1> QED
  BY <1>6, <1>9, <1>10


\* Nothing is left where a release finds nothing.
LEMMA ReleaseLastIsLast ==
    ASSUME IInv, NEW t \in Threads, ReleaseLast(t)
    PROVE  /\ AtHand(t) /\ isa.extra_rc = 0 /\ table.rc = 0 /\ InTransit = 0
           /\ ~Dying
           /\ owned[t] = 0
           /\ \A u \in Threads : u # t => owned[u] = 0 /\ ~AtHand(u)
<1> USE Types, HalfType DEF IInv
<1>1. isa.extra_rc = 0 /\ table.rc = 0 /\ AtHand(t)
  BY DEF ReleaseLast, Underflow, AtHand, HolderInv, IsaInv
<1>2. InTransit = 0
  <2>1. CASE Underflow(t) /\ ~isa.has_sidetable_rc
    BY <2>1 DEF Underflow, HolderInv, InTransit, Doing
  <2>2. CASE pc[t] = "empty"
    BY <2>2 DEF LockInv, InTransit, Doing
  <2> QED
    BY <2>1, <2>2 DEF ReleaseLast
<1>3. Count = IF Dying THEN 0 ELSE 1
  BY <1>1, <1>2 DEF Count
<1> QED
  BY <1>1, <1>2, <1>3, LastReference

LEMMA SidetableReleaseIsLast ==
    ASSUME IInv, NEW t \in Threads, SidetableRelease(t), table.rc = 0
    PROVE  /\ AtHand(t) /\ isa.extra_rc = 0 /\ InTransit = 0
           /\ ~Dying
           /\ owned[t] = 0
           /\ \A u \in Threads : u # t => owned[u] = 0 /\ ~AtHand(u)
<1> USE Types, HalfType DEF IInv
<1>1. isa.extra_rc = 0 /\ AtHand(t)
  BY DEF SidetableRelease, AtHand, HolderInv, IsaInv
<1>2. InTransit = 0
  BY ConstantsAssumption DEF SidetableRelease, Free, InTransit, Doing
<1>3. Count = IF Dying THEN 0 ELSE 1
  BY <1>1, <1>2 DEF Count
<1> QED
  BY <1>1, <1>2, <1>3, LastReference


LEMMA DyingStep == IInv /\ [Next]_vars => DyingInv'
<1> SUFFICES ASSUME IInv, [Next]_vars
             PROVE  DyingInv'
  OBVIOUS
<1> USE Types, HalfType DEF IInv
<1>1. CASE UNCHANGED vars
  BY <1>1, ConstantsAssumption DEF vars, local, DyingInv, Dying, Using, AtHand, Doing, Erased,
       WeakInv, HolderInv, IsaInv, LockInv, TypeOK, Steps
<1>2. ASSUME NEW t \in Threads, CallRetain(t) PROVE DyingInv'
  BY <1>2, ConstantsAssumption DEF CallRetain, Goto, Unlock, Free, MayUse, local, DyingInv, Dying,
       Using, AtHand, Doing, Erased, WeakInv, HolderInv, IsaInv, LockInv, TypeOK, Steps
<1>3. ASSUME NEW t \in Threads, RetainInline(t) PROVE DyingInv'
  BY <1>3, ConstantsAssumption, RetainInlineEffect DEF RetainInline, Retained, Goto, Unlock, Free,
       MayUse, local, DyingInv, Dying, Using, AtHand, Doing, Erased, WeakInv, HolderInv, IsaInv,
       LockInv, TypeOK, Steps, IsaIs, EntryIs
<1>4. ASSUME NEW t \in Threads, RetainLock(t) PROVE DyingInv'
  BY <1>4, ConstantsAssumption DEF RetainLock, Goto, Unlock, Free, MayUse, local, DyingInv, Dying,
       Using, AtHand, Doing, Erased, WeakInv, HolderInv, IsaInv, LockInv, TypeOK, Steps
<1>5. ASSUME NEW t \in Threads, RetainOverflow(t) PROVE DyingInv'
  BY <1>5, ConstantsAssumption, RetainOverflowEffect DEF RetainOverflow, Goto, Unlock, Free,
       MayUse, local, DyingInv, Dying, Using, AtHand, Doing, Erased, WeakInv, HolderInv, IsaInv,
       LockInv, TypeOK, Steps, IsaIs, EntryIs
<1>6. ASSUME NEW t \in Threads, Transcribe(t) PROVE DyingInv'
  BY <1>6, ConstantsAssumption, TranscribeEffect DEF Transcribe, Retained, Goto, Unlock, Free,
       MayUse, local, DyingInv, Dying, Using, AtHand, Doing, Erased, WeakInv, HolderInv, IsaInv,
       LockInv, TypeOK, Steps, IsaIs, EntryIs
<1>7. ASSUME NEW t \in Threads, RetainRaw(t) PROVE DyingInv'
  BY <1>7, ConstantsAssumption DEF RetainRaw, Goto, Unlock, Free, MayUse, local, DyingInv, Dying,
       Using, AtHand, Doing, Erased, WeakInv, HolderInv, IsaInv, LockInv, TypeOK, Steps
<1>8. ASSUME NEW t \in Threads, SidetableRetain(t) PROVE DyingInv'
  BY <1>8, ConstantsAssumption, SidetableRetainEffect DEF SidetableRetain, Retained, Goto, Unlock,
       Free, MayUse, local, DyingInv, Dying, Using, AtHand, Doing, Erased, WeakInv, HolderInv,
       IsaInv, LockInv, TypeOK, Steps, IsaIs, EntryIs
<1>9. ASSUME NEW t \in Threads, StoreWeak(t) PROVE DyingInv'
  BY <1>9, ConstantsAssumption, StoreWeakEffect DEF StoreWeak, Goto, Unlock, Free, MayUse, local,
       DyingInv, Dying, Using, AtHand, Doing, Erased, WeakInv, HolderInv, IsaInv, LockInv, TypeOK,
       Steps, IsaIs, EntryIs
<1>10. ASSUME NEW t \in Threads, LoadWeak(t) PROVE DyingInv'
  BY <1>10, ConstantsAssumption DEF LoadWeak, Goto, Unlock, Free, MayUse, local, DyingInv, Dying,
       Using, AtHand, Doing, Erased, WeakInv, HolderInv, IsaInv, LockInv, TypeOK, Steps
<1>11. ASSUME NEW t \in Threads, LoadWeakLocked(t) PROVE DyingInv'
  BY <1>11, ConstantsAssumption DEF LoadWeakLocked, Goto, Unlock, Free, MayUse, local, DyingInv,
       Dying, Using, AtHand, Doing, Erased, WeakInv, HolderInv, IsaInv, LockInv, TypeOK, Steps
<1>12. ASSUME NEW t \in Threads, TryFails(t) PROVE DyingInv'
  BY <1>12, ConstantsAssumption DEF TryFails, Goto, Unlock, Free, MayUse, local, DyingInv, Dying,
       Using, AtHand, Doing, Erased, WeakInv, HolderInv, IsaInv, LockInv, TypeOK, Steps
<1>13. ASSUME NEW t \in Threads, CallRelease(t) PROVE DyingInv'
  BY <1>13, ConstantsAssumption DEF CallRelease, Goto, Unlock, Free, MayUse, local, DyingInv,
       Dying, Using, AtHand, Doing, Erased, WeakInv, HolderInv, IsaInv, LockInv, TypeOK, Steps
<1>14. ASSUME NEW t \in Threads, ReleaseInline(t) PROVE DyingInv'
  BY <1>14, ConstantsAssumption, ReleaseInlineEffect DEF ReleaseInline, Released, Goto, Unlock,
       Free, MayUse, local, DyingInv, Dying, Using, AtHand, Doing, Erased, WeakInv, HolderInv,
       IsaInv, LockInv, TypeOK, Steps, IsaIs, EntryIs
<1>15. ASSUME NEW t \in Threads, ReleaseLock(t) PROVE DyingInv'
  BY <1>15, ConstantsAssumption DEF ReleaseLock, Underflow, Goto, Unlock, Free, MayUse, local,
       DyingInv, Dying, Using, AtHand, Doing, Erased, WeakInv, HolderInv, IsaInv, LockInv, TypeOK,
       Steps
<1>16. ASSUME NEW t \in Threads, Borrow(t) PROVE DyingInv'
  BY <1>16, ConstantsAssumption, BorrowEffect DEF Borrow, Underflow, Goto, Unlock, Free, MayUse,
       local, DyingInv, Dying, Using, AtHand, Doing, Erased, WeakInv, HolderInv, IsaInv, LockInv,
       TypeOK, Steps, IsaIs, EntryIs
<1>17. ASSUME NEW t \in Threads, StoreBorrowed(t) PROVE DyingInv'
  BY <1>17, ConstantsAssumption, StoreBorrowedEffect, ZenonT(40)
      DEF StoreBorrowed, Released, Goto, Unlock, Free, MayUse, local, DyingInv, Dying, Using, AtHand, Doing, Erased, WeakInv, HolderInv,
       IsaInv, LockInv, TypeOK, Steps, IsaIs, EntryIs
<1>18. ASSUME NEW t \in Threads, PutBack(t) PROVE DyingInv'
  BY <1>18, ConstantsAssumption, PutBackEffect DEF PutBack, Goto, Unlock, Free, MayUse, local,
       DyingInv, Dying, Using, AtHand, Doing, Erased, WeakInv, HolderInv, IsaInv, LockInv, TypeOK,
       Steps, IsaIs, EntryIs
<1>19. ASSUME NEW t \in Threads, ReleaseLast(t) PROVE DyingInv'
  <2>1. Dies(t) /\ pc[t] \in {"release", "empty"}
    BY <1>19 DEF ReleaseLast, Underflow
  <2>2. ~Dying /\ owned[t] = 0 /\ \A u \in Threads : u # t => owned[u] = 0 /\ ~AtHand(u)
    BY <1>19, ReleaseLastIsLast
  <2>3. isa'.deallocating /\ deallocator' = t
    BY <2>1, <2>2, DiesEffect DEF Dies, IsaIs, Dying
  <2>4. ASSUME NEW u \in Threads
        PROVE  /\ ~Using(u)'
               /\ u # t => owned'[u] = 0 /\ ~AtHand(u)'
               /\ ~(pc'[u] \in {"dispose", "free"})
    <3>1. ~Using(u) /\ deallocator = NoThread
      BY <2>2, ConstantsAssumption DEF DyingInv
    <3> QED
      BY <2>1, <2>2, <3>1, ConstantsAssumption DEF Dies, Released, Goto, Using, AtHand, DyingInv,
           TypeOK
  <2>5. ~freed'
    BY <2>1, <2>2 DEF Dies, Released, Dying, Erased
  <2> QED
    BY <2>3, <2>4, <2>5, ConstantsAssumption DEF DyingInv, Dying
<1>20. ASSUME NEW t \in Threads, Retry(t) PROVE DyingInv'
  BY <1>20, ConstantsAssumption DEF Retry, Goto, Unlock, Free, MayUse, local, DyingInv, Dying,
       Using, AtHand, Doing, Erased, WeakInv, HolderInv, IsaInv, LockInv, TypeOK, Steps
<1>21. ASSUME NEW t \in Threads, ReleaseRaw(t) PROVE DyingInv'
  BY <1>21, ConstantsAssumption DEF ReleaseRaw, Goto, Unlock, Free, MayUse, local, DyingInv, Dying,
       Using, AtHand, Doing, Erased, WeakInv, HolderInv, IsaInv, LockInv, TypeOK, Steps
<1>22. ASSUME NEW t \in Threads, SidetableRelease(t) PROVE DyingInv'
  <2>0. pc[t] = "sidetable_release" /\ Released(t) /\ Free
    BY <1>22 DEF SidetableRelease
  <2>1. CASE table.rc = 0
    <3>2. ~Dying /\ owned[t] = 0 /\ \A u \in Threads : u # t => owned[u] = 0 /\ ~AtHand(u)
      BY <1>22, <2>1, SidetableReleaseIsLast
    <3>3. table'.deallocating /\ deallocator' = t
      BY <1>22, <2>1, <3>2, SidetableReleaseEffect DEF SidetableRelease, EntryIs, Dying
    <3>4. ASSUME NEW u \in Threads
          PROVE  /\ ~Using(u)'
                 /\ u # t => owned'[u] = 0 /\ ~AtHand(u)'
                 /\ ~(pc'[u] \in {"dispose", "free"})
      <4>1. ~Using(u) /\ deallocator = NoThread
        BY <3>2, ConstantsAssumption DEF DyingInv
      <4> QED
        BY <2>0, <3>2, <4>1, ConstantsAssumption DEF Released, Goto, Using, AtHand, DyingInv, TypeOK
    <3>5. ~freed'
      BY <2>0, <3>2 DEF Released, Dying, Erased
    <3> QED
      BY <3>3, <3>4, <3>5, ConstantsAssumption DEF DyingInv, Dying
  <2>2. CASE table.rc # 0
    <3>1. table'.deallocating = table.deallocating /\ UNCHANGED <<isa, deallocator>>
      BY <1>22, <2>2, SidetableReleaseEffect DEF SidetableRelease, EntryIs
    <3> QED
      BY <2>0, <3>1, ConstantsAssumption DEF Released, Goto, Unlock, Free, DyingInv, Dying, Using,
           AtHand, Doing, Erased, TypeOK
  <2> QED
    BY <2>1, <2>2
<1>23. ASSUME NEW t \in Threads, SetHasAssociatedObjects(t) PROVE DyingInv'
  BY <1>23, ConstantsAssumption, SetAssocEffect DEF SetHasAssociatedObjects, Goto, Unlock, Free,
       MayUse, local, DyingInv, Dying, Using, AtHand, Doing, Erased, WeakInv, HolderInv, IsaInv,
       LockInv, TypeOK, Steps, IsaIs, EntryIs
<1>24. ASSUME NEW t \in Threads, ChangeIsa(t) PROVE DyingInv'
  BY <1>24, ConstantsAssumption DEF ChangeIsa, Goto, Unlock, Free, MayUse, local, DyingInv, Dying,
       Using, AtHand, Doing, Erased, WeakInv, HolderInv, IsaInv, LockInv, TypeOK, Steps
<1>25. ASSUME NEW t \in Threads, StoreRaw(t) PROVE DyingInv'
  BY <1>25, ConstantsAssumption, StoreRawEffect, ZenonT(40)
      DEF StoreRaw, Goto, Unlock, Free, MayUse, local, DyingInv, Dying, Using, AtHand, Doing, Erased, WeakInv, HolderInv, IsaInv, LockInv, TypeOK,
       Steps, IsaIs, EntryIs
<1>26. ASSUME NEW t \in Threads, MoveExtraRC(t) PROVE DyingInv'
  BY <1>26, ConstantsAssumption, MoveExtraRCEffect DEF MoveExtraRC, Goto, Unlock, Free, MayUse,
       local, DyingInv, Dying, Using, AtHand, Doing, Erased, WeakInv, HolderInv, IsaInv, LockInv,
       TypeOK, Steps, IsaIs, EntryIs
<1>27. ASSUME NEW t \in Threads, RootDealloc(t) PROVE DyingInv'
  BY <1>27, ConstantsAssumption DEF RootDealloc, Goto, Unlock, Free, MayUse, local, DyingInv,
       Dying, Using, AtHand, Doing, Erased, WeakInv, HolderInv, IsaInv, LockInv, TypeOK, Steps
<1>28. ASSUME NEW t \in Threads, ClearDeallocating(t) PROVE DyingInv'
  BY <1>28, ConstantsAssumption, ClearEffect DEF ClearDeallocating, Goto, Unlock, Free, MayUse,
       local, DyingInv, Dying, Using, AtHand, Doing, Erased, WeakInv, HolderInv, IsaInv, LockInv,
       TypeOK, Steps, IsaIs, EntryIs
<1>29. ASSUME NEW t \in Threads, FreeObject(t) PROVE DyingInv'
  BY <1>29, ConstantsAssumption DEF FreeObject, Goto, Unlock, Free, MayUse, local, DyingInv, Dying,
       Using, AtHand, Doing, Erased, WeakInv, HolderInv, IsaInv, LockInv, TypeOK, Steps
<1>30. ASSUME NEW t \in Threads, NEW u \in Threads, HandOver(t, u) PROVE DyingInv'
  BY <1>30, ConstantsAssumption DEF HandOver, MayUse, local, DyingInv, Dying, Using, AtHand, Doing,
       Erased, WeakInv, HolderInv, IsaInv, LockInv, TypeOK, Steps
<1> QED
  BY <1>1, <1>2, <1>3, <1>4, <1>5, <1>6, <1>7, <1>8, <1>9, <1>10, <1>11, <1>12, <1>13, <1>14,
       <1>15, <1>16, <1>17, <1>18, <1>19, <1>20, <1>21, <1>22, <1>23, <1>24, <1>25, <1>26, <1>27,
       <1>28, <1>29, <1>30
  DEF Next, RetainStep, WeakStep, ReleaseStep, OtherStep

LEMMA HeldNext ==
    ASSUME TypeOK'
    PROVE  Held' = [t \in Threads |-> Num(t)'] /\ References' = Refs(Held')
<1>1. \A t \in Threads : Num(t)' \in Nat
  BY DEF Num, TypeOK
<1>2. References' = Refs(Held')
  BY DEF References, Refs, Held, Num
<1> QED
  BY <1>1, <1>2 DEF Held

LEMMA CountSame ==
    ASSUME IInv, TypeOK', \A t \in Threads : Num(t)' = Num(t), Count' = Count
    PROVE  CountInv'
<1>1. Held' = Held
  BY HeldNext DEF Held
<1> QED
  BY <1>1, HeldType, HeldNext DEF CountInv, IInv

LEMMA CountMore ==
    ASSUME IInv, TypeOK', NEW t \in Threads,
           Num(t)' = Num(t) + 1, \A u \in Threads : u # t => Num(u)' = Num(u),
           Count' = Count + 1
    PROVE  CountInv'
<1>1. Held' = [Held EXCEPT ![t] = Held[t] + 1]
  BY HeldNext DEF Held
<1>2. IsFiniteSet(Refs(Held)) /\ Held \in [Threads -> Nat] /\ Cardinality(Refs(Held)) = Count
  BY HeldType DEF CountInv, IInv
<1>3. IsFiniteSet(Refs(Held')) /\ Cardinality(Refs(Held')) = Count + 1
  BY <1>1, <1>2, OneMore
<1> QED
  BY <1>3, HeldNext DEF CountInv

LEMMA CountLess ==
    ASSUME IInv, TypeOK', NEW t \in Threads, Num(t) > 0,
           Num(t)' = Num(t) - 1, \A u \in Threads : u # t => Num(u)' = Num(u),
           Count' = Count - 1
    PROVE  CountInv'
<1>1. Held' = [Held EXCEPT ![t] = Held[t] - 1] /\ Held[t] > 0
  BY HeldNext DEF Held
<1>2. IsFiniteSet(Refs(Held)) /\ Held \in [Threads -> Nat] /\ Cardinality(Refs(Held)) = Count
  BY HeldType DEF CountInv, IInv
<1>3. IsFiniteSet(Refs(Held')) /\ Cardinality(Refs(Held')) = Count - 1
  BY <1>1, <1>2, OneLess
<1> QED
  BY <1>3, HeldNext DEF CountInv

LEMMA CountMoved ==
    ASSUME IInv, TypeOK', NEW t \in Threads, NEW u \in Threads, t # u, Num(t) > 0,
           Num(t)' = Num(t) - 1, Num(u)' = Num(u) + 1,
           \A v \in Threads \ {t, u} : Num(v)' = Num(v),
           Count' = Count
    PROVE  CountInv'
<1> DEFINE m == [Held EXCEPT ![t] = Held[t] - 1]
<1>1. Held[t] > 0 /\ Held \in [Threads -> Nat] /\ IsFiniteSet(Refs(Held)) /\ Cardinality(Refs(Held)) = Count
  BY HeldType DEF Held, CountInv, IInv
<1>2. m \in [Threads -> Nat] /\ IsFiniteSet(Refs(m)) /\ Cardinality(Refs(m)) = Count - 1
  BY <1>1, OneLess
<1>3. Held' = [m EXCEPT ![u] = m[u] + 1]
  BY <1>1, HeldNext DEF Held
<1>4. Count \in Nat
  BY <1>1, FS_CardinalityType
<1> HIDE DEF m
<1>5. IsFiniteSet(Refs(Held')) /\ Cardinality(Refs(Held')) = Count - 1 + 1
  BY <1>2, <1>3, OneMore
<1> QED
  BY <1>4, <1>5, HeldNext DEF CountInv


\* What a step may do to the count.
Counted ==
    \/ Count' = Count /\ (Dying' <=> Dying)
    \/ Count' = Count + 1 /\ (Dying' <=> Dying)
    \/ Count' = Count - 1 /\ (Dying' <=> Dying) /\ Count > (IF Dying THEN 0 ELSE 1)
    \/ Count = 1 /\ ~Dying /\ Count' = Count - 1 /\ Dying'


\* An object that is being cleared has no references.
LEMMA NoneWhenDisposed ==
    ASSUME IInv, NEW t \in Threads, pc[t] = "dispose"
    PROVE  isa.extra_rc = 0 /\ table.rc = 0
<1> USE Types, HalfType DEF IInv
<1>1. Dying /\ deallocator = t /\ owned[t] = 0
  BY ConstantsAssumption DEF DyingInv
<1>2. \A u \in Threads : Num(u) = 0
  BY <1>1 DEF DyingInv, Num, AtHand
<1>3. \A x : x \notin Refs(Held)
  BY <1>2 DEF Refs, Held
<1>4. References = {}
  BY <1>3, HeldType
<1>5. Count = 0
  BY <1>4, FS_EmptySet DEF CountInv
<1>6. InTransit \in Nat
  BY DEF InTransit
<1>7. isa.extra_rc \in Nat /\ table.rc \in Nat
  OBVIOUS
<1>8. isa.extra_rc + table.rc + InTransit + 0 = 0
  BY <1>1, <1>5 DEF Count
<1>9. \A k, m, n \in Nat : k + m + n + 0 = 0 => k = 0 /\ m = 0
  OBVIOUS
<1> QED
  BY <1>6, <1>7, <1>8, <1>9


LEMMA CountStep == IInv /\ [Next]_vars => CountInv' /\ Counted
<1> SUFFICES ASSUME IInv, [Next]_vars
             PROVE  CountInv' /\ Counted
  OBVIOUS
<1> USE Types, HalfType DEF IInv
<1>0. TypeOK' /\ DyingInv'
  BY TypeStep, DyingStep
<1>1. CASE UNCHANGED vars
  BY <1>1 DEF vars, local, Counted, CountInv, Count, References, InTransit, Doing, Dying, Erased,
       AtHand
<1>2. ASSUME NEW t \in Threads, CallRetain(t) PROVE CountInv' /\ Counted
  <2>1. \A u \in Threads : Num(u)' = Num(u)
    BY <1>2 DEF CallRetain, Goto, MayUse, local, Num, AtHand, TypeOK
  <2>2. InTransit' = InTransit
    BY <1>2, ConstantsAssumption DEF CallRetain, Goto, Unlock, Free, MayUse, local, InTransit,
         Doing, LockInv, HolderInv, TypeOK
  <2>3. Dying' <=> Dying
    BY <1>2, <1>0 DEF CallRetain, local, DyingInv
  <2>4. Count' = Count
    BY <1>2, <2>2, <2>3 DEF CallRetain, local, Count, InTransit, TypeOK
  <2> QED
    BY <1>0, <2>1, <2>3, <2>4, CountSame DEF Counted
<1>3. ASSUME NEW t \in Threads, RetainInline(t) PROVE CountInv' /\ Counted
  <2>1. Num(t)' = Num(t) + 1 /\ \A u \in Threads : u # t => Num(u)' = Num(u)
    BY <1>3 DEF RetainInline, Retained, Goto, MayUse, local, Num, AtHand, TypeOK
  <2>2. InTransit' = InTransit
    BY <1>3, ConstantsAssumption, RetainInlineEffect DEF RetainInline, Retained, Goto, Unlock,
         Free, MayUse, local, InTransit, Doing, LockInv, HolderInv, TypeOK, IsaIs, EntryIs
  <2>3. Dying' <=> Dying
    BY <1>3, <1>0 DEF RetainInline, Retained, local, DyingInv
  <2>4. Count' = Count + 1
    BY <1>3, <2>2, <2>3, RetainInlineEffect DEF RetainInline, Retained, local, Count, InTransit,
         TypeOK, IsaIs, EntryIs
  <2> QED
    BY <1>0, <2>1, <2>3, <2>4, CountMore DEF Counted
<1>4. ASSUME NEW t \in Threads, RetainLock(t) PROVE CountInv' /\ Counted
  <2>1. \A u \in Threads : Num(u)' = Num(u)
    BY <1>4 DEF RetainLock, Goto, MayUse, local, Num, AtHand, TypeOK
  <2>2. InTransit' = InTransit
    BY <1>4, ConstantsAssumption DEF RetainLock, Goto, Unlock, Free, MayUse, local, InTransit,
         Doing, LockInv, HolderInv, TypeOK
  <2>3. Dying' <=> Dying
    BY <1>4, <1>0 DEF RetainLock, local, DyingInv
  <2>4. Count' = Count
    BY <1>4, <2>2, <2>3 DEF RetainLock, local, Count, InTransit, TypeOK
  <2> QED
    BY <1>0, <2>1, <2>3, <2>4, CountSame DEF Counted
<1>5. ASSUME NEW t \in Threads, RetainOverflow(t) PROVE CountInv' /\ Counted
  <2>1. Num(t)' = Num(t) + 1 /\ \A u \in Threads : u # t => Num(u)' = Num(u)
    BY <1>5 DEF RetainOverflow, Goto, MayUse, local, Num, AtHand, TypeOK
  <2>2. InTransit = 0 /\ InTransit' = RC_HALF
    BY <1>5, ConstantsAssumption, RetainOverflowEffect DEF RetainOverflow, Goto, Unlock, Free,
         MayUse, local, InTransit, Doing, LockInv, HolderInv, TypeOK, IsaIs, EntryIs
  <2>3. Dying' <=> Dying
    BY <1>5, <1>0 DEF RetainOverflow, local, DyingInv
  <2>4. Count' = Count + 1
    BY <1>5, <2>2, <2>3, RetainOverflowEffect DEF RetainOverflow, local, Count, InTransit, TypeOK,
         IsaIs, EntryIs
  <2> QED
    BY <1>0, <2>1, <2>3, <2>4, CountMore DEF Counted
<1>6. ASSUME NEW t \in Threads, Transcribe(t) PROVE CountInv' /\ Counted
  <2>1. \A u \in Threads : Num(u)' = Num(u)
    BY <1>6 DEF Transcribe, Retained, Goto, MayUse, local, Num, AtHand, TypeOK
  <2>2. InTransit = RC_HALF /\ InTransit' = 0
    BY <1>6, ConstantsAssumption, TranscribeEffect DEF Transcribe, Retained, Goto, Unlock, Free,
         MayUse, local, InTransit, Doing, LockInv, HolderInv, TypeOK, IsaIs, EntryIs
  <2>3. Dying' <=> Dying
    BY <1>6, <1>0 DEF Transcribe, Retained, local, DyingInv
  <2>4. Count' = Count
    BY <1>6, <2>2, <2>3, TranscribeEffect DEF Transcribe, Retained, local, Count, InTransit,
         TypeOK, IsaIs, EntryIs
  <2> QED
    BY <1>0, <2>1, <2>3, <2>4, CountSame DEF Counted
<1>7. ASSUME NEW t \in Threads, RetainRaw(t) PROVE CountInv' /\ Counted
  <2>1. \A u \in Threads : Num(u)' = Num(u)
    BY <1>7 DEF RetainRaw, Goto, MayUse, local, Num, AtHand, TypeOK
  <2>2. InTransit' = InTransit
    BY <1>7, ConstantsAssumption DEF RetainRaw, Goto, Unlock, Free, MayUse, local, InTransit,
         Doing, LockInv, HolderInv, TypeOK
  <2>3. Dying' <=> Dying
    BY <1>7, <1>0 DEF RetainRaw, local, DyingInv
  <2>4. Count' = Count
    BY <1>7, <2>2, <2>3 DEF RetainRaw, local, Count, InTransit, TypeOK
  <2> QED
    BY <1>0, <2>1, <2>3, <2>4, CountSame DEF Counted
<1>8. ASSUME NEW t \in Threads, SidetableRetain(t) PROVE CountInv' /\ Counted
  <2>1. Num(t)' = Num(t) + 1 /\ \A u \in Threads : u # t => Num(u)' = Num(u)
    BY <1>8 DEF SidetableRetain, Retained, Goto, MayUse, local, Num, AtHand, TypeOK
  <2>2. InTransit' = InTransit
    BY <1>8, ConstantsAssumption, SidetableRetainEffect DEF SidetableRetain, Retained, Goto,
         Unlock, Free, MayUse, local, InTransit, Doing, LockInv, HolderInv, TypeOK, IsaIs, EntryIs
  <2>3. Dying' <=> Dying
    BY <1>8, <1>0 DEF SidetableRetain, Retained, local, DyingInv
  <2>4. Count' = Count + 1
    BY <1>8, <2>2, <2>3, SidetableRetainEffect DEF SidetableRetain, Retained, local, Count,
         InTransit, TypeOK, IsaIs, EntryIs
  <2> QED
    BY <1>0, <2>1, <2>3, <2>4, CountMore DEF Counted
<1>9. ASSUME NEW t \in Threads, StoreWeak(t) PROVE CountInv' /\ Counted
  <2>1. \A u \in Threads : Num(u)' = Num(u)
    BY <1>9 DEF StoreWeak, Goto, MayUse, local, Num, AtHand, TypeOK
  <2>2. InTransit' = InTransit
    BY <1>9, ConstantsAssumption, StoreWeakEffect DEF StoreWeak, Goto, Unlock, Free, MayUse, local,
         InTransit, Doing, LockInv, HolderInv, TypeOK, IsaIs, EntryIs
  <2>3. Dying' <=> Dying
    BY <1>9, <1>0 DEF StoreWeak, local, DyingInv
  <2>4. Count' = Count
    BY <1>9, <2>2, <2>3, StoreWeakEffect DEF StoreWeak, local, Count, InTransit, TypeOK, IsaIs,
         EntryIs
  <2> QED
    BY <1>0, <2>1, <2>3, <2>4, CountSame DEF Counted
<1>10. ASSUME NEW t \in Threads, LoadWeak(t) PROVE CountInv' /\ Counted
  <2>1. \A u \in Threads : Num(u)' = Num(u)
    BY <1>10 DEF LoadWeak, Goto, MayUse, local, Num, AtHand, TypeOK
  <2>2. InTransit' = InTransit
    BY <1>10, ConstantsAssumption DEF LoadWeak, Goto, Unlock, Free, MayUse, local, InTransit,
         Doing, LockInv, HolderInv, TypeOK
  <2>3. Dying' <=> Dying
    BY <1>10, <1>0 DEF LoadWeak, local, DyingInv
  <2>4. Count' = Count
    BY <1>10, <2>2, <2>3 DEF LoadWeak, local, Count, InTransit, TypeOK
  <2> QED
    BY <1>0, <2>1, <2>3, <2>4, CountSame DEF Counted
<1>11. ASSUME NEW t \in Threads, LoadWeakLocked(t) PROVE CountInv' /\ Counted
  <2>1. \A u \in Threads : Num(u)' = Num(u)
    BY <1>11 DEF LoadWeakLocked, Goto, MayUse, local, Num, AtHand, TypeOK
  <2>2. InTransit' = InTransit
    BY <1>11, ConstantsAssumption DEF LoadWeakLocked, Goto, Unlock, Free, MayUse, local, InTransit,
         Doing, LockInv, HolderInv, TypeOK
  <2>3. Dying' <=> Dying
    BY <1>11, <1>0 DEF LoadWeakLocked, local, DyingInv
  <2>4. Count' = Count
    BY <1>11, <2>2, <2>3 DEF LoadWeakLocked, local, Count, InTransit, TypeOK
  <2> QED
    BY <1>0, <2>1, <2>3, <2>4, CountSame DEF Counted
<1>12. ASSUME NEW t \in Threads, TryFails(t) PROVE CountInv' /\ Counted
  <2>1. \A u \in Threads : Num(u)' = Num(u)
    BY <1>12 DEF TryFails, Goto, MayUse, local, Num, AtHand, TypeOK
  <2>2. InTransit' = InTransit
    BY <1>12, ConstantsAssumption DEF TryFails, Goto, Unlock, Free, MayUse, local, InTransit,
         Doing, LockInv, HolderInv, TypeOK
  <2>3. Dying' <=> Dying
    BY <1>12, <1>0 DEF TryFails, local, DyingInv
  <2>4. Count' = Count
    BY <1>12, <2>2, <2>3 DEF TryFails, local, Count, InTransit, TypeOK
  <2> QED
    BY <1>0, <2>1, <2>3, <2>4, CountSame DEF Counted
<1>13. ASSUME NEW t \in Threads, CallRelease(t) PROVE CountInv' /\ Counted
  <2>1. \A u \in Threads : Num(u)' = Num(u)
    BY <1>13 DEF CallRelease, Goto, MayUse, local, Num, AtHand, TypeOK
  <2>2. InTransit' = InTransit
    BY <1>13, ConstantsAssumption DEF CallRelease, Goto, Unlock, Free, MayUse, local, InTransit,
         Doing, LockInv, HolderInv, TypeOK
  <2>3. Dying' <=> Dying
    BY <1>13, <1>0 DEF CallRelease, local, DyingInv
  <2>4. Count' = Count
    BY <1>13, <2>2, <2>3 DEF CallRelease, local, Count, InTransit, TypeOK
  <2> QED
    BY <1>0, <2>1, <2>3, <2>4, CountSame DEF Counted
<1>14. ASSUME NEW t \in Threads, ReleaseInline(t) PROVE CountInv' /\ Counted
  <2>1. Num(t) > 0 /\ Num(t)' = Num(t) - 1 /\ \A u \in Threads : u # t => Num(u)' = Num(u)
    BY <1>14 DEF ReleaseInline, Released, Goto, MayUse, local, Num, AtHand, TypeOK
  <2>2. InTransit' = InTransit
    BY <1>14, ConstantsAssumption, ReleaseInlineEffect DEF ReleaseInline, Released, Goto, Unlock,
         Free, MayUse, local, InTransit, Doing, LockInv, HolderInv, TypeOK, IsaIs, EntryIs
  <2>3. Dying' <=> Dying
    BY <1>14, <1>0 DEF ReleaseInline, Released, local, DyingInv
  <2>4. Count' = Count - 1 /\ Count > (IF Dying THEN 0 ELSE 1)
    BY <1>14, <2>2, <2>3, ReleaseInlineEffect DEF ReleaseInline, Released, local, Count, InTransit,
         TypeOK, IsaIs, EntryIs
  <2> QED
    BY <1>0, <2>1, <2>3, <2>4, CountLess DEF Counted
<1>15. ASSUME NEW t \in Threads, ReleaseLock(t) PROVE CountInv' /\ Counted
  <2>1. \A u \in Threads : Num(u)' = Num(u)
    BY <1>15 DEF ReleaseLock, Underflow, Goto, MayUse, local, Num, AtHand, TypeOK
  <2>2. InTransit' = InTransit
    BY <1>15, ConstantsAssumption DEF ReleaseLock, Underflow, Goto, Unlock, Free, MayUse, local,
         InTransit, Doing, LockInv, HolderInv, TypeOK
  <2>3. Dying' <=> Dying
    BY <1>15, <1>0 DEF ReleaseLock, Underflow, local, DyingInv
  <2>4. Count' = Count
    BY <1>15, <2>2, <2>3 DEF ReleaseLock, Underflow, local, Count, InTransit, TypeOK
  <2> QED
    BY <1>0, <2>1, <2>3, <2>4, CountSame DEF Counted
<1>16. ASSUME NEW t \in Threads, Borrow(t) PROVE CountInv' /\ Counted
  <2>1. \A u \in Threads : Num(u)' = Num(u)
    BY <1>16 DEF Borrow, Underflow, Goto, MayUse, local, Num, AtHand, TypeOK
  <2>2. InTransit = 0 /\ InTransit' = IF table.rc > 0 THEN RC_HALF ELSE 0
    BY <1>16, ConstantsAssumption, BorrowEffect DEF Borrow, Underflow, Goto, Unlock, Free, MayUse,
         local, InTransit, Doing, LockInv, HolderInv, TypeOK, IsaIs, EntryIs
  <2>3. Dying' <=> Dying
    BY <1>16, <1>0 DEF Borrow, Underflow, local, DyingInv
  <2>4. Count' = Count
    BY <1>16, <2>2, <2>3, BorrowEffect DEF Borrow, Underflow, local, Count, InTransit, TypeOK,
         IsaIs, EntryIs
  <2> QED
    BY <1>0, <2>1, <2>3, <2>4, CountSame DEF Counted
<1>17. ASSUME NEW t \in Threads, StoreBorrowed(t) PROVE CountInv' /\ Counted
  <2>1. Num(t) > 0 /\ Num(t)' = Num(t) - 1 /\ \A u \in Threads : u # t => Num(u)' = Num(u)
    BY <1>17 DEF StoreBorrowed, Released, Goto, MayUse, local, Num, AtHand, TypeOK
  <2>2. InTransit = RC_HALF /\ InTransit' = 0
    BY <1>17, ConstantsAssumption, StoreBorrowedEffect DEF StoreBorrowed, Released, Goto, Unlock,
         Free, MayUse, local, InTransit, Doing, LockInv, HolderInv, TypeOK, IsaIs, EntryIs
  <2>3. Dying' <=> Dying
    BY <1>17, <1>0 DEF StoreBorrowed, Released, local, DyingInv
  <2>4. Count' = Count - 1 /\ Count > (IF Dying THEN 0 ELSE 1)
    BY <1>17, <2>2, <2>3, StoreBorrowedEffect DEF StoreBorrowed, Released, local, Count, InTransit,
         TypeOK, IsaIs, EntryIs
  <2> QED
    BY <1>0, <2>1, <2>3, <2>4, CountLess DEF Counted
<1>18. ASSUME NEW t \in Threads, PutBack(t) PROVE CountInv' /\ Counted
  <2>1. \A u \in Threads : Num(u)' = Num(u)
    BY <1>18 DEF PutBack, Goto, MayUse, local, Num, AtHand, TypeOK
  <2>2. InTransit = RC_HALF /\ InTransit' = 0
    BY <1>18, ConstantsAssumption, PutBackEffect DEF PutBack, Goto, Unlock, Free, MayUse, local,
         InTransit, Doing, LockInv, HolderInv, TypeOK, IsaIs, EntryIs
  <2>3. Dying' <=> Dying
    BY <1>18, <1>0 DEF PutBack, local, DyingInv
  <2>4. Count' = Count
    BY <1>18, <2>2, <2>3, PutBackEffect DEF PutBack, local, Count, InTransit, TypeOK, IsaIs, EntryIs
  <2> QED
    BY <1>0, <2>1, <2>3, <2>4, CountSame DEF Counted
<1>19. ASSUME NEW t \in Threads, ReleaseLast(t) PROVE CountInv' /\ Counted
  <2>1. pc[t] \in {"release", "empty"} /\ Dies(t) /\ deallocator' = t
    BY <1>19, ReleaseLastIsLast DEF ReleaseLast, Underflow, Dies, Dying
  <2>2. Num(t) > 0 /\ Num(t)' = Num(t) - 1 /\ \A u \in Threads : u # t => Num(u)' = Num(u)
    BY <2>1 DEF Dies, Released, Goto, Num, AtHand, TypeOK
  <2>3. InTransit' = InTransit
    BY <2>1, ConstantsAssumption DEF Dies, Released, Goto, Unlock, InTransit, Doing, LockInv,
         HolderInv, TypeOK
  <2>4. ~Dying /\ Dying'
    BY <1>19, <1>0, <2>1, ReleaseLastIsLast, ConstantsAssumption DEF DyingInv
  <2>5. isa'.extra_rc = isa.extra_rc /\ table' = table
    BY <2>1, DiesEffect DEF Dies, IsaIs
  <2>6. Count' = Count - 1 /\ Count = 1
    BY <1>19, <2>3, <2>4, <2>5, ReleaseLastIsLast DEF Count
  <2> QED
    BY <1>0, <2>2, <2>4, <2>6, CountLess DEF Counted
<1>20. ASSUME NEW t \in Threads, Retry(t) PROVE CountInv' /\ Counted
  <2>1. \A u \in Threads : Num(u)' = Num(u)
    BY <1>20 DEF Retry, Goto, MayUse, local, Num, AtHand, TypeOK
  <2>2. InTransit' = InTransit
    BY <1>20, ConstantsAssumption DEF Retry, Goto, Unlock, Free, MayUse, local, InTransit, Doing,
         LockInv, HolderInv, TypeOK
  <2>3. Dying' <=> Dying
    BY <1>20, <1>0 DEF Retry, local, DyingInv
  <2>4. Count' = Count
    BY <1>20, <2>2, <2>3 DEF Retry, local, Count, InTransit, TypeOK
  <2> QED
    BY <1>0, <2>1, <2>3, <2>4, CountSame DEF Counted
<1>21. ASSUME NEW t \in Threads, ReleaseRaw(t) PROVE CountInv' /\ Counted
  <2>1. \A u \in Threads : Num(u)' = Num(u)
    BY <1>21 DEF ReleaseRaw, Goto, MayUse, local, Num, AtHand, TypeOK
  <2>2. InTransit' = InTransit
    BY <1>21, ConstantsAssumption DEF ReleaseRaw, Goto, Unlock, Free, MayUse, local, InTransit,
         Doing, LockInv, HolderInv, TypeOK
  <2>3. Dying' <=> Dying
    BY <1>21, <1>0 DEF ReleaseRaw, local, DyingInv
  <2>4. Count' = Count
    BY <1>21, <2>2, <2>3 DEF ReleaseRaw, local, Count, InTransit, TypeOK
  <2> QED
    BY <1>0, <2>1, <2>3, <2>4, CountSame DEF Counted
<1>22. ASSUME NEW t \in Threads, SidetableRelease(t) PROVE CountInv' /\ Counted
  <2>1. pc[t] = "sidetable_release" /\ Released(t) /\ Free /\ isa' = isa
    BY <1>22 DEF SidetableRelease
  <2>2. Num(t) > 0 /\ Num(t)' = Num(t) - 1 /\ \A u \in Threads : u # t => Num(u)' = Num(u)
    BY <2>1 DEF Released, Goto, Num, AtHand, TypeOK
  <2>3. InTransit' = InTransit /\ InTransit = 0
    BY <2>1, ConstantsAssumption DEF Released, Goto, Unlock, Free, InTransit, Doing, TypeOK
  <2>4. CASE table.rc = 0
    <3>1. ~Dying /\ isa.extra_rc = 0
      BY <1>22, <2>4, SidetableReleaseIsLast
    <3>2. Dying' /\ table'.rc = 0
      BY <1>22, <2>4, SidetableReleaseEffect DEF EntryIs, Dying
    <3>3. Count' = Count - 1 /\ Count = 1
      BY <2>1, <2>3, <2>4, <3>1, <3>2 DEF Count
    <3> QED
      BY <1>0, <2>2, <3>1, <3>2, <3>3, CountLess DEF Counted
  <2>5. CASE table.rc # 0
    <3>1. table'.rc = table.rc - 1 /\ deallocator' = deallocator
      BY <1>22, <2>5, SidetableReleaseEffect DEF SidetableRelease, EntryIs
    <3>2. Dying' <=> Dying
      BY <1>0, <3>1 DEF DyingInv
    <3>3. Count' = Count - 1 /\ Count > (IF Dying THEN 0 ELSE 1)
      BY <2>1, <2>3, <2>5, <3>1, <3>2 DEF Count
    <3> QED
      BY <1>0, <2>2, <3>2, <3>3, CountLess DEF Counted
  <2> QED
    BY <2>4, <2>5
<1>23. ASSUME NEW t \in Threads, SetHasAssociatedObjects(t) PROVE CountInv' /\ Counted
  <2>1. \A u \in Threads : Num(u)' = Num(u)
    BY <1>23 DEF SetHasAssociatedObjects, Goto, MayUse, local, Num, AtHand, TypeOK
  <2>2. InTransit' = InTransit
    BY <1>23, ConstantsAssumption, SetAssocEffect DEF SetHasAssociatedObjects, Goto, Unlock, Free,
         MayUse, local, InTransit, Doing, LockInv, HolderInv, TypeOK, IsaIs, EntryIs
  <2>3. Dying' <=> Dying
    BY <1>23, <1>0 DEF SetHasAssociatedObjects, local, DyingInv
  <2>4. Count' = Count
    BY <1>23, <2>2, <2>3, SetAssocEffect DEF SetHasAssociatedObjects, local, Count, InTransit,
         TypeOK, IsaIs, EntryIs
  <2> QED
    BY <1>0, <2>1, <2>3, <2>4, CountSame DEF Counted
<1>24. ASSUME NEW t \in Threads, ChangeIsa(t) PROVE CountInv' /\ Counted
  <2>1. \A u \in Threads : Num(u)' = Num(u)
    BY <1>24 DEF ChangeIsa, Goto, MayUse, local, Num, AtHand, TypeOK
  <2>2. InTransit' = InTransit
    BY <1>24, ConstantsAssumption DEF ChangeIsa, Goto, Unlock, Free, MayUse, local, InTransit,
         Doing, LockInv, HolderInv, TypeOK
  <2>3. Dying' <=> Dying
    BY <1>24, <1>0 DEF ChangeIsa, local, DyingInv
  <2>4. Count' = Count
    BY <1>24, <2>2, <2>3 DEF ChangeIsa, local, Count, InTransit, TypeOK
  <2> QED
    BY <1>0, <2>1, <2>3, <2>4, CountSame DEF Counted
<1>25. ASSUME NEW t \in Threads, StoreRaw(t) PROVE CountInv' /\ Counted
  <2>1. \A u \in Threads : Num(u)' = Num(u)
    BY <1>25 DEF StoreRaw, Goto, MayUse, local, Num, AtHand, TypeOK
  <2>2. InTransit = 0 /\ InTransit' = isa.extra_rc
    BY <1>25, ConstantsAssumption, StoreRawEffect DEF StoreRaw, Goto, Unlock, Free, MayUse, local,
         InTransit, Doing, LockInv, HolderInv, TypeOK, IsaIs, EntryIs
  <2>3. Dying' <=> Dying
    BY <1>25, <1>0 DEF StoreRaw, local, DyingInv
  <2>4. isa'.extra_rc = 0 /\ table' = table
    BY <1>25, StoreRawEffect DEF StoreRaw, IsaIs
  <2>5. Count' = Count
    BY <2>2, <2>3, <2>4 DEF Count
  <2> QED
    BY <1>0, <2>1, <2>3, <2>5, CountSame DEF Counted
<1>26. ASSUME NEW t \in Threads, MoveExtraRC(t) PROVE CountInv' /\ Counted
  <2>1. \A u \in Threads : Num(u)' = Num(u)
    BY <1>26 DEF MoveExtraRC, Goto, MayUse, local, Num, AtHand, TypeOK
  <2>2. InTransit = loaded.extra_rc /\ InTransit' = 0
    BY <1>26, ConstantsAssumption, MoveExtraRCEffect DEF MoveExtraRC, Goto, Unlock, Free, MayUse,
         local, InTransit, Doing, LockInv, HolderInv, TypeOK, IsaIs, EntryIs
  <2>3. Dying' <=> Dying
    BY <1>26, <1>0 DEF MoveExtraRC, local, DyingInv
  <2>4. Count' = Count
    BY <1>26, <2>2, <2>3, MoveExtraRCEffect DEF MoveExtraRC, local, Count, InTransit, TypeOK,
         IsaIs, EntryIs
  <2> QED
    BY <1>0, <2>1, <2>3, <2>4, CountSame DEF Counted
<1>27. ASSUME NEW t \in Threads, RootDealloc(t) PROVE CountInv' /\ Counted
  <2>1. \A u \in Threads : Num(u)' = Num(u)
    BY <1>27 DEF RootDealloc, Goto, MayUse, local, Num, AtHand, TypeOK
  <2>2. InTransit' = InTransit
    BY <1>27, ConstantsAssumption DEF RootDealloc, Goto, Unlock, Free, MayUse, local, InTransit,
         Doing, LockInv, HolderInv, TypeOK
  <2>3. Dying' <=> Dying
    BY <1>27, <1>0 DEF RootDealloc, local, DyingInv
  <2>4. Count' = Count
    BY <1>27, <2>2, <2>3 DEF RootDealloc, local, Count, InTransit, TypeOK
  <2> QED
    BY <1>0, <2>1, <2>3, <2>4, CountSame DEF Counted
<1>28. ASSUME NEW t \in Threads, ClearDeallocating(t) PROVE CountInv' /\ Counted
  <2>1. \A u \in Threads : Num(u)' = Num(u)
    BY <1>28 DEF ClearDeallocating, Goto, MayUse, local, Num, AtHand, TypeOK
  <2>2. InTransit' = InTransit
    BY <1>28, ConstantsAssumption DEF ClearDeallocating, Goto, Free, InTransit, Doing, LockInv,
         TypeOK
  <2>3. Dying' <=> Dying
    BY <1>28, <1>0 DEF ClearDeallocating, DyingInv
  <2>4. table'.rc = table.rc /\ isa' = isa
    BY <1>28, NoneWhenDisposed, ClearEffect DEF ClearDeallocating, EntryIs
  <2>5. Count' = Count
    BY <2>2, <2>3, <2>4 DEF Count
  <2> QED
    BY <1>0, <2>1, <2>3, <2>5, CountSame DEF Counted
<1>29. ASSUME NEW t \in Threads, FreeObject(t) PROVE CountInv' /\ Counted
  <2>1. \A u \in Threads : Num(u)' = Num(u)
    BY <1>29 DEF FreeObject, Goto, MayUse, local, Num, AtHand, TypeOK
  <2>2. InTransit' = InTransit
    BY <1>29, ConstantsAssumption DEF FreeObject, Goto, Unlock, Free, MayUse, local, InTransit,
         Doing, LockInv, HolderInv, TypeOK
  <2>3. Dying' <=> Dying
    BY <1>29, <1>0 DEF FreeObject, local, DyingInv
  <2>4. Count' = Count
    BY <1>29, <2>2, <2>3 DEF FreeObject, local, Count, InTransit, TypeOK
  <2> QED
    BY <1>0, <2>1, <2>3, <2>4, CountSame DEF Counted
<1>30. ASSUME NEW t \in Threads, NEW u \in Threads, HandOver(t, u) PROVE CountInv' /\ Counted
  <2>1. /\ Num(t) > 0 /\ Num(t)' = Num(t) - 1 /\ Num(u)' = Num(u) + 1 /\ t # u
        /\ \A v \in Threads \ {t, u} : Num(v)' = Num(v)
    BY <1>30 DEF HandOver, MayUse, Num, AtHand, TypeOK
  <2>2. UNCHANGED <<isa, table, lock, loaded, pc, freed>>
    BY <1>30 DEF HandOver
  <2>3. Count' = Count /\ (Dying' <=> Dying)
    BY <2>2 DEF Count, InTransit, Doing, Dying, Erased
  <2> QED
    BY <1>0, <2>1, <2>3, CountMoved DEF Counted
<1> QED
  BY <1>1, <1>2, <1>3, <1>4, <1>5, <1>6, <1>7, <1>8, <1>9, <1>10, <1>11, <1>12, <1>13, <1>14,
       <1>15, <1>16, <1>17, <1>18, <1>19, <1>20, <1>21, <1>22, <1>23, <1>24, <1>25, <1>26, <1>27,
       <1>28, <1>29, <1>30
  DEF Next, RetainStep, WeakStep, ReleaseStep, OtherStep

-----------------------------------------------------------------------------
LEMMA InitInv == Init => IInv
<1> SUFFICES ASSUME Init PROVE IInv
  OBVIOUS
<1> USE HalfType
<1>1. PICK t \in Threads : owned = [u \in Threads |-> IF u = t THEN 1 ELSE 0]
  BY DEF Init
<1>2. IsaIs(RC_FULL, isa, FALSE, 0, FALSE, FALSE, FALSE) /\ EntryIs(table, FALSE, 0, FALSE, FALSE)
  BY NewBits, EntryNone DEF Init
<1>3. IsaBits = IsaTo(RC_FULL) /\ [in : BOOLEAN, rc : Nat, deallocating : BOOLEAN,
weak : BOOLEAN] = Entry
  BY DEF IsaBits, IsaTo, Entry
<1>4. \A u \in Threads : pc[u] = "idle" /\ try[u] = FALSE
  BY DEF Init
<1>5. TypeOK
  <2>1. owned \in [Threads -> Nat]
    BY <1>1
  <2>2. isa \in IsaBits /\ loaded \in IsaBits /\ table \in Entry
    BY <1>2, <1>3 DEF Init, IsaIs, EntryIs
  <2> QED
    BY <1>3, <2>1, <2>2 DEF Init, TypeOK, Steps
<1>6. LockInv /\ HolderInv
  BY <1>4 DEF LockInv, HolderInv
<1>7. IsaInv
  BY <1>2, HalfNone DEF IsaInv, IsaIs, EntryIs, Halves
<1>8. ~Doing("move") /\ ~Doing("transcribe") /\ ~Doing("borrowed")
  BY <1>4 DEF Doing
<1>9. ~Dying /\ ~Erased
  BY <1>2, <1>4, <1>8 DEF Init, Dying, Erased, IsaIs, EntryIs
<1>10. WeakInv
  BY <1>9 DEF Init, WeakInv
<1>11. DyingInv
  BY <1>4, <1>9 DEF Init, DyingInv, Using
<1>12. Count = 1
  BY <1>2, <1>8, <1>9 DEF Count, InTransit, IsaIs, EntryIs
<1>13. \A u \in Threads : ~AtHand(u)
  BY <1>4 DEF AtHand
<1>14. \A x : x \in References <=> x = <<t, 1>>
  <2>1. Held \in [Threads -> Nat] /\ References = Refs(Held)
    BY <1>5, HeldType
  <2>2. \A u \in Threads : Held[u] = IF u = t THEN 1 ELSE 0
    BY <1>1, <1>13 DEF Held, Num
  <2>3. \A u \in Threads : \A i \in 1..Held[u] : u = t /\ i = 1
    BY <2>2
  <2>4. 1 \in 1..Held[t]
    BY <2>2
  <2>5. \A x : x \in Refs(Held) <=> \E u \in Threads : \E i \in 1..Held[u] : x = <<u, i>>
    BY <2>1, InRefs
  <2> QED
    BY <2>1, <2>3, <2>4, <2>5
<1>15. References = {<<t, 1>>}
  BY <1>14
<1>16. IsFiniteSet({<<t, 1>>}) /\ Cardinality({<<t, 1>>}) = 1
  BY FS_Singleton
<1> QED
  BY <1>5, <1>6, <1>7, <1>10, <1>11, <1>12, <1>15, <1>16 DEF IInv, CountInv

LEMMA Inductive == Spec => []IInv
<1>1. IInv /\ [Next]_vars => IInv'
  BY TypeStep, LockStep, IsaStep, HolderStep, WeakVarStep, DyingStep, CountStep DEF IInv
<1> QED
  BY InitInv, <1>1, PTL DEF Spec

\* The variables keep their types; so extra_rc never leaves its bits and the
\* table's count does not go below zero.
THEOREM TypeCorrect == Spec => []TypeOK
<1>1. IInv => TypeOK
  BY DEF IInv
<1> QED
  BY <1>1, Inductive, PTL

\* Who owns a reference, retained or loaded from a weak variable, finds the
\* object alive, and the count is exactly the references owned.
THEOREM OwnersFindItAlive == Spec => []OwnedIsAlive
<1>1. IInv => OwnedIsAlive
  <2> SUFFICES ASSUME IInv, NEW t \in Threads, owned[t] > 0
               PROVE  ~freed /\ (Dying => deallocator = t)
    BY DEF OwnedIsAlive, CountInv, IInv
  <2>1. owned[t] # 0
    OBVIOUS
  <2> QED
    BY <2>1 DEF IInv, DyingInv
<1> QED
  BY <1>1, Inductive, PTL

\* A freed object is out of the weak table and the side table, and nobody is
\* at work on it.
THEOREM FreedIsOutOfTheTables == Spec => []FreedIsForgotten
<1>1. IInv => FreedIsForgotten
  BY DEF IInv, FreedIsForgotten, WeakInv, Erased, DyingInv
<1> QED
  BY <1>1, Inductive, PTL

\* The bits of the isa, the side table and the moves between them implement
\* one counter that dies once, at the last release.
THEOREM CountersImplementOne == Spec => ImplementsCounter
<1>1. Init => Abstract!Init
  <2> SUFFICES ASSUME Init PROVE Abstract!Init
    OBVIOUS
  <2>1. IsaIs(RC_FULL, isa, FALSE, 0, FALSE, FALSE, FALSE) /\ EntryIs(table, FALSE, 0, FALSE, FALSE)
    BY HalfType, NewBits, EntryNone DEF Init
  <2>2. \A u \in Threads : pc[u] = "idle"
    BY DEF Init
  <2>3. ~Doing("move") /\ ~Doing("transcribe") /\ ~Doing("borrowed")
    BY <2>2 DEF Doing
  <2>4. Dying = FALSE
    BY <2>1, <2>2, <2>3 DEF Init, Dying, Erased, IsaIs, EntryIs
  <2>5. Count = 1
    BY <2>1, <2>3, <2>4 DEF Count, InTransit, IsaIs, EntryIs
  <2> QED
    BY <2>4, <2>5 DEF Abstract!Init
<1>2. Counted => [Abstract!Next]_<<Count, Dying>>
  <2> SUFFICES ASSUME Counted PROVE [Abstract!Next]_<<Count, Dying>>
    OBVIOUS
  <2>1. Dying \in BOOLEAN /\ Dying' \in BOOLEAN
    BY DEF Dying
  <2>2. (Dying' <=> Dying) => Dying' = Dying
    BY <2>1
  <2> HIDE DEF Dying
  <2> QED
    BY <2>1, <2>2 DEF Counted, Abstract!Next, Abstract!Retain, Abstract!Release,
         Abstract!LastRelease
<1>3. IInv /\ [Next]_vars => [Abstract!Next]_<<Count, Dying>>
  BY <1>2, CountStep
<1> QED
  BY <1>1, <1>3, Inductive, PTL DEF Spec, ImplementsCounter, Abstract!Spec
=============================================================================
