--------------------------- MODULE AutoreleasePool --------------------------
(***************************************************************************)
(* runtime/NSObject.mm, AutoreleasePoolPage: the autorelease pools of one  *)
(* thread are a list of pages, of which the hot one is being filled.  The  *)
(* objects a pop releases run client code again, which may autorelease,    *)
(* push and pop; so the pops in progress are a stack.                      *)
(*                                                                         *)
(* An action is a call of the client, or one round of releaseUntil's loop, *)
(* after which the client may run.  A pointer into a page is the page's    *)
(* number and an index; tls_dealloc ends the thread.                       *)
(***************************************************************************)
EXTENDS Naturals, Sequences, SequencesExt

CONSTANTS
    Objects,
    Boundary,     \* POOL_BOUNDARY
    COUNT,        \* entries of a page
    DebugModes,   \* values of OBJC_DEBUG_POOL_ALLOCATION
    MaxEntries,   \* bound: entries in all pages
    MaxPops       \* bound: pops within pops

ASSUME PoolAssumption ==
    /\ Boundary \notin Objects
    /\ COUNT \in Nat /\ COUNT >= 2 /\ DebugModes \subseteq BOOLEAN
    /\ MaxEntries \in Nat /\ MaxPops \in Nat \ {0}

VARIABLES
    pages,       \* the entries below next of each page, the coldest first
    hot,         \* the hot page, 0 for none
    placeholder, \* is EMPTY_POOL_PLACEHOLDER in the thread's storage?
    tokens,      \* what push returned for the pools the client has open
    pops,        \* the pops in progress, the innermost last
    client,      \* does client code run, and not releaseUntil?
    exiting,     \* the thread ends, in tls_dealloc
    DebugPoolAllocation

vars == <<pages, hot, placeholder, tokens, pops, client, exiting, DebugPoolAllocation>>

Placeholder == [page |-> 0, at |-> 0]

Init ==
    /\ pages = <<>> /\ hot = 0 /\ placeholder = FALSE
    /\ tokens = <<>> /\ pops = <<>>
    /\ client = TRUE /\ exiting = FALSE
    /\ DebugPoolAllocation \in DebugModes

Child(p)   == p + 1
HasChild(p) == Child(p) <= Len(pages)
Full(p)    == Len(pages[p]) = COUNT
LessThanHalfFull(p) == Len(pages[p]) < COUNT \div 2

\* The client code of the innermost pop may pop the pools it pushed itself.
Opened == IF pops = <<>> THEN 0 ELSE Last(pops).opened
Calls  == client /\ (exiting => pops # <<>>)

---------------------------------------------------------------------------
\* autoreleaseFast, and autoreleaseNewPage for a pool of the debug mode.

\* page->add(x): the token is the entry's place.
AddTo(p, x) ==
    /\ hot' = p
    /\ pages' = IF p > Len(pages) THEN Append(pages, <<x>>)
                ELSE [pages EXCEPT ![p] = Append(@, x)]
    /\ placeholder' = FALSE

Place(p) == [page |-> p, at |-> IF p > Len(pages) THEN 0 ELSE Len(pages[p])]

\* autoreleaseFullPage: the next page that is not full, or a new one.
NextPage == CHOOSE p \in hot + 1..Len(pages) + 1 :
               /\ p <= Len(pages) => ~Full(p)
               /\ \A q \in hot + 1..p - 1 : Full(q)

\* The page an entry goes to when there is a hot one.
PageFor(x) == IF Full(hot) \/ (x = Boundary /\ DebugPoolAllocation) THEN NextPage ELSE hot

\* What is autoreleased, over all pages.
Contents == IF placeholder THEN <<Boundary>> ELSE FlattenSeq(pages)
Room     == Len(Contents) < MaxEntries

\* Mutant: the placeholder's boundary is left out.
FirstPageBare(x) == pages' = <<<<x>>>> /\ hot' = 1 /\ placeholder' = FALSE

\* autoreleaseNoPage, when pages are allocated: the placeholder's boundary
\* comes first.
FirstPage(x) ==
    /\ pages' = <<(IF placeholder THEN <<Boundary>> ELSE <<>>) \o <<x>>>>
    /\ hot' = 1
    /\ placeholder' = FALSE

Autorelease ==
    /\ Calls /\ Room
    /\ \E o \in Objects : IF hot # 0 THEN AddTo(PageFor(o), o) ELSE FirstPage(o)
    /\ UNCHANGED <<tokens, pops, client, exiting, DebugPoolAllocation>>

PushPlaceholder ==
    /\ Calls /\ hot = 0 /\ ~placeholder /\ ~DebugPoolAllocation
    /\ placeholder' = TRUE
    /\ tokens' = Append(tokens, Placeholder)
    /\ UNCHANGED <<pages, hot, pops, client, exiting, DebugPoolAllocation>>

Push ==
    /\ Calls /\ Room
    /\ \/ /\ hot # 0
          /\ AddTo(PageFor(Boundary), Boundary)
          /\ tokens' = Append(tokens, Place(PageFor(Boundary)))
       \/ /\ hot = 0 /\ (placeholder \/ DebugPoolAllocation)
          /\ FirstPage(Boundary)
          /\ tokens' = Append(tokens, [page |-> 1, at |-> IF placeholder THEN 1 ELSE 0])
    /\ UNCHANGED <<pops, client, exiting, DebugPoolAllocation>>

---------------------------------------------------------------------------
\* pop

\* The token of an open pool; pools pushed later are popped with it.
PopUnused ==
    /\ Calls /\ Len(tokens) > Opened
    /\ tokens[Opened + 1] = Placeholder /\ hot = 0
    /\ placeholder' = FALSE
    /\ tokens' = SubSeq(tokens, 1, Opened)
    /\ UNCHANGED <<pages, hot, pops, client, exiting, DebugPoolAllocation>>

\* A placeholder whose pool was used stands for the start of the coldest
\* page.  Other tokens must point to a boundary, or there.
Start(token) == IF token = Placeholder THEN [page |-> 1, at |-> 0] ELSE token

BeginPop(token, k) ==
    /\ hot # 0
    /\ LET start == Start(token)
       IN /\ start # [page |-> 1, at |-> 0] => pages[start.page][start.at + 1] = Boundary
          /\ pops' = Append(pops, [page |-> start.page, stop |-> start.at, opened |-> k])
    /\ tokens' = SubSeq(tokens, 1, k)
    /\ client' = FALSE
    /\ UNCHANGED <<pages, hot, placeholder, DebugPoolAllocation>>

Pop ==
    /\ Calls /\ Len(pops) < MaxPops
    /\ \E k \in Opened + 1..Len(tokens) : BeginPop(tokens[k], k - 1)
    /\ UNCHANGED exiting

\* One round of releaseUntil: from the hot page, or the last before it that
\* is not empty.  To release an object is to call the client.
LastUsed == CHOOSE p \in 1..hot : pages[p] # <<>> /\ \A q \in p + 1..hot : pages[q] = <<>>

\* Mutant: the loop stays with the page it was called on.
ReleaseFromThis ==
    /\ ~client
    /\ LET p == Last(pops).page
       IN /\ Len(pages[p]) # Last(pops).stop
          /\ pages' = [pages EXCEPT ![p] = Front(@)]
          /\ client' = (Last(pages[p]) # Boundary)
    /\ UNCHANGED <<hot, placeholder, tokens, pops, exiting, DebugPoolAllocation>>

ReleaseNext ==
    /\ ~client
    /\ Len(pages[Last(pops).page]) # Last(pops).stop
    /\ hot' = LastUsed
    /\ pages' = [pages EXCEPT ![LastUsed] = Front(@)]
    /\ client' = (Last(pages[LastUsed]) # Boundary)
    /\ UNCHANGED <<placeholder, tokens, pops, exiting, DebugPoolAllocation>>

\* The client returns to the loop, every pool it pushed popped.
Return ==
    /\ client /\ pops # <<>>
    /\ Len(tokens) = Opened
    /\ client' = FALSE
    /\ UNCHANGED <<pages, hot, placeholder, tokens, pops, exiting, DebugPoolAllocation>>

\* Mutant: a page more than half full keeps all its children.
KillChild(p) == IF HasChild(p) /\ LessThanHalfFull(p) THEN SubSeq(pages, 1, p) ELSE pages

\* One empty child is kept if the page is more than half full.
KillChildren(p) ==
    IF HasChild(p) /\ LessThanHalfFull(p) THEN SubSeq(pages, 1, p)
    ELSE IF HasChild(p) THEN SubSeq(pages, 1, Child(p))
    ELSE pages

\* The end of releaseUntil and of pop.  At the end of tls_dealloc all the
\* pages are gone.
FinishPop ==
    /\ ~client
    /\ LET p == Last(pops).page
           all == exiting /\ Len(pops) = 1
       IN /\ Len(pages[p]) = Last(pops).stop
          /\ IF all THEN pages' = <<>> /\ hot' = 0
             ELSE IF DebugPoolAllocation /\ pages[p] = <<>>
             THEN pages' = SubSeq(pages, 1, p - 1) /\ hot' = p - 1
             ELSE pages' = KillChildren(p) /\ hot' = p
    /\ pops' = Front(pops)
    /\ client' = TRUE
    /\ UNCHANGED <<placeholder, tokens, exiting, DebugPoolAllocation>>

\* tls_dealloc: the pools left open are popped with the coldest page.
ThreadExits ==
    /\ client /\ ~exiting /\ pops = <<>>
    /\ exiting' = TRUE
    /\ IF hot # 0 /\ pages[1] # <<>>
       THEN BeginPop([page |-> 1, at |-> 0], 0)
       ELSE /\ pages' = <<>> /\ hot' = 0 /\ placeholder' = FALSE /\ tokens' = <<>>
            /\ UNCHANGED <<pops, client, DebugPoolAllocation>>

Next ==
    \/ Autorelease \/ PushPlaceholder \/ Push \/ PopUnused \/ Pop
    \/ ReleaseNext \/ Return \/ FinishPop \/ ThreadExits
Spec == Init /\ [][Next]_vars

---------------------------------------------------------------------------
\* Where a place in a page is in the whole list.
Position(p, i) == Len(FlattenSeq(SubSeq(pages, 1, p - 1))) + i

\* How far the pops in progress release.
Stops == [i \in 1..Len(pops) |-> Position(pops[i].page, pops[i].stop)]

\* The pages, the spare ones and the placeholder are one list: nothing that
\* was autoreleased is lost or released twice, and a pop releases what is
\* above its boundary and no more, whatever its releases push and pop.
Lists == INSTANCE Pools WITH
    contents <- Contents,
    stops <- Stops
ImplementsPools == Lists!Spec

\* The token of every open pool stays valid, over all that is pushed, popped
\* and killed meanwhile: it leads to a boundary of its own, so badPop is
\* never called.
TokensStayValid ==
    \A k \in 1..Len(tokens) :
        LET s == Start(tokens[k]) IN
        \/ tokens[k] = Placeholder /\ placeholder
        \/ /\ s.page <= Len(pages) /\ s.at < Len(pages[s.page])
           /\ pages[s.page][s.at + 1] = Boundary
           /\ \A j \in 1..k - 1 : LET r == Start(tokens[j])
                                  IN Position(r.page, r.at) < Position(s.page, s.at)

\* Memory follows use: outside of pops no page beyond the hot one has
\* entries, and at most one is kept.
OneSparePage ==
    /\ \A p \in hot + 1..Len(pages) : pages[p] = <<>>
    /\ pops = <<>> => Len(pages) <= hot + 1
=============================================================================
