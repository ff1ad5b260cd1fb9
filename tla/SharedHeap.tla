----------------------------- MODULE SharedHeap -----------------------------
(***************************************************************************)
(* The heap of memory that the tablet shares with its secure processor     *)
(* (qcom_sp_hlos_heap.c): a buffer's pages come from the kernel's common   *)
(* pool, are cleared, and the secure monitor lets the processor access     *)
(* them too; with the last reference they go back, if the monitor takes    *)
(* the access away, and nobody gets them again if it does not.             *)
(*                                                                         *)
(* The monitor may refuse any change, and then changes nothing.            *)
(***************************************************************************)
EXTENDS Naturals, FiniteSets

CONSTANTS
    Pages,         \* the pages of the pool
    MaxPages,      \* SP_HLOS_HEAP_MAX_SIZE, in pages
    MaxVmaps       \* bound: kernel mappings of one buffer at a time

ASSUME HeapAssumption == IsFiniteSet(Pages) /\ MaxPages \in Nat /\ MaxVmaps \in Nat

VARIABLES
    pool,        \* the pages anybody in the kernel may get
    shared,      \* the pages the secure processor can access
    stale,       \* the pages that still hold what their last user wrote
    vmapped,     \* the pages with an address in the kernel for this heap
    buffers,     \* the exported buffers
    call         \* the allocation in progress

heapVars == <<pool, shared, stale, vmapped, buffers, call>>

Buffers == [pages : SUBSET Pages, refs : 1 .. 2, attached : BOOLEAN,
            mapped : BOOLEAN, vmaps : 0 .. MaxVmaps]
NoCall == [at |-> "none", pages |-> {}]

HeapInit ==
    /\ pool = Pages /\ stale = Pages
    /\ shared = {} /\ vmapped = {} /\ buffers = {}
    /\ call = NoCall

\* cma_release, and whoever uses the pages next writes to them.
ToPool(pages) == pool' = pool \cup pages /\ stale' = stale \cup pages

------------------------------------------------------------------------------
(* sp_hlos_allocate *)

\* Refused before anything is taken: a length of zero, one beyond the maximum.
AllocBegins(n) ==
    /\ call = NoCall
    /\ n > 0 /\ n <= MaxPages
    /\ call' = [at |-> "take", pages |-> {}]
    /\ UNCHANGED <<pool, shared, stale, vmapped, buffers>>

AllocTakes ==
    /\ call.at = "take"
    /\ \/ \E taken \in SUBSET pool :
            /\ Cardinality(taken) \in 1 .. MaxPages
            /\ call' = [at |-> "list", pages |-> taken]
            /\ pool' = pool \ taken
            /\ stale' = stale \ taken
       \/ call' = NoCall /\ UNCHANGED <<pool, stale>>
    /\ UNCHANGED <<shared, vmapped, buffers>>

AllocLists ==
    /\ call.at = "list"
    /\ \/ call' = [call EXCEPT !.at = "share"] /\ UNCHANGED <<pool, stale>>
       \/ call' = NoCall /\ ToPool(call.pages)
    /\ UNCHANGED <<shared, vmapped, buffers>>

AllocShares ==
    /\ call.at = "share"
    /\ \/ /\ call' = [call EXCEPT !.at = "export"]
          /\ shared' = shared \cup call.pages
          /\ UNCHANGED <<pool, stale>>
       \/ call' = NoCall /\ ToPool(call.pages) /\ UNCHANGED shared
    /\ UNCHANGED <<vmapped, buffers>>

\* Mutant: the answer of the monitor is not looked at.
ReclaimsBlindly(pages) ==
    /\ shared' \in {shared \ pages, shared}
    /\ ToPool(pages)

\* What becomes of the pages when the monitor is asked to give them back.
Reclaims(pages) ==
    \/ shared' = shared \ pages /\ ToPool(pages)
    \/ UNCHANGED <<shared, pool, stale>>

AllocExports ==
    /\ call.at = "export"
    /\ call' = NoCall
    /\ \/ /\ buffers' = buffers \cup {[pages |-> call.pages, refs |-> 1, attached |-> FALSE,
                                        mapped |-> FALSE, vmaps |-> 0]}
          /\ UNCHANGED <<pool, shared, stale>>
       \/ Reclaims(call.pages) /\ UNCHANGED buffers
    /\ UNCHANGED vmapped

------------------------------------------------------------------------------
(* The operations of a buffer. *)

Becomes(b, new) == buffers' = (buffers \ {b}) \cup {new}

\* A descriptor is passed on, or spcom takes the buffer.
Refers(b) ==
    /\ b.refs < 2
    /\ Becomes(b, [b EXCEPT !.refs = @ + 1])
    /\ UNCHANGED <<pool, shared, stale, vmapped, call>>

Attach(b) ==
    /\ ~b.attached
    /\ Becomes(b, [b EXCEPT !.attached = TRUE])
    /\ UNCHANGED <<pool, shared, stale, vmapped, call>>

Maps(b) ==
    /\ b.attached /\ ~b.mapped
    /\ Becomes(b, [b EXCEPT !.mapped = TRUE])
    /\ UNCHANGED <<pool, shared, stale, vmapped, call>>

Unmaps(b) ==
    /\ b.mapped
    /\ Becomes(b, [b EXCEPT !.mapped = FALSE])
    /\ UNCHANGED <<pool, shared, stale, vmapped, call>>

Detach(b) ==
    /\ b.attached /\ ~b.mapped
    /\ Becomes(b, [b EXCEPT !.attached = FALSE])
    /\ UNCHANGED <<pool, shared, stale, vmapped, call>>

Vmap(b) ==
    /\ b.vmaps < MaxVmaps
    /\ Becomes(b, [b EXCEPT !.vmaps = @ + 1])
    /\ vmapped' = vmapped \cup b.pages
    /\ UNCHANGED <<pool, shared, stale, call>>

Vunmap(b) ==
    /\ b.vmaps > 0
    /\ Becomes(b, [b EXCEPT !.vmaps = @ - 1])
    /\ vmapped' = IF b.vmaps = 1 THEN vmapped \ b.pages ELSE vmapped
    /\ UNCHANGED <<pool, shared, stale, call>>

\* An attachment is given up before the reference it came with; a kernel
\* mapping may be forgotten, and the release removes it.
Drops(b) ==
    /\ b.refs > 1
    /\ Becomes(b, [b EXCEPT !.refs = @ - 1])
    /\ UNCHANGED <<pool, shared, stale, vmapped, call>>

Release(b) ==
    /\ b.refs = 1 /\ ~b.attached
    /\ buffers' = buffers \ {b}
    /\ vmapped' = vmapped \ b.pages
    /\ Reclaims(b.pages)
    /\ UNCHANGED call

HeapNext ==
    \/ \E n \in 0 .. MaxPages + 1 : AllocBegins(n)
    \/ AllocTakes \/ AllocLists \/ AllocShares \/ AllocExports
    \/ \E b \in buffers :
         \/ Refers(b) \/ Drops(b) \/ Release(b)
         \/ Attach(b) \/ Maps(b) \/ Unmaps(b) \/ Detach(b)
         \/ Vmap(b) \/ Vunmap(b)

HeapSpec == HeapInit /\ [][HeapNext]_heapVars

------------------------------------------------------------------------------
HeapTypeOK ==
    /\ pool \subseteq Pages /\ shared \subseteq Pages
    /\ stale \subseteq Pages /\ vmapped \subseteq Pages
    /\ buffers \subseteq Buffers
    /\ call \in [at : {"none", "take", "list", "share", "export"}, pages : SUBSET Pages]

\* Whatever the monitor refuses and whichever step of an allocation fails, a
\* page the kernel may give to anybody is out of the secure processor's reach
\* and has no address left from a buffer, a page is in one buffer at most, and
\* the processor sees nothing a former user left (qcom_sp_hlos_heap.c:219, :321).
PoolPrivate ==
    /\ pool \cap (shared \cup vmapped) = {}
    /\ shared \cap stale = {}
    /\ \A b, c \in buffers : b # c => b.pages \cap c.pages = {}
    /\ \A b \in buffers : b.pages \subseteq shared
=============================================================================
