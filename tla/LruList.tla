------------------------------ MODULE LruList ------------------------------
(***************************************************************************)
(* The page replacement list of kernel/kalloc.c at the level of its        *)
(* pointers: pages[] linked in a circular doubly linked list from lru_head *)
(* (lru_add, lru_remove) and the clock algorithm of swap_out.  lru_add,    *)
(* lru_remove and swap_out run with lru_lock held, so each of the first    *)
(* two is one step.  The scan of swap_out is one step per page looked at,  *)
(* because other CPUs keep setting PTE_A while it runs.                    *)
(*                                                                         *)
(* The callers are the part of mappages, usertrap, uvmcopy and uvmunmap    *)
(* that changes a PTE and the list.  Their races with swap_out are the     *)
(* subject of module Swap; here every caller runs undisturbed.             *)
(***************************************************************************)
EXTENDS Naturals, FiniteSets

CONSTANTS
  Page,         \* the physical pages described by pages[]
  NULL,         \* the pointer 0
  MaxTouch      \* bound: how often PTE_A may be set while one scan runs

ASSUME NullAssumption == NULL \notin Page
ASSUME MaxTouchAssumption == MaxTouch \in Nat

VARIABLES
  lru_head,     \* first page the clock looks at, or NULL
  next, prev,   \* the links of struct page
  ptev, ptea,   \* PTE_V and PTE_A of the mapping recorded in struct page
  hand,         \* the page swap_out looks at; NULL when lru_lock is free
  touches       \* PTE_A bits set since the running scan began

list == <<lru_head, next, prev>>
vars == <<lru_head, next, prev, ptev, ptea, hand, touches>>

Linked == {p \in Page : next[p] # NULL}

Init ==
  /\ lru_head = NULL
  /\ next = [p \in Page |-> NULL]
  /\ prev = [p \in Page |-> NULL]
  /\ ptev = [p \in Page |-> FALSE]
  /\ ptea = [p \in Page |-> FALSE]
  /\ hand = NULL
  /\ touches = 0

-----------------------------------------------------------------------------
(* The list operations. *)

\* Mutant: a new page is inserted behind the head instead of before it.
lru_add_behind_head(p) ==
  IF lru_head = NULL
  THEN /\ lru_head' = p
       /\ next' = [next EXCEPT ![p] = p]
       /\ prev' = [prev EXCEPT ![p] = p]
  ELSE LET second == next[lru_head]
       IN /\ next' = [next EXCEPT ![lru_head] = p, ![p] = second]
          /\ prev' = [prev EXCEPT ![second] = p, ![p] = lru_head]
          /\ UNCHANGED lru_head

\* Mutant: every page is made a ring of its own.
lru_add_own_ring(p) ==
  /\ lru_head' = IF lru_head = NULL THEN p ELSE lru_head
  /\ next' = [next EXCEPT ![p] = p]
  /\ prev' = [prev EXCEPT ![p] = p]

lru_add(p) ==
  IF lru_head = NULL
  THEN /\ lru_head' = p
       /\ next' = [next EXCEPT ![p] = p]
       /\ prev' = [prev EXCEPT ![p] = p]
  ELSE LET tail == prev[lru_head]
       IN /\ next' = [next EXCEPT ![p] = lru_head, ![tail] = p]
          /\ prev' = [prev EXCEPT ![p] = tail, ![lru_head] = p]
          /\ UNCHANGED lru_head

\* p leaves the list, which has head as its first page if any page is left.
Unlink(p, head) ==
  /\ lru_head' = IF next[p] = p THEN NULL ELSE head
  /\ next' = [next EXCEPT ![prev[p]] = next[p], ![p] = NULL]
  /\ prev' = [prev EXCEPT ![next[p]] = prev[p], ![p] = NULL]

lru_remove(p) ==
  IF next[p] = NULL
  THEN UNCHANGED list
  ELSE Unlink(p, IF lru_head = p THEN next[p] ELSE lru_head)

-----------------------------------------------------------------------------
(* The callers.  None of them can hold lru_lock while swap_out scans. *)

\* mappages, or the swap-in code: the PTE becomes valid, then a user page
\* (user = PTE_U) is listed.  The stack guard page of a child is not.
Map(p, user) ==
  /\ hand = NULL
  /\ ~ptev[p]
  /\ ptev' = [ptev EXCEPT ![p] = TRUE]
  /\ \E a \in BOOLEAN : ptea' = [ptea EXCEPT ![p] = a]
  /\ IF user THEN lru_add(p) ELSE UNCHANGED list
  /\ UNCHANGED <<hand, touches>>

\* Mutant: the page is freed but stays on the list.
Unmap_without_lru_remove(p) ==
  /\ hand = NULL
  /\ ptev[p]
  /\ ptev' = [ptev EXCEPT ![p] = FALSE]
  /\ ptea' = [ptea EXCEPT ![p] = FALSE]
  /\ UNCHANGED <<list, hand, touches>>

\* uvmunmap with do_free, for a page that is in memory.
Unmap(p) ==
  /\ hand = NULL
  /\ ptev[p]
  /\ lru_remove(p)
  /\ ptev' = [ptev EXCEPT ![p] = FALSE]
  /\ ptea' = [ptea EXCEPT ![p] = FALSE]
  /\ UNCHANGED <<hand, touches>>

\* The page-table walker of some CPU sets PTE_A.
Touch(p) ==
  /\ ptev[p]
  /\ ~ptea[p]
  /\ hand # NULL => touches < MaxTouch
  /\ ptea' = [ptea EXCEPT ![p] = TRUE]
  /\ touches' = IF hand = NULL THEN 0 ELSE touches + 1
  /\ UNCHANGED <<list, ptev, hand>>

-----------------------------------------------------------------------------
(* swap_out, up to the release of lru_lock. *)

ScanBegin ==
  /\ hand = NULL
  /\ lru_head # NULL
  /\ hand' = lru_head
  /\ touches' = 0
  /\ UNCHANGED <<list, ptev, ptea>>

\* Mutant: the hand moves on but the reference bit stays set.
ScanAdvance_bit_kept ==
  /\ hand # NULL
  /\ ptev[hand] => ptea[hand]
  /\ hand' = next[hand]
  /\ UNCHANGED <<list, ptev, ptea, touches>>

\* The hand moves on over a page whose mapping is not valid (the defensive
\* branch), and over a referenced page, which loses its PTE_A.  PTE_A of an
\* invalid PTE is clear already.
ScanAdvance ==
  /\ hand # NULL
  /\ ptev[hand] => ptea[hand]
  /\ ptea' = [ptea EXCEPT ![hand] = FALSE]
  /\ hand' = next[hand]
  /\ UNCHANGED <<list, ptev, touches>>

\* A victim is found; without a free swap slot it stays where it is.
ScanNoSlot ==
  /\ hand # NULL
  /\ ptev[hand]
  /\ ~ptea[hand]
  /\ hand' = NULL
  /\ touches' = 0
  /\ UNCHANGED <<list, ptev, ptea>>

\* A victim is found: it is unlinked, the head follows the hand, and the PTE
\* is marked swapped out.
ScanVictim ==
  /\ hand # NULL
  /\ ptev[hand]
  /\ ~ptea[hand]
  /\ Unlink(hand, next[hand])
  /\ ptev' = [ptev EXCEPT ![hand] = FALSE]
  /\ hand' = NULL
  /\ touches' = 0
  /\ UNCHANGED ptea

Scan == ScanAdvance \/ ScanNoSlot \/ ScanVictim

Next ==
  \/ \E p \in Page : (\E user \in BOOLEAN : Map(p, user)) \/ Unmap(p) \/ Touch(p)
  \/ ScanBegin
  \/ Scan

\* A CPU that holds a spinlock has its interrupts off and runs on.
Spec == Init /\ [][Next]_vars /\ WF_vars(Scan)

-----------------------------------------------------------------------------
(* Properties. *)

\* Every variable holds a value of its C type.
TypeOK ==
  /\ lru_head \in Page \cup {NULL}
  /\ next \in [Page -> Page \cup {NULL}]
  /\ prev \in [Page -> Page \cup {NULL}]
  /\ ptev \in [Page -> BOOLEAN]
  /\ ptea \in [Page -> BOOLEAN]
  /\ hand \in Page \cup {NULL}
  /\ touches \in 0..MaxTouch

\* The links are consistent: both links of a page are set or neither, prev
\* and next are inverse to each other on the listed pages, and lru_head is a
\* listed page exactly when there is one.  lru_add, lru_remove and swap_out
\* follow both links without testing them and rely on this.
Ring ==
  /\ \A p \in Page : next[p] = NULL <=> prev[p] = NULL
  /\ \A p \in Linked : /\ next[p] \in Linked /\ prev[next[p]] = p
                       /\ prev[p] \in Linked /\ next[prev[p]] = p
  /\ IF lru_head = NULL THEN Linked = {} ELSE lru_head \in Linked

\* The list is one ring: a set of listed pages that the links never leave is
\* the whole list.  A page on a ring of its own could never be evicted, and
\* the test p->next == p would not mean that p is the only listed page.
OneRing ==
  \A S \in SUBSET Linked :
    S # {} /\ (\A q \in S : next[q] \in S) => S = Linked

\* After every lru_add, lru_remove and swap_out the links of pages[] are
\* consistent and form one ring.
WellFormed == Ring /\ OneRing

\* swap_out terminates only if it meets a valid PTE: every listed page is
\* mapped by the PTE its struct page names, and while a scan runs the hand
\* stands on a listed page.  (The test at kalloc.c:169 never succeeds.)
ListedMapped ==
  /\ \A p \in Linked : ptev[p]
  /\ hand # NULL => hand \in Linked

\* The pages in the order in which the clock meets them from lru_head.
Order ==
  LET n == Cardinality(Linked)
      at[i \in 1..n] == IF i = 1 THEN lru_head ELSE next[at[i - 1]]
  IN [i \in 1..n |-> at[i]]

\* The pointer structure implements the queue of module ClockQueue: lru_add puts
\* a page at the back, swap_out evicts a page whose PTE_A is clear and turns the
\* queue to the page behind it, lru_remove takes a page out where it stands.
Queue == INSTANCE ClockQueue WITH
           queue <- Order,
           ref <- [p \in Page |-> p \in Linked /\ ptea[p]]
ImplementsQueue == Queue!Spec

\* The scan of swap_out ends and releases lru_lock, whatever the reference
\* bits are, if they are set only finitely often meanwhile.
ScanEnds == (hand # NULL) ~> (hand = NULL)
=============================================================================
