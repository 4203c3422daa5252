----------------------------- MODULE MemoryPool ------------------------------
(***************************************************************************)
(* The memory pool (src/memory/MemoryPool.cc): pages that serve small      *)
(* requests, each with a SmallNode in front, and a list of LargeNodes, in  *)
(* memory of the pool itself, for requests too large for a page.           *)
(*                                                                         *)
(* Sizes and offsets count 8 bytes: a request of n bytes needs as much     *)
(* aligned room as one of n rounded up to 8.  Pages are aligned, so a      *)
(* position is a page and an offset in it.  The user frees what it holds,  *)
(* once.  A call whose posix_memalign fails returns null, and, having      *)
(* freed what it had got, leaves the pool as it was: it is a stuttering    *)
(* step here.                                                              *)
(*                                                                         *)
(* Pages are not cleared, and no field is set that the code does not set:  *)
(* quote_ and failed_ of a new page have values left there.  The first     *)
(* page is taken to be clear, because createPool leaves head_->next_ alone *)
(* as well, and no step after it makes sense unless that is null.          *)
(*                                                                         *)
(* A page whose quote_ did not begin at 0 may be taken back with pieces of *)
(* it still in use.  Once a piece is given out that overlaps one in use,   *)
(* two owners write to the same memory, or a user to a LargeNode, and      *)
(* nothing is defined: the model stops there, with sound = FALSE.          *)
(***************************************************************************)
EXTENDS Integers, Sequences, FiniteSets, FiniteSetsExt, Functions

CONSTANTS PageSize,       \* PAGE_SIZE
          Alignment,      \* MP_ALIGNMENT
          PoolSize, SmallNodeSize, LargeNodeSize,   \* sizeof(...)
          UIntMod,        \* 2^w for the w bits of an unsigned int
          FailedLimit,    \* the 5 of mallocSmallNode
          WalkLimit,      \* LargeNodes that mallocLargeNode looks at (5)
          Leftover,       \* what <<quote_, failed_>> may be in a new page
          Sizes,          \* the requests
          Chunks, None,   \* bound: memory blocks for large requests; null
          MaxPages        \* bound: pages

\* Memory of the pool, handed out.
Piece == [page : Nat \ {0}, at : Nat, size : Nat \ {0}]

ASSUME PoolAssumption ==
  /\ {PageSize, Alignment, PoolSize, SmallNodeSize, LargeNodeSize} \subseteq Nat \ {0}
  /\ PageSize % Alignment = 0 /\ SmallNodeSize % Alignment = 0
  /\ PoolSize + SmallNodeSize <= PageSize
  /\ LargeNodeSize <= PageSize - SmallNodeSize
  /\ UIntMod \in Nat /\ PageSize - SmallNodeSize < UIntMod
  /\ Leftover \subseteq (0 .. UIntMod - 1) \X (0 .. UIntMod - 1)
  /\ Sizes \subseteq Nat \ {0}
  /\ None \notin Chunks /\ Chunks \intersect Piece = {}
  /\ FailedLimit \in Nat /\ WalkLimit \in Nat /\ MaxPages \in Nat

VARIABLES
  up,       \* between createPool and destroyPool
  pages,    \* the SmallNodes in the order of next_; pages[1] is head_
  current,  \* current_, as an index of pages
  large,    \* largeList_: what each address_ is (None for null), where the
            \* LargeNode itself is
  heap,     \* the large blocks malloc has given and free not taken back
  held,     \* what the user holds: small pieces, and large blocks
  sound     \* no piece was given out that overlaps one in use

poolVars == <<up, pages, current, large, heap, held, sound>>

Inc(n) == (n + 1) % UIntMod
Dec(n) == (n - 1) % UIntMod

mp_align(n) == ((n + Alignment - 1) \div Alignment) * Alignment

\* Where the memory after the SmallNode of page p begins.
FirstFree(p) == IF p = 1 THEN PoolSize + SmallNodeSize ELSE SmallNodeSize

IsLarge(size) == size > PageSize - SmallNodeSize

\* A page that has been cleared or reset, and counts from zero.
ClearPage(p) == [last |-> FirstFree(p), quote |-> 0, failed |-> 0, left |-> 0]

Nodes == {large[i].node : i \in DOMAIN large}

\* The pieces of page p in use, by the user or for a LargeNode.
InUse(p) == {m \in (held \ Chunks) \union Nodes : m.page = p}

\* Nobody else has memory of piece e.
IsFree(e) == \A m \in InUse(e.page) : m.at + m.size <= e.at \/ e.at + e.size <= m.at

\* createPool.
createPool ==
  /\ up = TRUE
  /\ pages = <<ClearPage(1)>>
  /\ current = 1
  /\ large = <<>> /\ heap = {} /\ held = {} /\ sound = TRUE

-----------------------------------------------------------------------------
(***************************************************************************)
(* malloc of a small request: the pages, current_ and the piece that it    *)
(* gives, for each way it may go.                                          *)
(***************************************************************************)

\* Mutant: the room is measured before last_ is aligned.
FitsUnaligned(p, size) == PageSize - pages[p].last >= size

Fits(p, size) == PageSize - mp_align(pages[p].last) >= size

\* The pages from current_ on that have room; the walk takes the first.
Fitting(size) == {p \in current .. Len(pages) : Fits(p, size)}

Used(page, last) == [page EXCEPT !.last = last, !.quote = Inc(@)]

FromPage(p, size) ==
  LET at == mp_align(pages[p].last) IN
  [pages   |-> [pages EXCEPT ![p] = Used(@, at + size)],
   current |-> current,
   piece   |-> [page |-> p, at |-> at, size |-> size]]

Failed(page) == [page EXCEPT !.failed = Inc(@)]

\* mallocSmallNode.  The pages from current_ on, but the last one, have failed
\* once more, and current_ moves behind the last of them that has failed often.
FromNewPage(size, found) ==
  LET n == Len(pages) + 1
      at == mp_align(SmallNodeSize)
      walked == current .. Len(pages) - 1
      worn == {p \in walked : pages[p].failed >= FailedLimit}
  IN [pages   |-> Append([p \in 1 .. Len(pages) |->
                            IF p \in walked THEN Failed(pages[p]) ELSE pages[p]],
                         [last |-> at + size, quote |-> Inc(found[1]),
                          failed |-> found[2], left |-> found[1]]),
      current |-> IF worn = {} THEN current ELSE Max(worn) + 1,
      piece   |-> [page |-> n, at |-> at, size |-> size]]

SmallResults(size) ==
  IF Fitting(size) # {} THEN {FromPage(Min(Fitting(size)), size)}
  ELSE IF Len(pages) < MaxPages
    THEN {FromNewPage(size, found) : found \in Leftover}
    ELSE {}

MallocSmall(size) ==
  /\ up /\ ~IsLarge(size)
  /\ \E r \in SmallResults(size) :
       /\ pages' = r.pages /\ current' = r.current
       /\ held' = held \union {r.piece} /\ sound' = IsFree(r.piece)
  /\ UNCHANGED <<up, large, heap>>

(***************************************************************************)
(* mallocLargeNode: into a LargeNode without memory if one of the first    *)
(* WalkLimit is, else into a new one in front of the list.                 *)
(***************************************************************************)
FreeNodes == {i \in DOMAIN large : i <= WalkLimit /\ large[i].address = None}

\* Mutant: address_ is not looked at.
ReuseFirst(c) ==
  /\ large # <<>>
  /\ large' = [large EXCEPT ![1].address = c]
  /\ UNCHANGED <<pages, current, sound>>

ReuseNode(c) ==
  /\ FreeNodes # {}
  /\ large' = [large EXCEPT ![Min(FreeNodes)].address = c]
  /\ UNCHANGED <<pages, current, sound>>

NewNode(c) ==
  /\ FreeNodes = {}
  /\ \E r \in SmallResults(LargeNodeSize) :
       /\ pages' = r.pages /\ current' = r.current
       /\ large' = <<[address |-> c, node |-> r.piece]>> \o large
       /\ sound' = IsFree(r.piece)

MallocLarge(c) ==
  /\ up /\ c \notin heap
  /\ ReuseNode(c) \/ NewNode(c)
  /\ heap' = heap \union {c} /\ held' = held \union {c}
  /\ UNCHANGED up

(***************************************************************************)
(* freeMemory.                                                             *)
(***************************************************************************)
FreeLarge(c) ==
  /\ up /\ c \in held
  /\ LET i == Min({j \in DOMAIN large : large[j].address = c})
     IN large' = [large EXCEPT ![i].address = None]
  /\ heap' = heap \ {c} /\ held' = held \ {c}
  /\ UNCHANGED <<up, pages, current, sound>>

Freed(page) == [page EXCEPT !.quote = Dec(@)]
Emptied(page, last) == [page EXCEPT !.last = last, !.quote = Dec(@), !.failed = 0]

\* Mutant: current_ stays where it is.
ReclaimInPlace(p) ==
  /\ pages' = [pages EXCEPT ![p] = Emptied(@, FirstFree(p))]
  /\ UNCHANGED current

Reclaim(p) ==
  /\ pages' = [pages EXCEPT ![p] = Emptied(@, FirstFree(p))]
  /\ current' = 1

FreeSmall(m) ==
  /\ up /\ m \in held \ Chunks
  /\ IF Dec(pages[m.page].quote) = 0
       THEN Reclaim(m.page)
       ELSE /\ pages' = [pages EXCEPT ![m.page] = Freed(@)]
            /\ UNCHANGED current
  /\ held' = held \ {m}
  /\ UNCHANGED <<up, large, heap, sound>>

(***************************************************************************)
(* resetPool takes back all memory, whoever holds it.                      *)
(***************************************************************************)
Addresses == {large[i].address : i \in DOMAIN large} \ {None}

resetPool ==
  /\ up
  /\ heap' = heap \ Addresses /\ large' = <<>>
  /\ pages' = [p \in DOMAIN pages |-> ClearPage(p)]
  /\ current' = 1 /\ held' = {}
  /\ UNCHANGED <<up, sound>>

\* destroyPool reads next_ from each page it has just freed: the walk goes on
\* if free() has left it alone and ends if free() has put a null there.  What
\* the walk does not get to stays allocated, in pages.
destroyPool ==
  /\ up /\ up' = FALSE
  /\ heap' = heap \ Addresses /\ large' = <<>>
  /\ \E n \in (2 .. Len(pages)) \union {Len(pages)} :
       pages' = SubSeq(pages, n + 1, Len(pages))
  /\ current' = 1 /\ held' = {}
  /\ UNCHANGED sound

PoolNext ==
  /\ sound
  /\ \/ \E size \in Sizes : MallocSmall(size)
     \/ \E c \in Chunks : MallocLarge(c) \/ FreeLarge(c)
     \/ \E m \in held \ Chunks : FreeSmall(m)
     \/ resetPool \/ destroyPool

PoolSpec == createPool /\ [][PoolNext]_poolVars

-----------------------------------------------------------------------------
(***************************************************************************)
(* Properties.                                                             *)
(***************************************************************************)
PageData == [last : 0 .. PageSize, quote : 0 .. UIntMod - 1,
             failed : 0 .. UIntMod - 1, left : 0 .. UIntMod - 1]
LargeNode == [address : Chunks \union {None}, node : Piece]

\* Every variable has its type.
PoolTypeOK ==
  /\ up \in BOOLEAN /\ sound \in BOOLEAN /\ pages \in Seq(PageData) /\ current \in Nat \ {0}
  /\ large \in Seq(LargeNode)
  /\ heap \subseteq Chunks /\ held \subseteq Piece \union Chunks

\* MemoryPool.cc:146-180, 208-234: pieces in use lie between the SmallNode and
\* last_ of their page and do not overlap, LargeNodes included, in every page
\* whose quote_ began at 0, however often the page is emptied and used again.
NoOverlap ==
  \A p \in DOMAIN pages : up /\ pages[p].left = 0 =>
    /\ pages[p].last <= PageSize
    /\ \A m \in InUse(p) : FirstFree(p) <= m.at /\ m.at + m.size <= pages[p].last
    /\ \A m, n \in InUse(p) : m = n \/ m.at + m.size <= n.at \/ n.at + n.size <= m.at

\* Every large block that is allocated is held by the user and in one LargeNode,
\* and no LargeNode has one that is not.
LargeListOK ==
  /\ heap = held \cap Chunks
  /\ heap = Addresses
  /\ \A i, j \in DOMAIN large :
       large[i].address = large[j].address => i = j \/ large[i].address = None

\* MemoryPool.cc:62-104, 195-206, 241-250: no large block is leaked or freed
\* twice, as long as no memory in use has been given out again; and that happens
\* only in a pool that has a page whose quote_ did not begin at 0.
LargeAccounted ==
  IF sound THEN LargeListOK ELSE \E p \in DOMAIN pages : pages[p].left # 0

\* MemoryPool.cc:127-142, 214-229: a page but the first that holds nothing is
\* empty to the SmallNode, and malloc looks at it: a page taken back is not one
\* that current_ has gone past.
EmptyIsReused ==
  \A p \in DOMAIN pages \ {1} : up /\ pages[p].left = 0 /\ InUse(p) = {} =>
    pages[p].last = FirstFree(p) /\ current <= p

-----------------------------------------------------------------------------
(***************************************************************************)
(* The inductive invariant of PoolProofs.                                  *)
(***************************************************************************)

\* Pieces that are in use lie apart, between first and last.
LieApart(use, first, last) ==
  /\ \A m \in use : first <= m.at /\ m.at + m.size <= last
  /\ \A m, n \in use : m = n \/ m.at + m.size <= n.at \/ n.at + n.size <= m.at

\* A page that counts from zero counts its pieces, and is empty without them.
PageOK(page, first, use) ==
  /\ LieApart(use, first, page.last)
  /\ IsFiniteSet(use) /\ page.quote = Cardinality(use)
  /\ first + Cardinality(use) <= page.last
  /\ use = {} => page.last = first

PageInv(p) ==
  pages[p].left = 0 =>
    /\ PageOK(pages[p], FirstFree(p), InUse(p))
    /\ \A m \in InUse(p) : m \notin held \/ m \notin Nodes
    /\ p # 1 /\ InUse(p) = {} => current <= p

PagesInv ==
  /\ pages # <<>>
  /\ \A m \in (held \ Chunks) \union Nodes : m.page \in DOMAIN pages
  /\ \A p \in DOMAIN pages : PageInv(p)

PoolInv == PoolTypeOK /\ LargeListOK /\ (up => PagesInv)

\* What was given out twice came from a page that did not count from zero.
SoundInv == sound \/ \E p \in DOMAIN pages : pages[p].left # 0
=============================================================================
