--------------------------------- MODULE Slab ---------------------------------
(***************************************************************************)
(* mem/slab.c: the kernel heap, used by one caller at a time (nothing in   *)
(* the code keeps two threads apart).  Addresses and sizes are in bytes,   *)
(* counted from the start of the heap, with the arithmetic of the code; a  *)
(* zone is named by its first page.                                        *)
(*                                                                         *)
(* A zone that is handed back to the page allocator leaves sys_zone_free   *)
(* pointing into the memory before a zone (slab.c:462 decrements the       *)
(* pointer instead of the count).  The model ends there (fault).           *)
(***************************************************************************)
EXTENDS Pages

CONSTANTS
    SK_PAGE_SIZE,
    SK_ZONE_RELEASE_NUM,
    num_pages,        \* the pages of the heap
    sys_zone_size,    \* as sk_system_mem_init chooses it from the heap's size
    Request,          \* the sizes asked for
    MaxLive           \* how many blocks of each size the application has at most

sys_zone_limit == Min({sys_zone_size \div 4, 16384})
sys_zone_page_cnt == sys_zone_size \div SK_PAGE_SIZE

\* sizeof(struct slab_zone) and sizeof(struct sk_mem_usage)
ZONE_HEADER == 56
USAGE_SIZE == 4

\* SK_ALIGN, for a power of two
Align(n, a) == ((n + a - 1) \div a) * a

usage_pages == Align(num_pages * USAGE_SIZE, SK_PAGE_SIZE) \div SK_PAGE_SIZE

ASSUME SlabAssumption ==
    /\ SK_PAGE_SIZE \in Nat \ {0}
    /\ sys_zone_size % SK_PAGE_SIZE = 0
    /\ usage_pages < num_pages
    /\ Request \subseteq Nat \ {0}
    /\ MaxLive \in [Request -> Nat]

VARIABLES
    pages,      \* sys_page_list
    usage,      \* sys_mem_usage
    zone,       \* the struct slab_zone at the start of each zone
    array,      \* sys_zone_array, each list from its head
    free,       \* sys_zone_free, from its head
    free_cnt,   \* sys_zone_free_cnt
    fault,
    live        \* history: the blocks the application has

vars == <<pages, usage, zone, array, free, free_cnt, fault, live>>

-----------------------------------------------------------------------------
(* zone_index *)

\* SK_ALIGN(n, 127) keeps bit 0 and clears bits 1 to 6 of n + 126.
Align127(n) == (n + 126) - (((n + 126) % 128) - ((n + 126) % 2))

\* The size of the chunks for n bytes and the class they belong to, by the
\* rows of the table.
zone_index(n) ==
    LET row(size, unit, base) == [size |-> size, index |-> size \div unit + base]
    IN  CASE n < 128 -> row(Align(n, 8), 8, -1)
          [] n \in 128 .. 255 -> row(Align(n, 16), 16, 7)
          [] n \in 256 .. 511 -> row(Align(n, 32), 32, 15)
          [] n \in 512 .. 1023 -> row(Align(n, 64), 64, 23)
          [] n \in 1024 .. 2047 -> row(Align127(n), 128, 31)
          [] n \in 2048 .. 4095 -> row(Align(n, 256), 256, 39)
          [] n \in 4096 .. 8191 -> row(Align(n, 512), 512, 47)
          [] n \in 8192 .. 16383 -> row(Align(n, 1024), 1024, 55)

SmallRequest == {n \in Request : n < sys_zone_limit}
Index == {zone_index(n).index : n \in SmallRequest}

\* Where the chunks of a zone start: aligned to their size when it is a power
\* of two.
PowerOfTwo(size) == \E k \in 3 .. 13 : size = 2 ^ k
Offset(size) == IF PowerOfTwo(size) THEN Align(ZONE_HEADER, size) ELSE Align(ZONE_HEADER, 8)

-----------------------------------------------------------------------------
(* The state *)

Page == 0 .. num_pages - 1
PageOf(addr) == addr \div SK_PAGE_SIZE

FREE == "SK_PAGE_TYPE_FREE"
SMALL == "SK_PAGE_TYPE_SMALL"
LARGE == "SK_PAGE_TYPE_LARGE"
Usage == [type : {FREE, SMALL, LARGE}, size : 0 .. num_pages]

\* What a z_freechunk nobody has set points to.  sk_malloc does not set it in a
\* new zone: the list then ends in what the memory held before.
Garbage == -1

\* The pages that hold no zone in use.  (The fields of a zone on the free list
\* are all written before the next read, z_freechunk excepted.)
NoZone == [nfree |-> 0, nmax |-> 0, base |-> 0, uindex |-> 0, index |-> 0,
           freechunk |-> <<>>]

TypeOK ==
    /\ usage \in [Page -> Usage]
    /\ DOMAIN zone = Page
    /\ \A z \in Page : zone[z].nfree \in 0 .. zone[z].nmax
    /\ array \in [Index -> Seq(Page)]
    /\ free \in Seq(Page)
    /\ free_cnt = Len(free) \/ fault
    /\ fault \in BOOLEAN

\* sk_system_mem_init; the usage array lies in the heap and holds what the
\* memory held, which nothing reads before it is set.
sk_system_mem_init ==
    /\ pages = sk_page_alloc(sk_page_init(0, num_pages), usage_pages)
    /\ usage = [p \in Page |-> [type |-> FREE, size |-> 0]]
    /\ zone = [p \in Page |-> NoZone]
    /\ array = [i \in Index |-> <<>>]
    /\ free = <<>>
    /\ free_cnt = 0
    /\ fault = FALSE
    /\ live = {}

-----------------------------------------------------------------------------
(* sk_malloc *)

Returned(addr, n) == live' = live \cup {[at |-> addr, len |-> n]}

MallocLarge(n) ==
    LET npages == Align(n, SK_PAGE_SIZE) \div SK_PAGE_SIZE
        at == page_alloc_at(pages, npages)
    IN  /\ n >= sys_zone_limit
        /\ at # NoPage
        /\ pages' = sk_page_alloc(pages, npages)
        /\ usage' = [usage EXCEPT ![at] = [type |-> LARGE, size |-> npages]]
        /\ Returned(at * SK_PAGE_SIZE, n)
        /\ UNCHANGED <<zone, array, free, free_cnt, fault>>

\* Mutant: one chunk too many is taken from the space never used.
MallocBehind(n) ==
    LET i == zone_index(n).index
        z == Head(array[i])
    IN  /\ n < sys_zone_limit
        /\ array[i] # <<>>
        /\ array' = IF zone[z].nfree - 1 = 0 THEN [array EXCEPT ![i] = Tail(@)] ELSE array
        /\ zone' = [zone EXCEPT ![z].nfree = @ - 1, ![z].uindex = @ + 1]
        /\ Returned(zone[z].base + zone'[z].uindex * zone_index(n).size, n)
        /\ UNCHANGED <<pages, usage, free, free_cnt, fault>>

\* Out of a zone of the class: from the space never used, then from the chunks
\* that were freed.
MallocChunk(n) ==
    LET i == zone_index(n).index
        z == Head(array[i])
        fresh == zone[z].uindex + 1 # zone[z].nmax
    IN  /\ n < sys_zone_limit
        /\ array[i] # <<>>
        /\ array' = IF zone[z].nfree - 1 = 0 THEN [array EXCEPT ![i] = Tail(@)] ELSE array
        /\ IF fresh
           THEN /\ zone' = [zone EXCEPT ![z].nfree = @ - 1, ![z].uindex = @ + 1]
                /\ Returned(zone[z].base + zone'[z].uindex * zone_index(n).size, n)
           ELSE /\ zone' = [zone EXCEPT ![z].nfree = @ - 1,
                                        ![z].freechunk = IF Len(@) > 1 THEN Tail(@) ELSE @]
                /\ Returned(Head(zone[z].freechunk), n)
        /\ UNCHANGED <<pages, usage, free, free_cnt, fault>>

\* The zone at z is set up for the class of n and its first chunk returned.
NewZone(z, n) ==
    LET size == zone_index(n).size
        index == zone_index(n).index
        base == z * SK_PAGE_SIZE + Offset(size)
        nmax == (sys_zone_size - Offset(size)) \div size
    IN  /\ zone' = [zone EXCEPT ![z] =
               [nfree |-> nmax - 1, nmax |-> nmax, base |-> base, uindex |-> 0,
                index |-> index, freechunk |-> <<Garbage>>]]
        /\ array' = [array EXCEPT ![index] = <<z>> \o @]
        /\ Returned(base, n)

ExhaustedFor(n) == n < sys_zone_limit /\ array[zone_index(n).index] = <<>>

MallocReuses(n) ==
    /\ ExhaustedFor(n)
    /\ free # <<>>
    /\ free' = Tail(free)
    /\ free_cnt' = free_cnt - 1
    /\ NewZone(Head(free), n)
    /\ UNCHANGED <<pages, usage, fault>>

MallocZone(n) ==
    LET z == page_alloc_at(pages, sys_zone_page_cnt)
    IN  /\ ExhaustedFor(n)
        /\ free = <<>>
        /\ z # NoPage
        /\ pages' = sk_page_alloc(pages, sys_zone_page_cnt)
        /\ usage' = [p \in Page |-> IF p \in z .. z + sys_zone_page_cnt - 1
                                    THEN [type |-> SMALL, size |-> p - z] ELSE usage[p]]
        /\ NewZone(z, n)
        /\ UNCHANGED <<free, free_cnt, fault>>

MallocFails(n) ==
    /\ \/ /\ n >= sys_zone_limit
          /\ FirstFit(pages, Align(n, SK_PAGE_SIZE) \div SK_PAGE_SIZE) = 0
       \/ /\ ExhaustedFor(n)
          /\ free = <<>>
          /\ FirstFit(pages, sys_zone_page_cnt) = 0
    /\ UNCHANGED vars

-----------------------------------------------------------------------------
(* sk_free, of a block the application has *)

FreeLarge(b) ==
    LET p == PageOf(b.at)
    IN  /\ usage[p].type = LARGE
        /\ pages' = sk_page_free(pages, p, usage[p].size)
        /\ usage' = [usage EXCEPT ![p].size = 0]
        /\ live' = live \ {b}
        /\ UNCHANGED <<zone, array, free, free_cnt, fault>>

\* Mutant: the page of the chunk is taken for the first of the zone.
ZoneAtPage(b) == PageOf(b.at)

\* The zone of a chunk, found through the usage of its page.
ZoneOf(b) == PageOf(b.at) - usage[PageOf(b.at)].size

\* Mutant: a zone that was used up is not listed again.
ListAsItWas(z) == array[zone[z].index]

\* The list of the zone's class once the chunk is back, and whether the zone is
\* then all free and not the only one of the list.
ListWith(z) ==
    LET i == zone[z].index
    IN  IF zone[z].nfree = 0 THEN <<z>> \o array[i] ELSE array[i]
Spare(z) == zone[z].nfree + 1 = zone[z].nmax /\ Len(ListWith(z)) > 1

FreeChunk(b) ==
    LET z == ZoneOf(b)
    IN  /\ usage[PageOf(b.at)].type # LARGE
        /\ ~Spare(z)
        /\ zone' = [zone EXCEPT ![z].freechunk = <<b.at>> \o @, ![z].nfree = @ + 1]
        /\ array' = [array EXCEPT ![zone[z].index] = ListWith(z)]
        /\ live' = live \ {b}
        /\ UNCHANGED <<pages, usage, free, free_cnt, fault>>

\* The last chunk of a zone that is not needed: the zone goes to the free zones.
ZoneSpared(b, z) ==
    /\ usage[PageOf(b.at)].type # LARGE
    /\ Spare(z)
    /\ zone' = [zone EXCEPT ![z] = NoZone]
    /\ array' = [array EXCEPT ![zone[z].index] = Remove(ListWith(z), z)]
    /\ free_cnt' = free_cnt + 1
    /\ live' = live \ {b}

FreeZone(b) ==
    LET z == ZoneOf(b)
    IN  /\ ZoneSpared(b, z)
        /\ free_cnt' <= SK_ZONE_RELEASE_NUM
        /\ free' = <<z>> \o free
        /\ UNCHANGED <<pages, usage, fault>>

\* With too many free zones its pages are released; sys_zone_free is left one
\* zone header before the next free zone.
ReleaseZone(b) ==
    LET z == ZoneOf(b)
    IN  /\ ZoneSpared(b, z)
        /\ free_cnt' > SK_ZONE_RELEASE_NUM
        /\ fault' = TRUE
        /\ usage' = [p \in Page |-> IF p \in z .. z + sys_zone_page_cnt - 1
                                    THEN [type |-> FREE, size |-> 0] ELSE usage[p]]
        /\ pages' = sk_page_free(pages, z, sys_zone_page_cnt)
        /\ UNCHANGED free

sk_malloc(n) == MallocLarge(n) \/ MallocChunk(n) \/ MallocReuses(n) \/ MallocZone(n) \/ MallocFails(n)
sk_free(b) == FreeLarge(b) \/ FreeChunk(b) \/ FreeZone(b) \/ ReleaseZone(b)

Next ==
    /\ ~fault
    /\ \/ \E n \in Request : Cardinality({b \in live : b.len = n}) < MaxLive[n] /\ sk_malloc(n)
       \/ \E b \in live : sk_free(b)

Spec == sk_system_mem_init /\ [][Next]_vars

-----------------------------------------------------------------------------
(* Properties *)

Apart(b, c) == b.at + b.len <= c.at \/ c.at + c.len <= b.at

Zones == {z \in Page : zone[z].nmax > 0}
ZonePages(z) == z .. z + sys_zone_page_cnt - 1
LargeBlocks == {b \in live : b.len >= sys_zone_limit}
LargePages(b) == PageOf(b.at) .. PageOf(b.at + b.len - 1)
ChunksOf(z) == {b \in live \ LargeBlocks : PageOf(b.at) \in ZonePages(z)}

\* Two blocks the application has share no byte, and a chunk lies in a zone
\* behind its header, although a new zone keeps the z_freechunk of its past life
\* (sk_malloc, slab.c:288-390: a chunk is taken from the list only when as many
\* have been freed since).
BlocksApart ==
    /\ \A b, c \in live : b # c => Apart(b, c)
    /\ \A b \in live \ LargeBlocks :
          \E z \in Zones : /\ zone[z].base <= b.at
                           /\ b.at + b.len <= (z + sys_zone_page_cnt) * SK_PAGE_SIZE

\* Every page is free, or in one zone, or in one large block, or holds the usage
\* array: none is lost or given out twice, whatever is split and joined
\* (sk_page_alloc and sk_page_free, slab.c:113-182).
PagesConserved ==
    LET held == <<PagesOf(pages), 0 .. usage_pages - 1,
                  UNION {ZonePages(z) : z \in Zones \cup Range(free)},
                  UNION {LargePages(b) : b \in LargeBlocks}>>
    IN  ~fault =>
          /\ UNION Range(held) = Page
          /\ \A i, j \in DOMAIN held : i # j => held[i] \cap held[j] = {}

\* The page list is in address order and two runs that touch have been joined,
\* so a request fails only if no run of free pages is long enough
\* (sk_page_free, slab.c:113-145).
RunsJoined ==
    \A i \in 1 .. Len(pages) - 1 : pages[i].at + pages[i].page < pages[i + 1].at

\* z_nfree counts the chunks of a zone the application does not have, and the
\* zone is on the list of its class exactly when there are any (slab.c:322, :430).
\* So does sys_zone_free_cnt for the free zones, and everything keeps its type.
ZonesCounted ==
    /\ TypeOK
    /\ \A z \in Zones :
          /\ zone[z].nfree = zone[z].nmax - Cardinality(ChunksOf(z))
          /\ \A i \in Index : Contains(array[i], z) <=> (i = zone[z].index /\ zone[z].nfree > 0)
          /\ IsInjective(array[zone[z].index])

\* From any chunk the usage of its page leads back to the zone it was taken from,
\* also when zones and large blocks have used the page before (sk_free,
\* slab.c:409-424).
UsageLeadsBack ==
    /\ \A z \in Zones : \A b \in ChunksOf(z) :
          usage[PageOf(b.at)].type = SMALL /\ ZoneOf(b) = z
    /\ \A b \in LargeBlocks :
          /\ usage[PageOf(b.at)].type = LARGE
          /\ usage[PageOf(b.at)].size = Cardinality(LargePages(b))

=============================================================================
