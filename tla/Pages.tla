-------------------------------- MODULE Pages --------------------------------
(***************************************************************************)
(* The page allocator of mem/slab.c, as functions on sys_page_list.  The   *)
(* list is a sequence of runs of free pages, in list order; a run b has    *)
(* b.page pages from page number b.at on.                                  *)
(***************************************************************************)
EXTENDS Integers, Sequences, SequencesExt, FiniteSets

NoPage == -1

sk_page_init(at, npages) == <<[at |-> at, page |-> npages]>>

\* The places of the list where the search of sk_page_free ends.
FreeStops(list, n, num) ==
    {i \in 1 .. Len(list) : \/ list[i].at + list[i].page = n
                            \/ list[i].at >= n + num}

\* Mutant: a run that now touches the next one is not joined with it.
page_free_gap(list, n, num) ==
    LET stops == FreeStops(list, n, num)
        i == IF stops = {} THEN Len(list) + 1 ELSE Min(stops)
        b == list[i]
    IN  CASE i > Len(list) -> Append(list, [at |-> n, page |-> num])
          [] i <= Len(list) /\ b.at + b.page = n ->
                [list EXCEPT ![i].page = @ + num]
          [] i <= Len(list) /\ b.at + b.page # n /\ b.at = n + num ->
                [list EXCEPT ![i] = [at |-> n, page |-> b.page + num]]
          [] OTHER -> InsertAt(list, i, [at |-> n, page |-> num])

\* Mutant: the next run is taken off the list and its pages are not added.
page_free_drops(list, n, num) ==
    LET stops == FreeStops(list, n, num)
        i == IF stops = {} THEN Len(list) + 1 ELSE Min(stops)
        b == list[i]
        joined == [list EXCEPT ![i].page = @ + num]
    IN  CASE i > Len(list) -> Append(list, [at |-> n, page |-> num])
          [] i <= Len(list) /\ b.at + b.page = n ->
                IF i < Len(list) /\ n + num = list[i + 1].at
                THEN RemoveAt(joined, i + 1) ELSE joined
          [] i <= Len(list) /\ b.at + b.page # n /\ b.at = n + num ->
                [list EXCEPT ![i] = [at |-> n, page |-> b.page + num]]
          [] OTHER -> InsertAt(list, i, [at |-> n, page |-> num])

\* The num pages from n on join the run that ends at n, and with it the next
\* one, or the run that starts behind them, or become a run of their own.
sk_page_free(list, n, num) ==
    LET stops == FreeStops(list, n, num)
        i == IF stops = {} THEN Len(list) + 1 ELSE Min(stops)
        b == list[i]
        joined == [list EXCEPT ![i].page = @ + num]
    IN  CASE i > Len(list) -> Append(list, [at |-> n, page |-> num])
          [] i <= Len(list) /\ b.at + b.page = n ->
                IF i < Len(list) /\ n + num = list[i + 1].at
                THEN RemoveAt([joined EXCEPT ![i].page = @ + list[i + 1].page], i + 1)
                ELSE joined
          [] i <= Len(list) /\ b.at + b.page # n /\ b.at = n + num ->
                [list EXCEPT ![i] = [at |-> n, page |-> b.page + num]]
          [] OTHER -> InsertAt(list, i, [at |-> n, page |-> num])

\* The first run that is large enough, 0 if there is none.
FirstFit(list, npages) == SelectInSeq(list, LAMBDA b : b.page >= npages)

\* The first page allocated, and the list without the pages: they are taken
\* from the front of the run.
page_alloc_at(list, npages) ==
    IF npages = 0 \/ FirstFit(list, npages) = 0 THEN NoPage
    ELSE list[FirstFit(list, npages)].at

sk_page_alloc(list, npages) ==
    LET i == FirstFit(list, npages)
    IN  IF npages = 0 \/ i = 0 THEN list
        ELSE IF list[i].page = npages THEN RemoveAt(list, i)
        ELSE [list EXCEPT ![i] = [at |-> @.at + npages, page |-> @.page - npages]]

PagesOf(list) == UNION {b.at .. b.at + b.page - 1 : b \in Range(list)}

=============================================================================
