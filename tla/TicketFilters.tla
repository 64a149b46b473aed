---------------------------- MODULE TicketFilters ----------------------------
(* The filters, the search and the page of the queue, kept in the address of *)
(* the browser (hooks/useTicketFilters.ts). Priority, SLA and sorting are    *)
(* filters like the status and are left out. Queue says when they change.    *)
EXTENDS Naturals

CONSTANTS
  Status,      \* the statuses to filter by
  Word,        \* the texts to search for
  All,         \* no filter by status, no search
  MaxPage,     \* bound on the pages asked for
  Address      \* the addresses the page is opened at, a link or Back leads to

VARIABLES
  url,        \* the filters in the address
  turned      \* the address the person last turned or went to

Filters == [status : Status \cup {All}, search : Word \cup {All}, page : 1..MaxPage]

ASSUME FiltersAssumption == MaxPage \in Nat /\ Address \subseteq Filters

SetFilterKeepingPage(field, value) == [url EXCEPT ![field] = value]

(* setFilter: a different filter starts again from the first page.           *)
SetFilter(field, value) == [url EXCEPT ![field] = value, !.page = 1]

(* setPage, as it was when the filters were f.                               *)
SetPage(f, page) == [f EXCEPT !.page = page]

-----------------------------------------------------------------------------

(* A page after the first is one the person turned to under these very       *)
(* filters: no search, choice or creation leaves the queue on the page       *)
(* number of another list.                                                   *)
PageOfTheseFilters == url.page > 1 => turned = url

=============================================================================
