------------------------------- MODULE Queue -------------------------------
(* The queue of tickets in the browser: its filters, search and page are     *)
(* kept in the address (TicketFilters), the search box is debounced into it  *)
(* (pages/DashboardPage.tsx), and the list is the cached answer for the      *)
(* address, the last one standing in while it is on its way. The form beside *)
(* the list creates a ticket and then shows the first page.                  *)
(*                                                                           *)
(* A change of the address is rendered at once. Others' tickets are left     *)
(* out: nothing tells the page of them.                                      *)
EXTENDS TicketFilters, Sequences, FiniteSets, SequencesExt, FiniteSetsExt

CONSTANTS
  Ticket,      \* the tickets there may be: records with id, status and word
  FirstStatus, \* the status of a ticket that was just created
  PageSize,    \* `limit`
  None,        \* no answer, no fetch, no creation, no choice
  Sent,        \* a fetch the server has not served yet
  MaxMoves     \* bound on what the person does and the fetches that fail

ASSUME QueueAssumption == PageSize \in Nat \ {0}

VARIABLES
  text,       \* what the search box holds
  due,        \* whether its timer runs
  debounced,  \* what it held when the timer last ran out
  fetch,      \* the fetch of the list: None, Sent, or the answer on its way
  cached,     \* the answers the cache has, by filters
  last,       \* the answer last shown that was more than a stand-in
  failed,     \* whether the last fetch for the address failed
  adding,     \* the creation in progress, or None
  tickets,    \* the tickets on the server
  chosen,     \* the status the person last filtered by, None once overruled
  missed,     \* history: created tickets that the list is not fetched again for
  moves

vars == <<text, due, debounced, url, fetch, cached, last, failed, adding, tickets,
          chosen, turned, missed, moves>>

-----------------------------------------------------------------------------
(* The server                                                                *)

Matching(f, stored) ==
  {t \in stored : f.status \in {All, t.status} /\ f.search \in {All, t.word}}

InOrder(S) == SetToSortSeq(S, LAMBDA s, t : s.id < t.id)

Served(f, stored) ==
  LET matching == Matching(f, stored)
      total == Cardinality(matching)
      skip == (f.page - 1) * PageSize
  IN [rows |-> SubSeq(InOrder(matching), skip + 1, Min({skip + PageSize, total})),
      page |-> f.page,
      totalPages |-> Max({1, (total + PageSize - 1) \div PageSize})]

-----------------------------------------------------------------------------
(* The address and the list                                                  *)

EmptyPagination == [rows |-> <<>>, page |-> 1, totalPages |-> 1]

KeyWithoutSearch(f) == [f EXCEPT !.search = All]

(* ticketKeys.list: the key of the cached answer for these filters.          *)
Key(f) == f

Listed == IF cached[Key(url)] # None THEN cached[Key(url)]
          ELSE IF ~failed /\ last # None THEN last
          ELSE EmptyPagination

(* What is shown for new filters is fetched anew; the fetch for the old ones *)
(* is cancelled, and with it the wait for it.                                *)
GoTo(f) ==
  /\ url' = f
  /\ IF Key(f) = Key(url)
     THEN UNCHANGED <<fetch, last, failed>>
     ELSE /\ fetch' = Sent
          /\ last' = IF cached[Key(f)] # None THEN cached[Key(f)] ELSE last
          /\ failed' = FALSE

Unawaited(f) ==
  IF adding # None /\ Key(f) # Key(url) THEN [adding EXCEPT !.awaits = FALSE] ELSE adding

(* A ticket the list is not fetched again for: a fetch still to be served    *)
(* shows it all the same.                                                    *)
MissedToo(t) == IF fetch = Sent THEN missed ELSE missed \cup {t}

-----------------------------------------------------------------------------
Init ==
  /\ url \in Address
  /\ text = url.search
  /\ due = TRUE
  /\ debounced = url.search
  /\ fetch = Sent
  /\ cached = [f \in Filters |-> None]
  /\ last = None
  /\ failed = FALSE
  /\ adding = None
  /\ tickets \in SUBSET Ticket
  /\ chosen = url.status
  /\ turned = url
  /\ missed = {}
  /\ moves = 0

Move == moves < MaxMoves /\ moves' = moves + 1

Type(s) ==
  /\ Move
  /\ s # text
  /\ text' = s
  /\ due' = TRUE
  /\ UNCHANGED <<debounced, url, fetch, cached, last, failed, adding, tickets, chosen,
                 turned, missed>>

(* The person stopped typing for SEARCH_DEBOUNCE_MS.                         *)
Debounce ==
  /\ due
  /\ due' = FALSE
  /\ debounced' = text
  /\ UNCHANGED <<text, url, fetch, cached, last, failed, adding, tickets, chosen, turned,
                 missed, moves>>

Behind == debounced # url.search

ApplySearch ==
  /\ Behind
  /\ GoTo(SetFilter("search", debounced))
  /\ adding' = Unawaited(url')
  /\ UNCHANGED <<text, due, debounced, cached, tickets, chosen, turned, missed, moves>>

Choose(status) ==
  /\ Move
  /\ status # url.status
  /\ GoTo(SetFilter("status", status))
  /\ adding' = Unawaited(url')
  /\ chosen' = status
  /\ UNCHANGED <<text, due, debounced, cached, tickets, turned, missed>>

(* Previous and Next: from the page that is listed, while nothing is fetched.*)
Turn(page) ==
  /\ Move
  /\ fetch = None
  /\ \/ Listed.page > 1 /\ page = Listed.page - 1
     \/ Listed.page < Listed.totalPages /\ page = Listed.page + 1
  /\ GoTo(SetPage(url, page))
  /\ adding' = Unawaited(url')
  /\ turned' = url'
  /\ UNCHANGED <<text, due, debounced, cached, tickets, chosen, missed>>

(* The link to the queue, or Back and Forward: the page stays mounted.       *)
Follow(f) ==
  /\ Move
  /\ f # url
  /\ GoTo(f)
  /\ adding' = Unawaited(url')
  /\ chosen' = f.status
  /\ turned' = f
  /\ UNCHANGED <<text, due, debounced, cached, tickets, missed>>

Refresh ==
  /\ Move
  /\ fetch = None
  /\ fetch' = Sent
  /\ failed' = (failed /\ cached[Key(url)] # None)
  /\ UNCHANGED <<text, due, debounced, url, cached, last, adding, tickets, chosen, turned,
                 missed>>

-----------------------------------------------------------------------------
(* The fetch of the list                                                     *)

ServeList ==
  /\ fetch = Sent
  /\ fetch' = Served(url, tickets)
  /\ missed' = {}
  /\ UNCHANGED <<text, due, debounced, url, cached, last, failed, adding, tickets, chosen,
                 turned, moves>>

Arrived == IF adding = None THEN None ELSE [adding EXCEPT !.awaits = FALSE]

ListArrives ==
  /\ fetch \notin {None, Sent}
  /\ fetch' = None
  /\ cached' = [cached EXCEPT ![Key(url)] = fetch]
  /\ last' = fetch
  /\ failed' = FALSE
  /\ adding' = Arrived
  /\ UNCHANGED <<text, due, debounced, url, tickets, chosen, turned, missed, moves>>

ListFails ==
  /\ Move
  /\ fetch # None
  /\ fetch' = None
  /\ failed' = TRUE
  /\ adding' = Arrived
  /\ UNCHANGED <<text, due, debounced, url, cached, last, tickets, chosen, turned, missed>>

-----------------------------------------------------------------------------
(* The form: handleCreate keeps the setPage of the filters it was sent with. *)

Submit(t) ==
  /\ Move
  /\ adding = None
  /\ t \notin tickets
  /\ t.status = FirstStatus
  /\ adding' = [ticket |-> t, filters |-> url, phase |-> "sent", awaits |-> FALSE]
  /\ UNCHANGED <<text, due, debounced, url, fetch, cached, last, failed, tickets, chosen,
                 turned, missed>>

Create ==
  /\ adding # None
  /\ adding.phase = "sent"
  /\ tickets' = tickets \cup {adding.ticket}
  /\ adding' = [adding EXCEPT !.phase = "stored"]
  /\ UNCHANGED <<text, due, debounced, url, fetch, cached, last, failed, chosen, turned,
                 missed, moves>>

(* The creation is answered: the list is reloaded, but its first fetch for   *)
(* these filters, if it runs, is left to end.                                *)
CreateAnswered ==
  /\ adding # None
  /\ adding.phase = "stored"
  /\ adding' = [adding EXCEPT !.phase = "answered", !.awaits = TRUE]
  /\ IF fetch # None /\ cached[Key(url)] = None
     THEN missed' = MissedToo(adding.ticket) /\ UNCHANGED <<fetch, failed>>
     ELSE /\ fetch' = Sent
          /\ failed' = (failed /\ cached[Key(url)] # None)
          /\ UNCHANGED missed
  /\ UNCHANGED <<text, due, debounced, url, cached, last, tickets, chosen, turned, moves>>

(* The first page, of the filters the form was sent with.                    *)
ShowFirstPage ==
  /\ adding # None
  /\ adding.phase = "answered"
  /\ ~adding.awaits
  /\ GoTo(SetPage(adding.filters, 1))
  /\ chosen' = IF adding.filters.status = url.status THEN chosen ELSE None
  /\ adding' = None
  /\ UNCHANGED <<text, due, debounced, cached, tickets, turned, missed, moves>>

(* Refused, or never delivered.                                              *)
CreateRefused ==
  /\ adding # None
  /\ adding.phase = "sent"
  /\ adding' = None
  /\ UNCHANGED <<text, due, debounced, url, fetch, cached, last, failed, tickets, chosen,
                 turned, missed, moves>>

(* Stored, but its answer is lost: to the page it failed, and nothing is      *)
(* reloaded.                                                                 *)
CreateLost ==
  /\ adding # None
  /\ adding.phase = "stored"
  /\ adding' = None
  /\ missed' = MissedToo(adding.ticket)
  /\ UNCHANGED <<text, due, debounced, url, fetch, cached, last, failed, tickets, chosen,
                 turned, moves>>

Next ==
  \/ \E s \in Word \cup {All} : Type(s)
  \/ Debounce
  \/ ApplySearch
  \/ \E s \in Status \cup {All} : Choose(s)
  \/ \E p \in 1..MaxPage : Turn(p)
  \/ \E f \in Address : Follow(f)
  \/ Refresh
  \/ ServeList
  \/ ListArrives
  \/ ListFails
  \/ \E t \in Ticket : Submit(t)
  \/ Create
  \/ CreateAnswered
  \/ ShowFirstPage
  \/ CreateRefused
  \/ CreateLost

Spec == Init /\ [][Next]_vars

(* Timers run out, effects are run, fetches and creations are answered; the  *)
(* person need not do anything.                                              *)
FairSpec ==
  /\ Spec
  /\ WF_vars(Debounce)
  /\ WF_vars(ApplySearch)
  /\ WF_vars(ServeList)
  /\ WF_vars(ListArrives)
  /\ WF_vars(Create \/ CreateRefused)
  /\ WF_vars(CreateAnswered \/ CreateLost)
  /\ WF_vars(ShowFirstPage)

-----------------------------------------------------------------------------

(* Once the person stops, the address has the text in the search box and the *)
(* status they chose last, unless a creation sent under another one came     *)
(* back after it, and, unless its fetch failed, the list is the server's     *)
(* answer for the address: no timer, effect, link, late answer, answer to    *)
(* other filters or stand-in is left over. It may lack only a ticket of the   *)
(* form's whose answer was lost (queries/useTicketActions.ts:23), or came     *)
(* while the first, older fetch for these filters was left to run.           *)
QueueSettles ==
  <>[](/\ url.search = text
       /\ chosen \in {None, url.status}
       /\ failed \/ \E unseen \in SUBSET missed : Listed = Served(url, tickets \ unseen))

=============================================================================
