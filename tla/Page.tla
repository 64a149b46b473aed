-------------------------------- MODULE Page --------------------------------
(* A staff member's browser page on one ticket: what its query cache holds,  *)
(* what it shows of it, and the calls it makes, while others change the      *)
(* ticket on the server. The queue and the ticket's own view read the same   *)
(* cache. An edit shows at once (client/queries/tickets.ts), is sent with    *)
(* the version shown, and is rolled back when refused; a comment, a decision *)
(* on the agent's reply and a deletion show only when reloaded.              *)
(*                                                                           *)
(* What a ticket holds is abstracted to the number of changes made to it and *)
(* the version it has after each: a comment or a new proposal changes the    *)
(* ticket and leaves its version alone. The cache is TanStack Query's: a     *)
(* fetch is cancelled when nothing shows its query, and an invalidation      *)
(* restarts the fetch of a shown query, unless it is the first one.          *)
EXTENDS Naturals, Sequences, FiniteSets, SequencesExt, Functions

CONSTANTS
  Call,        \* the calls the page makes, each of them once
  None,        \* no data, no fetch, a call not made
  Over,        \* a call that was answered
  Sent,        \* a fetch the server has not served yet
  Absent,      \* the queue's answer when the ticket is gone
  MaxChanges,  \* bound on the states of the ticket, the first included
  MaxMoves     \* bound on the views opened, refreshes and failed fetches

VARIABLES
  view,    \* "queue" or "detail": the page that is open
  cache,   \* what the cache has for each query, or None
  fetch,   \* None, Sent, or the answer on its way
  failed,  \* the queries whose last fetch failed
  call,    \* the calls of the page: None, or what was sent and how it stands
  server,  \* the ticket, its thread and its proposal as the server has them
  story,   \* history: who made each change, and which changes the page may lack
  moves    \* how many views were opened, refreshes asked for, fetches failed

vars == <<view, cache, fetch, failed, call, server, story, moves>>

Query == {"list", "detail", "thread", "proposal"}
OnTickets == Query \ {"proposal"}
Copies == {"list", "detail"}

(* What the server answers to each query.                                    *)
TicketCopy == [n : Nat, version : Nat, shows : SUBSET Call]
ThreadCopy == [n : Nat]
ProposalCopy == [n : Nat, run : Nat, open : BOOLEAN]
Answer(q) ==
  CASE q = "list"     -> TicketCopy \cup {Absent}
    [] q = "detail"   -> TicketCopy
    [] q = "thread"   -> ThreadCopy
    [] q = "proposal" -> ProposalCopy
Datum == TicketCopy \cup ThreadCopy \cup ProposalCopy \cup {Absent, None}

Kind == {"edit", "delete", "comment", "approve", "reject"}
Phase == {"sent", "done", "lost", "reload"}
Request == [kind : Kind, on : TicketCopy \cup {None},
            snapshot : [OnTickets -> Datum] \cup {None}, since : Nat, phase : Phase,
            here : BOOLEAN]

ASSUME PageAssumption ==
  /\ \A v \in {None, Absent, Sent} : v \notin TicketCopy \cup ThreadCopy \cup ProposalCopy
  /\ None # Absent /\ None # Sent /\ Absent # Sent
  /\ \A v \in {None, Over} : v \notin Request

(* An edit carries the copy it was made on, the change it was sent after and, *)
(* until it is accepted, what it would put back; a decision names only the    *)
(* ticket.                                                                    *)
Asked(c) ==
  /\ c \in [kind : Kind, on : {c.on}, snapshot : {c.snapshot}, since : Nat, phase : Phase,
            here : BOOLEAN]
  /\ IF c.kind = "edit" THEN c.on \in TicketCopy /\ c.phase # "reload" ELSE c.on = None
  /\ IF c.kind = "edit" /\ c.phase # "done"
     THEN /\ c.snapshot \in [OnTickets -> Datum]
          /\ \A q \in OnTickets : c.snapshot[q] \in Answer(q) \cup {None}
     ELSE c.snapshot = None

(* `marks`: the agent's mark on the ticket after each change.                *)
Mark == [run : Nat, open : BOOLEAN]
Server == [versions : Seq(Nat), marks : Seq(Mark), thread : Nat, proposal : Nat,
           alive : BOOLEAN]

(* One change: the call it is of, or None for what others did, and the        *)
(* queries that show it. `left`: the calls answered while a query's first     *)
(* fetch was left to run; `unheard`: the comments and deletions whose answer  *)
(* was lost.                                                                  *)
Change == [by : Call \cup {None}, kind : Kind \cup {None}, of : SUBSET Query]
Story == [changes : Seq(Change), left : [Query -> SUBSET Call], unheard : SUBSET Call]

Caches(c) == /\ c \in [Query -> Datum]
             /\ \A q \in Query : c[q] \in Answer(q) \cup {None}
Fetches(f) == /\ f \in [Query -> Datum \cup {Sent}]
              /\ \A q \in Query : f[q] \in Answer(q) \cup {None, Sent}

TypeOK ==
  /\ view \in {"queue", "detail"}
  /\ Caches(cache)
  /\ Fetches(fetch)
  /\ failed \subseteq Query
  /\ DOMAIN call = Call
  /\ \A m \in Call : call[m] \in {None, Over} \/ Asked(call[m])
  /\ server \in Server
  /\ server.versions # <<>>
  /\ Len(server.marks) = Len(server.versions)
  /\ story \in Story
  /\ moves \in Nat

-----------------------------------------------------------------------------
(* The server                                                                *)

Changes == Len(server.versions)
Version == Last(server.versions)
Proposal(s) == Last(s.marks)
Ticket == [n |-> Changes, version |-> Version, shows |-> {}]

Served(q) ==
  CASE q = "list"     -> IF server.alive THEN Ticket ELSE Absent
    [] q = "detail"   -> Ticket
    [] q = "thread"   -> [n |-> server.thread]
    [] q = "proposal" -> [n |-> server.proposal, run |-> Proposal(server).run,
                          open |-> Proposal(server).open]

Versioned(s, bump) == [s EXCEPT !.versions = Append(@, Last(@) + bump),
                                !.marks = Append(@, Last(@))]
Commented(s) == [s EXCEPT !.thread = Len(s.versions)]
Marked(s, mark) == [s EXCEPT !.proposal = Len(s.versions),
                             !.marks[Len(s.versions)] = mark]
Decided(s) == Marked(s, [run |-> Proposal(s).run, open |-> FALSE])
Proposed(s) == Marked(s, [run |-> Len(s.versions), open |-> TRUE])

(* An edit may write the agent's mark back as it was when the ticket was read:*)
(* at the version that it is written at, and after the edit was sent.         *)
MarksRead(s, since) ==
  {s.marks[i] : i \in {j \in 1..Len(s.versions) :
                        j >= since /\ s.versions[j] = Last(s.versions)}}

Edited(s, mark) == IF mark = Proposal(s) THEN Versioned(s, 1)
                   ELSE Marked(Versioned(s, 1), mark)
Replied(s) == Commented(Versioned(s, 0))
Rejected(s) == Decided(Versioned(s, 0))
Approved(s, moved) == Commented(Decided(Versioned(s, moved)))
Drafted(s) == Proposed(Versioned(s, 0))

Others == {Edited(server, mark) : mark \in MarksRead(server, 1)}
  \cup {Replied(server), Drafted(server)}
  \cup (IF Proposal(server).open THEN {Rejected(server), Approved(server, 1)} ELSE {})

(* Which queries are to show a change: the queue is reloaded for a new version*)
(* only.                                                                      *)
Touched(s, t) ==
  {q \in Query :
     \/ q = "list" /\ (t.alive # s.alive \/ Last(t.versions) # Last(s.versions))
     \/ q = "detail" /\ Len(t.versions) # Len(s.versions)
     \/ q = "thread" /\ t.thread # s.thread
     \/ q = "proposal" /\ t.proposal # s.proposal}

Told(by, kind) ==
  [story EXCEPT !.changes =
     Append(@, [by |-> by, kind |-> kind, of |-> Touched(server, server')])]

-----------------------------------------------------------------------------
(* The cache and the page                                                    *)

Shown(w, c, f) == w = "detail" /\ c["detail"] # None /\ "detail" \notin f

ActiveIn(w, c, f) ==
  CASE w = "queue"    -> {"list"}
    [] Shown(w, c, f) -> {"detail", "thread", "proposal"}
    [] OTHER          -> {"detail"}

Active == ActiveIn(view, cache, failed)

(* What is shown follows the state: a query that comes into view is fetched, *)
(* and one that leaves it is cancelled.                                      *)
Render(w, c, f, flight) ==
  LET active == ActiveIn(w, c, f)
  IN  /\ view' = w
      /\ cache' = c
      /\ failed' = f
      /\ fetch' = [q \in Query |->
                     IF q \notin active                        THEN None
                     ELSE IF q \notin Active /\ flight[q] = None THEN Sent
                     ELSE flight[q]]

Invalidated(qs, c) ==
  [q \in Query |-> IF q \in qs /\ (fetch[q] = None \/ c[q] # None)
                   THEN Sent ELSE fetch[q]]

Holds(c, q) == q \in Copies /\ c[q] \notin {None, Absent}

(* An edit shows on each copy of the ticket; its answer takes their place.   *)
PatchCached(m, answer) ==
  [q \in Query |-> IF ~Holds(cache, q) THEN cache[q]
                   ELSE IF answer # None THEN answer
                   ELSE [cache[q] EXCEPT !.shows = @ \cup {m}]]

(* Data set by hand clears the error of a query.                             *)
Unfailed(c, qs) == {q \in failed : ~(q \in qs /\ c[q] # None)}

RestoredKeepingVersion(snapshot) ==
  [q \in Query |->
     IF q \in OnTickets /\ snapshot[q] # None
     THEN IF Holds(snapshot, q) /\ Holds(cache, q)
          THEN [snapshot[q] EXCEPT !.version = cache[q].version] ELSE snapshot[q]
     ELSE cache[q]]

Restored(snapshot) ==
  [q \in Query |-> IF q \in OnTickets /\ snapshot[q] # None
                   THEN snapshot[q] ELSE cache[q]]

Of(kinds) == {m \in Call : call[m] \notin {None, Over} /\ call[m].kind \in kinds}

(* Buttons of a view that is left do not wait for its calls any more.        *)
Unmounted(kinds) ==
  [m \in Call |-> IF m \notin Of(kinds) THEN call[m]
                  ELSE IF call[m].phase = "reload" THEN Over
                  ELSE [call[m] EXCEPT !.here = FALSE]]

Decision == {"approve", "reject"}
Waiting(kinds) == \E m \in Of(kinds) : call[m].here

-----------------------------------------------------------------------------
Init ==
  /\ view = "queue"
  /\ cache = [q \in Query |-> None]
  /\ fetch = [q \in Query |-> IF q = "list" THEN Sent ELSE None]
  /\ failed = {}
  /\ call = [m \in Call |-> None]
  /\ server = [versions |-> <<0>>, marks |-> <<[run |-> 1, open |-> TRUE]>>,
               thread |-> 1, proposal |-> 1, alive |-> TRUE]
  /\ story = [changes |-> <<[by |-> None, kind |-> None, of |-> Query]>>,
              left |-> [q \in Query |-> {}], unheard |-> {}]
  /\ moves = 0

Open(w) ==
  /\ moves < MaxMoves
  /\ moves' = moves + 1
  /\ w # view
  /\ Render(w, cache, failed, fetch)
  /\ call' = Unmounted(Decision \cup {"comment"})
  /\ UNCHANGED <<server, story>>

Refresh ==
  /\ moves < MaxMoves
  /\ moves' = moves + 1
  /\ view = "queue"
  /\ fetch["list"] = None
  /\ Render(view, cache, failed, Invalidated({"list"}, cache))
  /\ UNCHANGED <<call, server, story>>

ServeFetch(q) ==
  /\ fetch[q] = Sent
  /\ server.alive \/ q = "list"
  /\ fetch' = [fetch EXCEPT ![q] = Served(q)]
  /\ UNCHANGED <<view, cache, failed, call, server, story, moves>>

Arrive(q) ==
  /\ fetch[q] \notin {None, Sent}
  /\ Render(view, [cache EXCEPT ![q] = fetch[q]], failed \ {q},
            [fetch EXCEPT ![q] = None])
  /\ call' = IF q = "proposal" /\ cache[q] # None /\ cache[q].run # fetch[q].run
             THEN Unmounted(Decision) ELSE call
  /\ UNCHANGED <<server, story, moves>>

FailFetch(q) ==
  /\ moves < MaxMoves
  /\ moves' = moves + 1
  /\ fetch[q] = Sent
  /\ Render(view, cache, failed \cup {q}, [fetch EXCEPT ![q] = None])
  /\ call' = IF q = "detail" THEN Unmounted(Decision \cup {"comment"})
             ELSE IF q = "proposal" THEN Unmounted(Decision) ELSE call
  /\ UNCHANGED <<server, story>>

-----------------------------------------------------------------------------
(* The calls of the page                                                     *)

Send(m, kind, on, snapshot) ==
  call' = [call EXCEPT ![m] = [kind |-> kind, on |-> on, snapshot |-> snapshot,
                               since |-> IF kind = "edit" THEN Changes ELSE 0,
                               phase |-> "sent", here |-> TRUE]]

Displayed == IF view = "queue" THEN "list" ELSE "detail"
Controls == /\ Holds(cache, Displayed)
            /\ view = "detail" => "detail" \notin failed

Edit(m) ==
  /\ call[m] = None
  /\ Controls
  /\ Send(m, "edit", cache[Displayed], [q \in OnTickets |-> cache[q]])
  /\ Render(view, PatchCached(m, None), Unfailed(cache, Copies),
            [q \in Query |-> IF q \in OnTickets THEN None ELSE fetch[q]])
  /\ UNCHANGED <<server, story, moves>>

Delete(m) ==
  /\ call[m] = None
  /\ Controls
  /\ Send(m, "delete", None, None)
  /\ UNCHANGED <<view, cache, fetch, failed, server, story, moves>>

Comment(m) ==
  /\ call[m] = None
  /\ Shown(view, cache, failed)
  /\ ~Waiting({"comment"})
  /\ Send(m, "comment", None, None)
  /\ UNCHANGED <<view, cache, fetch, failed, server, story, moves>>

(* The request names no run: it decides what is pending when it is served.   *)
Decide(m, kind) ==
  /\ call[m] = None
  /\ Shown(view, cache, failed)
  /\ "proposal" \notin failed
  /\ cache["proposal"] # None
  /\ cache["proposal"].open
  /\ ~Waiting(Decision)
  /\ Send(m, kind, None, None)
  /\ UNCHANGED <<view, cache, fetch, failed, server, story, moves>>

AtVersion(m) == call[m].on.version = Version

(* What the server makes of a call it accepts.                               *)
Outcomes(m) ==
  CASE call[m].kind = "edit"    -> IF AtVersion(m)
                                   THEN {Edited(server, mark) :
                                           mark \in MarksRead(server, call[m].since)}
                                   ELSE {}
    [] call[m].kind = "delete"  -> {[server EXCEPT !.alive = FALSE]}
    [] call[m].kind = "comment" -> {Replied(server)}
    [] call[m].kind = "reject"  -> IF Proposal(server).open THEN {Rejected(server)} ELSE {}
    [] call[m].kind = "approve" -> IF Proposal(server).open
                                   THEN {Approved(server, b) : b \in {0, 1}} ELSE {}

Accept(m, lost) ==
  /\ call[m] \notin {None, Over}
  /\ call[m].phase = "sent"
  /\ server.alive
  /\ Changes < MaxChanges
  /\ server' \in Outcomes(m)
  /\ call' = [call EXCEPT ![m].phase = IF lost THEN "lost" ELSE "done",
                          ![m].snapshot = IF lost THEN @ ELSE None,
                          ![m].on = IF call[m].kind = "edit" THEN Ticket' ELSE @]
  /\ story' = [Told(m, call[m].kind) EXCEPT !.unheard =
                 IF lost /\ call[m].kind \in {"comment", "delete"} THEN @ \cup {m} ELSE @]
  /\ UNCHANGED <<view, cache, fetch, failed, moves>>

ReloadsNoThread(m) ==
  CASE call[m].kind = "edit"        -> OnTickets
    [] call[m].kind \in Decision    -> Query \ {"thread"}
    [] call[m].kind = "delete"      -> IF call[m].phase = "done" THEN OnTickets ELSE {}
    [] call[m].kind = "comment"     -> IF call[m].phase = "done"
                                       THEN {"thread", "detail"} ELSE {}

Reloads(m) ==
  CASE call[m].kind = "edit"        -> OnTickets
    [] call[m].kind \in Decision    -> Query
    [] call[m].kind = "delete"      -> IF call[m].phase = "done" THEN OnTickets ELSE {}
    [] call[m].kind = "comment"     -> IF call[m].phase = "done"
                                       THEN {"thread", "detail"} ELSE {}

(* The cache once an edit is answered.                                       *)
Answered(m) ==
  IF call[m].kind # "edit"  THEN cache
  ELSE IF call[m].phase = "done" THEN PatchCached(m, call[m].on)
  ELSE Restored(call[m].snapshot)

Unrestarted(m, c) == {q \in Reloads(m) : fetch[q] # None /\ c[q] = None}

(* The call is answered; one that still counts as sent was refused, or never *)
(* delivered.                                                                *)
Settle(m) ==
  /\ call[m] \notin {None, Over}
  /\ call[m].phase \in {"sent", "done", "lost"}
  /\ LET c == Answered(m)
     IN  /\ Render(view, c,
                   IF call[m].kind # "edit" THEN failed
                   ELSE IF call[m].phase = "done" THEN Unfailed(c, Copies)
                   ELSE Unfailed(call[m].snapshot, OnTickets),
                   Invalidated(Reloads(m), c))
         /\ story' = [story EXCEPT !.left =
                        [q \in Query |-> IF q \in Unrestarted(m, c)
                                         THEN @[q] \cup {m} ELSE @[q]]]
  /\ call' = [call EXCEPT ![m] =
                IF @.here /\ @.kind \in Decision \cup {"comment"} /\ Reloads(m) # {}
                THEN [@ EXCEPT !.phase = "reload"] ELSE Over]
  /\ UNCHANGED <<server, moves>>

(* The button waits for what its call had reloaded.                          *)
Reloaded(m) ==
  /\ call[m] \notin {None, Over}
  /\ call[m].phase = "reload"
  /\ \A q \in (IF call[m].kind = "comment" THEN {"thread", "detail"} ELSE Query) :
        fetch[q] = None
  /\ call' = [call EXCEPT ![m] = Over]
  /\ UNCHANGED <<view, cache, fetch, failed, server, story, moves>>

(* Somebody else, or the agent, changes the ticket.                          *)
Other ==
  /\ server.alive
  /\ Changes < MaxChanges
  /\ server' \in Others
  /\ story' = Told(None, None)
  /\ UNCHANGED <<view, cache, fetch, failed, call, moves>>

Next ==
  \/ \E w \in {"queue", "detail"} : Open(w)
  \/ Refresh
  \/ \E q \in Query : ServeFetch(q) \/ Arrive(q) \/ FailFetch(q)
  \/ \E m \in Call :
       \/ Edit(m)
       \/ Delete(m)
       \/ Comment(m)
       \/ \E kind \in Decision : Decide(m, kind)
       \/ \E lost \in BOOLEAN : Accept(m, lost)
       \/ Settle(m)
       \/ Reloaded(m)
  \/ Other

Spec == Init /\ [][Next]_vars

-----------------------------------------------------------------------------

(* The changes that a copy a query has, x, is older than and is to show.     *)
Missed(h, q, x) ==
  IF x = Absent THEN {}
  ELSE {i \in DOMAIN h.changes : i > x.n /\ q \in h.changes[i].of}

(* What a page at rest may lack: what others did; of its own, a call answered *)
(* while the first fetch of the query was left to run, a comment or deletion  *)
(* whose answer was lost, and an older mark of the agent's that an edit wrote *)
(* back, whose reload leaves the proposal out. Each exempts its own change.   *)
Excused(h, q, i) ==
  LET change == h.changes[i]
  IN  \/ change.by = None
      \/ change.by \in h.left[q]
      \/ change.by \in h.unheard
      \/ q = "proposal" /\ change.kind = "edit"

(* The queue is compared by version: a comment does not reload it.           *)
UpToDate(q) ==
  IF q = "list"
  THEN IF server.alive
       THEN /\ cache[q].shows = {}
            /\ cache[q].version = Version
       ELSE cache[q] = Absent
  ELSE cache[q] = Served(q)

Quiet == /\ \A q \in Query : fetch[q] = None
         /\ \A m \in Call : call[m] \in {None, Over}

(* When no fetch and no call is open, every query the page shows, and says   *)
(* nothing bad of, holds what the server has, but for the changes named in    *)
(* Excused, and no edit that was not answered: no late answer, cancelled      *)
(* fetch, rollback or missing reload leaves another change of the page out,   *)
(* or a refused one in.                                                       *)
QuietShowsServer ==
  Quiet => \A q \in Active \ failed :
             /\ cache[q] # None
             /\ q \in Copies /\ cache[q] # Absent => cache[q].shows = {}
             /\ \A i \in Missed(story, q, cache[q]) : Excused(story, q, i)
             /\ Missed(story, q, cache[q]) = {} => UpToDate(q)

(* An edit the server would accept was made on a ticket whose fields are    *)
(* still the server's: what was shown may lack comments and the agent's     *)
(* proposal, never somebody else's edit.                                    *)
EditSawItsVersion ==
  \A m \in Of({"edit"}) :
     call[m].phase = "sent" /\ AtVersion(m) => server.versions[call[m].on.n] = Version

=============================================================================
