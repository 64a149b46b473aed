----------------------------- MODULE PageProofs -----------------------------
(* Proofs about the two pages of the browser. Of Page: what the page on one  *)
(* ticket holds is never ahead of the server, and what it shows at rest is   *)
(* the server's. At the end, of Queue: the page number in the address        *)
(* belongs to the filters beside it.                                         *)
EXTENDS Page, TicketFilters, TLAPS

(* A copy a query can hold: of the ticket, it has the version the ticket had *)
(* after the change it is a copy of; the queue misses only a ticket that is  *)
(* gone.                                                                     *)
TrueOf(s, q, x) ==
  IF x = Absent THEN ~s.alive
  ELSE /\ x.n <= Len(s.versions)
       /\ q \in Copies => x.n >= 1 /\ s.versions[x.n] = x.version

(* Every copy the page has, on its way or put aside is one the server gave.  *)
CachesTrue(s, c) == \A q \in Query : c[q] # None => TrueOf(s, q, c[q])
FetchesTrue(s, f) == \A q \in Query : f[q] \notin {None, Sent} => TrueOf(s, q, f[q])
CallTrue(s, c) ==
  c.kind = "edit" =>
    /\ TrueOf(s, "detail", c.on)
    /\ c.phase # "done" =>
         \A q \in OnTickets : c.snapshot[q] # None => TrueOf(s, q, c.snapshot[q])
CallsTrue(s, c) == \A m \in Call : c[m] \notin {None, Over} => CallTrue(s, c[m])

CopiesTrue ==
  /\ server.thread <= Changes /\ server.proposal <= Changes
  /\ CachesTrue(server, cache)
  /\ FetchesTrue(server, fetch)
  /\ CallsTrue(server, call)

(* Nothing is fetched for a query that is not shown.                         *)
FetchesAreShown == \A q \in Query \ Active : fetch[q] = None

(* A call is open whose answer has the query fetched again.                  *)
ReloadsOf(c) ==
  IF c.kind = "edit" THEN OnTickets
  ELSE IF c.kind \in Decision THEN Query
  ELSE IF c.phase # "done" THEN {}
  ELSE IF c.kind = "delete" THEN OnTickets
  ELSE {"thread", "detail"}

Reloading(m, q, calls) ==
  /\ m \in Call
  /\ calls[m] \notin {None, Over}
  /\ calls[m].phase # "reload"
  /\ q \in ReloadsOf(calls[m])

WillReload(q, calls) ==
  \E m \in Call : /\ calls[m] \notin {None, Over}
                  /\ calls[m].phase # "reload"
                  /\ q \in ReloadsOf(calls[m])

(* x is the server's answer to the query; the queue's up to its version.     *)
Current(s, q, x) ==
  IF q = "list"
  THEN IF s.alive THEN x.shows = {} /\ x.version = Last(s.versions) ELSE x = Absent
  ELSE IF q = "detail"
  THEN x = [n |-> Len(s.versions), version |-> Last(s.versions), shows |-> {}]
  ELSE IF q = "thread" THEN x = [n |-> s.thread]
  ELSE x = [n |-> s.proposal, run |-> Proposal(s).run, open |-> Proposal(s).open]

(* A copy whose missed changes are all of a kind, and which is the server's  *)
(* if it missed none; nothing of it is an edit that was not answered.         *)
Settled(s, h, q, x) ==
  /\ q \in Copies /\ x # Absent => x.shows = {}
  /\ Current(s, q, x) \/ Missed(h, q, x) # {}

Fresh(s, h, q, x) ==
  /\ x # None
  /\ Settled(s, h, q, x)
  /\ \A i \in Missed(h, q, x) : Excused(h, q, i)

(* An answer on its way misses only changes that are excused, or whose call   *)
(* is still open and to reload the query: a first fetch that the call then leaves to   *)
(* run excuses the change of that call and no other.                          *)
Sound(s, h, calls, q, x) ==
  /\ Settled(s, h, q, x)
  /\ \A i \in Missed(h, q, x) : \/ Excused(h, q, i)
                                \/ Reloading(h.changes[i].by, q, calls)

AnswersSound ==
  \A q \in Query : fetch[q] \notin {None, Sent} => Sound(server, story, call, q, fetch[q])

(* The history has one entry for each change, and dates what was touched.     *)
StoryTrue ==
  /\ Changes <= Len(story.changes)
  /\ server.alive => Len(story.changes) = Changes
  /\ \A i \in DOMAIN story.changes :
       /\ "thread" \in story.changes[i].of => i <= server.thread
       /\ "proposal" \in story.changes[i].of => i <= server.proposal

Coming(f, c, q) == IF f[q] = None THEN c[q] ELSE f[q]

(* Whatever the page shows has failed, or is fetched, or will be once a call *)
(* is answered, or is fresh: no order of answers and cancelled fetches loses *)
(* a reload that the page needs.                                             *)
Tracked(q) == \/ q \in failed /\ fetch[q] = None
              \/ fetch[q] = Sent
              \/ WillReload(q, call)
              \/ Fresh(server, story, q, Coming(fetch, cache, q))

ShownIsTracked == \A q \in Active : Tracked(q)

(* What a step of the server does to the ticket: one change more, the ones   *)
(* before it untouched, and a thread or a proposal that is either as it was  *)
(* or of this change.                                                        *)
Kept(s) == s \in Server /\ s.versions # <<>> /\ Len(s.marks) = Len(s.versions)

Grown(s, t) ==
  /\ t \in Server
  /\ Len(t.versions) = Len(s.versions) + 1
  /\ \A i \in 1..Len(s.versions) : t.versions[i] = s.versions[i]
  /\ t.alive = s.alive
  /\ t.thread \in {s.thread, Len(s.versions) + 1}
  /\ Len(t.marks) = Len(t.versions)
  /\ \/ t.proposal = s.proposal /\ Proposal(t) = Proposal(s)
     \/ t.proposal = Len(s.versions) + 1

-----------------------------------------------------------------------------
(* The server's operators                                                    *)

(* A write appends one version, with the agent's mark as it was, and leaves  *)
(* the rest of the ticket alone.                                             *)
LEMMA VersionedGrows ==
  ASSUME NEW s, Kept(s), NEW bump \in Nat
  PROVE  LET t == Versioned(s, bump)
         IN  /\ Grown(s, t)
             /\ t.thread = s.thread /\ t.proposal = s.proposal
             /\ Proposal(t) = Proposal(s)
             /\ Last(t.versions) = Last(s.versions) + bump
PROOF
<1>1. /\ s.versions \in Seq(Nat) /\ Len(s.versions) \in Nat /\ Len(s.versions) > 0
      /\ s.marks \in Seq(Mark) /\ Len(s.marks) = Len(s.versions) /\ s \in Server
  BY DEF Kept, Server
<1>2. Last(s.versions) \in Nat /\ Last(s.marks) \in Mark
  BY <1>1 DEF Last
<1> DEFINE v == Append(s.versions, Last(s.versions) + bump)
           k == Append(s.marks, Last(s.marks))
<1>3. /\ v \in Seq(Nat)
      /\ Len(v) = Len(s.versions) + 1
      /\ \A i \in 1..Len(s.versions) : v[i] = s.versions[i]
      /\ v[Len(v)] = Last(s.versions) + bump
  BY <1>1, <1>2
<1>4. k \in Seq(Mark) /\ Len(k) = Len(s.marks) + 1 /\ k[Len(k)] = Last(s.marks)
  BY <1>1, <1>2
<1> HIDE DEF v, k
<1>5. Versioned(s, bump) = [s EXCEPT !.versions = v, !.marks = k]
  BY DEF Versioned, v, k
<1> DEFINE t == [s EXCEPT !.versions = v, !.marks = k]
<1>6. t \in Server
  BY <1>1, <1>3, <1>4 DEF Server
<1>7. /\ t.versions = v /\ t.marks = k /\ t.thread = s.thread
      /\ t.proposal = s.proposal /\ t.alive = s.alive
  BY <1>1 DEF Server
<1> HIDE DEF t
<1>8. Proposal(t) = Proposal(s) /\ Last(t.versions) = Last(s.versions) + bump
  BY <1>3, <1>4, <1>7 DEF Last, Proposal
<1>9. Grown(s, t)
  BY <1>1, <1>3, <1>4, <1>6, <1>7, <1>8 DEF Grown
<1>10. QED
  BY <1>5, <1>7, <1>8, <1>9 DEF t

(* A comment, and a mark of the agent's, belong to the change just made, and *)
(* touch nothing else.                                                       *)
LEMMA CommentedGrows ==
  ASSUME NEW s, Kept(s), NEW t, Grown(s, t)
  PROVE  LET u == Commented(t)
         IN  /\ Grown(s, u) /\ u.versions = t.versions
             /\ u.proposal = t.proposal /\ Proposal(u) = Proposal(t)
PROOF
<1> DEFINE u == Commented(t)
<1>1. t \in Server /\ Len(t.versions) \in Nat /\ Len(t.versions) = Len(s.versions) + 1
  BY DEF Grown, Server
<1>2. u \in Server
  BY <1>1 DEF Commented, Server
<1>3. /\ u.versions = t.versions /\ u.marks = t.marks /\ u.proposal = t.proposal
      /\ u.alive = t.alive /\ u.thread = Len(t.versions)
  BY <1>1 DEF Commented, Server
<1> HIDE DEF u
<1>4. Proposal(u) = Proposal(t)
  BY <1>3 DEF Proposal
<1>5. Grown(s, u)
  BY <1>1, <1>2, <1>3, <1>4 DEF Grown
<1>6. QED
  BY <1>3, <1>4, <1>5 DEF u

LEMMA MarkedGrows ==
  ASSUME NEW s, Kept(s), NEW t, Grown(s, t), NEW mark \in Mark
  PROVE  LET u == Marked(t, mark)
         IN  Grown(s, u) /\ u.versions = t.versions /\ u.thread = t.thread
PROOF
<1> DEFINE k == [t.marks EXCEPT ![Len(t.versions)] = mark]
           u == [t EXCEPT !.proposal = Len(t.versions), !.marks = k]
<1>1. /\ t \in Server /\ Len(t.versions) \in Nat /\ Len(t.versions) = Len(s.versions) + 1
      /\ t.marks \in Seq(Mark) /\ Len(t.marks) = Len(t.versions)
  BY DEF Grown, Server
<1>2. k \in Seq(Mark) /\ Len(k) = Len(t.marks)
  BY <1>1
<1>3. Marked(t, mark) = u
  BY DEF Marked
<1> HIDE DEF k
<1>4. u \in Server
  BY <1>1, <1>2 DEF Server
<1>5. /\ u.versions = t.versions /\ u.marks = k /\ u.proposal = Len(t.versions)
      /\ u.alive = t.alive /\ u.thread = t.thread
  BY <1>1 DEF Server
<1> HIDE DEF u
<1>6. Grown(s, u)
  BY <1>1, <1>2, <1>4, <1>5 DEF Grown
<1>7. QED
  BY <1>3, <1>5, <1>6

(* The marks an edit may have read are marks.                               *)
LEMMA MarksReadAreMarks ==
  ASSUME NEW s, Kept(s), NEW since
  PROVE  MarksRead(s, since) \subseteq Mark
PROOF
<1>1. s.marks \in Seq(Mark) /\ Len(s.marks) = Len(s.versions)
  BY DEF Kept, Server
<1>2. \A i \in 1..Len(s.versions) : s.marks[i] \in Mark
  BY <1>1
<1>3. QED
  BY <1>2 DEF MarksRead

(* Every write on the server is one change more.                             *)
LEMMA EveryWriteGrows ==
  ASSUME NEW s, Kept(s)
  PROVE  /\ \A mark \in Mark : Grown(s, Edited(s, mark)) /\ Edited(s, mark).thread = s.thread
         /\ Grown(s, Replied(s)) /\ Grown(s, Drafted(s)) /\ Grown(s, Rejected(s))
         /\ \A b \in {0, 1} : Grown(s, Approved(s, b))
         /\ Replied(s).proposal = s.proposal
         /\ Last(Replied(s).versions) = Last(s.versions)
PROOF
<1>1. /\ s.versions \in Seq(Nat) /\ Len(s.versions) \in Nat /\ Len(s.versions) > 0
      /\ s.marks \in Seq(Mark)
  BY DEF Kept, Server
<1>2. ASSUME NEW t, Grown(s, t)
      PROVE  /\ Grown(s, Decided(t)) /\ Grown(s, Proposed(t)) /\ Decided(t).versions = t.versions
  <2>1. t.marks \in Seq(Mark) /\ Len(t.marks) > 0 /\ Len(t.versions) \in Nat
    BY <1>1, <1>2 DEF Grown, Server
  <2>2. Proposal(t) \in Mark
    BY <2>1 DEF Proposal, Last
  <2>3. /\ [run |-> Proposal(t).run, open |-> FALSE] \in Mark
        /\ [run |-> Len(t.versions), open |-> TRUE] \in Mark
    BY <2>1, <2>2 DEF Mark
  <2>4. QED
    BY <1>2, <2>3, MarkedGrows DEF Decided, Proposed
<1>3. ASSUME NEW b \in {0, 1}
      PROVE  /\ Grown(s, Versioned(s, b)) /\ Versioned(s, b).thread = s.thread
             /\ Versioned(s, b).proposal = s.proposal
             /\ Last(Versioned(s, b).versions) = Last(s.versions) + b
  BY VersionedGrows
<1>4. ASSUME NEW mark \in Mark
      PROVE  Grown(s, Edited(s, mark)) /\ Edited(s, mark).thread = s.thread
  BY <1>3, MarkedGrows DEF Edited
<1>5. /\ Grown(s, Replied(s)) /\ Replied(s).proposal = s.proposal
      /\ Last(Replied(s).versions) = Last(s.versions)
  <2>1. Last(s.versions) \in Nat
    BY <1>1 DEF Last
  <2>2. Replied(s).versions = Versioned(s, 0).versions
    BY <1>3, CommentedGrows DEF Replied
  <2>3. QED
    BY <1>3, <2>1, <2>2, CommentedGrows DEF Replied
<1>6. Grown(s, Drafted(s)) /\ Grown(s, Rejected(s))
  BY <1>2, <1>3 DEF Drafted, Rejected
<1>7. ASSUME NEW b \in {0, 1}
      PROVE  Grown(s, Approved(s, b))
  <2>1. PICK t : t = Decided(Versioned(s, b)) /\ Grown(s, t)
    BY <1>2, <1>3
  <2>2. Grown(s, Commented(t))
    BY <2>1, CommentedGrows
  <2>3. QED
    BY <2>1, <2>2 DEF Approved
<1>8. QED
  BY <1>4, <1>5, <1>6, <1>7

-----------------------------------------------------------------------------
(* Types                                                                     *)

(* What the queries are answered with are data the cache can hold, and what  *)
(* the server answers is such an answer.                                     *)
LEMMA AnswersAreData ==
  /\ \A q \in Query : Answer(q) \subseteq Datum
  /\ Answer("list") = TicketCopy \cup {Absent} /\ Answer("detail") = TicketCopy
  /\ Answer("thread") = ThreadCopy /\ Answer("proposal") = ProposalCopy
PROOF
<1>1. /\ Answer("list") = TicketCopy \cup {Absent} /\ Answer("detail") = TicketCopy
      /\ Answer("thread") = ThreadCopy /\ Answer("proposal") = ProposalCopy
  BY DEF Answer
<1>2. QED
  BY <1>1 DEF Query, Datum

(* What the server reads for a query is an answer to it.                    *)
LEMMA ServedTyped ==
  ASSUME TypeOK, NEW q \in Query
  PROVE  Served(q) \in Answer(q)
PROOF
<1>1. /\ server.versions \in Seq(Nat) /\ server.versions # <<>>
      /\ Changes \in Nat /\ Changes > 0 /\ Version \in Nat
      /\ server.thread \in Nat /\ server.proposal \in Nat
      /\ server.marks \in Seq(Mark) /\ Len(server.marks) > 0
  BY DEF TypeOK, Server, Changes, Version, Last
<1>2. Ticket \in TicketCopy
  BY <1>1 DEF Ticket, TicketCopy
<1>3. [n |-> server.thread] \in ThreadCopy
  BY <1>1 DEF ThreadCopy
<1>4. [n |-> server.proposal, run |-> Proposal(server).run, open |-> Proposal(server).open]
        \in ProposalCopy
  <2>1. Proposal(server) \in Mark
    BY <1>1 DEF Proposal, Last
  <2>2. QED
    BY <1>1, <2>1 DEF ProposalCopy, Mark
<1>5. CASE q = "list"
  BY <1>2, <1>5, AnswersAreData DEF Served
<1>6. CASE q = "detail"
  BY <1>2, <1>6, AnswersAreData DEF Served
<1>7. CASE q = "thread"
  BY <1>3, <1>7, AnswersAreData DEF Served
<1>8. CASE q = "proposal"
  BY <1>4, <1>8, AnswersAreData DEF Served
<1>9. QED
  BY <1>5, <1>6, <1>7, <1>8 DEF Query

(* Rendering keeps the types of what it renders, and of each query's fetch   *)
(* leaves the one it is given, drops it, or starts one.                      *)
LEMMA RenderTyped ==
  ASSUME NEW w \in {"queue", "detail"}, NEW c, Caches(c), NEW f \in SUBSET Query,
         NEW flight, Fetches(flight), Render(w, c, f, flight)
  PROVE  /\ view' = w /\ cache' = c /\ failed' = f
         /\ view' \in {"queue", "detail"} /\ Caches(cache') /\ failed' \subseteq Query
         /\ Fetches(fetch')
PROOF
<1>1. view' = w /\ cache' = c /\ failed' = f
  BY DEF Render
<1>2. /\ DOMAIN fetch' = Query
      /\ \A q \in Query : fetch'[q] \in {None, Sent, flight[q]}
  BY DEF Render
<1>3. fetch' = [q \in Query |-> fetch'[q]]
  BY DEF Render
<1>4. \A q \in Query : /\ fetch'[q] \in Answer(q) \cup {None, Sent}
                       /\ fetch'[q] \in Datum \cup {Sent}
  BY <1>2, AnswersAreData DEF Fetches, Datum
<1>5. QED
  BY <1>1, <1>3, <1>4 DEF Fetches

(* A query set to nothing, or to Sent, or to an answer of its own, is typed. *)
LEMMA FetchSet ==
  ASSUME NEW f, Fetches(f), NEW q \in Query, NEW x \in Answer(q) \cup {None, Sent}
  PROVE  Fetches([f EXCEPT ![q] = x])
PROOF
<1>1. x \in Datum \cup {Sent}
  BY AnswersAreData DEF Datum
<1>2. QED
  BY <1>1 DEF Fetches

(* An invalidation only starts fetches.                                     *)
LEMMA InvalidatedTyped ==
  ASSUME TypeOK, NEW qs, NEW c
  PROVE  Fetches(Invalidated(qs, c))
PROOF
<1>1. /\ Invalidated(qs, c) = [q \in Query |-> Invalidated(qs, c)[q]]
      /\ \A q \in Query : Invalidated(qs, c)[q] \in {Sent, fetch[q]}
  BY DEF Invalidated
<1>2. \A q \in Query : /\ Invalidated(qs, c)[q] \in Answer(q) \cup {None, Sent}
                       /\ Invalidated(qs, c)[q] \in Datum \cup {Sent}
  BY <1>1 DEF TypeOK, Fetches
<1>3. QED
  BY <1>1, <1>2 DEF Fetches

(* An edit is patched into copies of the ticket, and only into those.        *)
LEMMA PatchTyped ==
  ASSUME TypeOK, NEW m \in Call, NEW answer \in TicketCopy \cup {None}
  PROVE  /\ Caches(PatchCached(m, answer))
         /\ \A q \in Query :
              IF ~Holds(cache, q) THEN PatchCached(m, answer)[q] = cache[q]
              ELSE IF answer # None THEN PatchCached(m, answer)[q] = answer
              ELSE /\ cache[q] \in TicketCopy
                   /\ PatchCached(m, answer)[q].n = cache[q].n
                   /\ PatchCached(m, answer)[q].version = cache[q].version
                   /\ PatchCached(m, answer)[q] \in TicketCopy
PROOF
<1> DEFINE p == PatchCached(m, answer)
<1>1. p = [q \in Query |-> p[q]]
  BY DEF PatchCached
<1>2. \A q \in Query : p[q] = IF ~Holds(cache, q) THEN cache[q]
                              ELSE IF answer # None THEN answer
                              ELSE [cache[q] EXCEPT !.shows = @ \cup {m}]
  BY DEF PatchCached
<1> HIDE DEF p
<1>3. \A q \in Query : Holds(cache, q) => cache[q] \in TicketCopy /\ q \in Copies
  BY AnswersAreData DEF Holds, Copies, TypeOK, Caches
<1>4. ASSUME NEW t \in TicketCopy
      PROVE  LET u == [t EXCEPT !.shows = @ \cup {m}]
             IN  u \in TicketCopy /\ u.n = t.n /\ u.version = t.version
  BY DEF TicketCopy
<1>5. \A q \in Query :
        IF ~Holds(cache, q) THEN p[q] = cache[q]
        ELSE IF answer # None THEN p[q] = answer
        ELSE /\ cache[q] \in TicketCopy
             /\ p[q].n = cache[q].n /\ p[q].version = cache[q].version
             /\ p[q] \in TicketCopy
  BY <1>2, <1>3, <1>4
<1>6. \A q \in Copies : TicketCopy \subseteq Answer(q)
  BY AnswersAreData DEF Copies
<1>7. \A q \in Query : p[q] \in Answer(q) \cup {None}
  BY <1>3, <1>5, <1>6 DEF TypeOK, Caches
<1>8. \A q \in Query : p[q] \in Datum
  BY <1>7, AnswersAreData DEF Datum
<1>9. Caches(p)
  BY <1>1, <1>7, <1>8 DEF Caches
<1>10. QED
  BY <1>5, <1>9 DEF p

(* What a refused edit put aside replaces what is shown, type for type.      *)
LEMMA RestoredTyped ==
  ASSUME TypeOK, NEW snapshot, \A q \in OnTickets : snapshot[q] \in Answer(q) \cup {None}
  PROVE  /\ Caches(Restored(snapshot))
         /\ \A q \in Query : \/ Restored(snapshot)[q] = cache[q]
                             \/ /\ q \in OnTickets /\ snapshot[q] # None
                                /\ Restored(snapshot)[q] = snapshot[q]
PROOF
<1> DEFINE r == Restored(snapshot)
<1>1. r = [q \in Query |-> r[q]]
  BY DEF Restored
<1>2. \A q \in Query : \/ r[q] = cache[q]
                       \/ q \in OnTickets /\ snapshot[q] # None /\ r[q] = snapshot[q]
  BY DEF Restored
<1> HIDE DEF r
<1>3. \A q \in Query : r[q] \in Answer(q) \cup {None}
  BY <1>2 DEF TypeOK, Caches
<1>4. \A q \in Query : r[q] \in Datum
  BY <1>3, AnswersAreData DEF Datum
<1>5. QED
  BY <1>1, <1>2, <1>3, <1>4 DEF Caches, r

(* A call that was made is neither None nor Over.                            *)
LEMMA AskedIsCall ==
  ASSUME NEW c, Asked(c)
  PROVE  /\ c \notin {None, Over}
         /\ c.kind \in Kind /\ c.phase \in Phase /\ c.here \in BOOLEAN
PROOF
<1>1. c \in [kind : Kind, on : {c.on}, snapshot : {c.snapshot}, since : Nat,
              phase : Phase, here : BOOLEAN]
  BY DEF Asked
<1>2. c.kind \in Kind /\ c.phase \in Phase /\ c.here \in BOOLEAN
  BY <1>1
<1>3. c.on \in TicketCopy \cup {None}
  BY <1>2 DEF Asked, Kind
<1>4. c.snapshot \in [OnTickets -> Datum] \cup {None}
  BY DEF Asked
<1>5. c \in Request
  BY <1>1, <1>3, <1>4 DEF Request
<1>6. QED
  BY <1>2, <1>5, PageAssumption

(* A call that was made and is not over carries what its kind carries.      *)
LEMMA CallsAsked ==
  ASSUME TypeOK, NEW m \in Call, call[m] \notin {None, Over}
  PROVE  Asked(call[m])
  BY DEF TypeOK

(* The same call, as far as the server and the cache are concerned.          *)
SameCall(c, d) ==
  /\ d.kind = c.kind /\ d.on = c.on /\ d.snapshot = c.snapshot
  /\ d.since = c.since /\ d.phase = c.phase

(* A call whose component went away is the same call, no longer heard       *)
(* there.                                                                   *)
LEMMA LeftCall ==
  ASSUME NEW c, Asked(c)
  PROVE  Asked([c EXCEPT !.here = FALSE]) /\ SameCall(c, [c EXCEPT !.here = FALSE])
PROOF
<1> DEFINE d == [c EXCEPT !.here = FALSE]
<1>1. c \in [kind : Kind, on : {c.on}, snapshot : {c.snapshot}, since : Nat,
              phase : Phase, here : BOOLEAN]
  BY DEF Asked
<1>2. d \in [kind : Kind, on : {c.on}, snapshot : {c.snapshot}, since : Nat,
              phase : Phase, here : BOOLEAN]
  BY <1>1
<1>3. SameCall(c, d)
  BY <1>1 DEF SameCall
<1> HIDE DEF d
<1>4. Asked(d)
  BY <1>2, <1>3 DEF Asked, SameCall
<1>5. QED
  BY <1>3, <1>4 DEF d

(* A view that is left abandons the calls that were waiting for a reload,    *)
(* and changes nothing else of the others.                                   *)
LEMMA UnmountedCalls ==
  ASSUME TypeOK, NEW kinds
  PROVE  /\ DOMAIN Unmounted(kinds) = Call
         /\ \A m \in Call :
              LET d == Unmounted(kinds)[m]
              IN  \/ d = call[m]
                  \/ Asked(call[m]) /\ call[m].phase = "reload" /\ d = Over
                  \/ Asked(call[m]) /\ Asked(d) /\ SameCall(call[m], d)
PROOF
<1>1. DOMAIN Unmounted(kinds) = Call
  BY DEF Unmounted
<1>2. \A m \in Call :
        Unmounted(kinds)[m] = IF m \notin Of(kinds) THEN call[m]
                              ELSE IF call[m].phase = "reload" THEN Over
                              ELSE [call[m] EXCEPT !.here = FALSE]
  BY DEF Unmounted
<1>3. \A m \in Of(kinds) : m \in Call /\ Asked(call[m])
  BY CallsAsked DEF Of
<1>4. \A m \in Of(kinds) : /\ Asked([call[m] EXCEPT !.here = FALSE])
                           /\ SameCall(call[m], [call[m] EXCEPT !.here = FALSE])
  BY <1>3, LeftCall
<1>5. QED
  BY <1>1, <1>2, <1>3, <1>4

(* The answer of an edit: the copy it was given, or what it had put aside.   *)
LEMMA AnsweredTyped ==
  ASSUME TypeOK, NEW m \in Call, Asked(call[m]), call[m].phase # "reload"
  PROVE  Caches(Answered(m))
PROOF
<1>1. CASE call[m].kind # "edit"
  BY <1>1 DEF Answered, TypeOK
<1>2. CASE call[m].kind = "edit" /\ call[m].phase = "done"
  <2>1. call[m].on \in TicketCopy
    BY <1>2 DEF Asked
  <2>2. Answered(m) = PatchCached(m, call[m].on)
    BY <1>2 DEF Answered
  <2>3. QED
    BY <2>1, <2>2, PatchTyped
<1>3. CASE call[m].kind = "edit" /\ call[m].phase # "done"
  <2>1. \A q \in OnTickets : call[m].snapshot[q] \in Answer(q) \cup {None}
    BY <1>3 DEF Asked
  <2>2. Answered(m) = Restored(call[m].snapshot)
    BY <1>3 DEF Answered
  <2>3. QED
    BY <2>1, <2>2, RestoredTyped
<1>4. QED
  BY <1>1, <1>2, <1>3

(* A call as it is made, and how a call that is under way goes on.           *)
LEMMA MadeCall ==
  ASSUME NEW kind \in Kind, NEW on, NEW snapshot, NEW since \in Nat,
         IF kind = "edit" THEN on \in TicketCopy ELSE on = None,
         IF kind = "edit"
         THEN /\ snapshot \in [OnTickets -> Datum]
              /\ \A q \in OnTickets : snapshot[q] \in Answer(q) \cup {None}
         ELSE snapshot = None
  PROVE  LET d == [kind |-> kind, on |-> on, snapshot |-> snapshot, since |-> since,
                   phase |-> "sent", here |-> TRUE]
         IN  /\ Asked(d)
             /\ d.kind = kind /\ d.on = on /\ d.snapshot = snapshot /\ d.phase = "sent"
PROOF
<1> DEFINE d == [kind |-> kind, on |-> on, snapshot |-> snapshot, since |-> since,
                 phase |-> "sent", here |-> TRUE]
<1>1. /\ d.kind = kind /\ d.on = on /\ d.snapshot = snapshot /\ d.phase = "sent"
      /\ d.here = TRUE
  OBVIOUS
<1>2. d \in [kind : Kind, on : {d.on}, snapshot : {d.snapshot}, since : Nat,
             phase : Phase, here : BOOLEAN]
  BY DEF Phase
<1> HIDE DEF d
<1>3. Asked(d)
  BY <1>1, <1>2 DEF Asked
<1>4. QED
  BY <1>1, <1>3 DEF d

AcceptedAs(c, lost, ticket) ==
  [c EXCEPT !.phase = IF lost THEN "lost" ELSE "done",
            !.snapshot = IF lost THEN @ ELSE None,
            !.on = IF c.kind = "edit" THEN ticket ELSE @]

(* What the server's answer makes of a call: done with nothing to put back, *)
(* or lost with it.                                                         *)
LEMMA AcceptedCall ==
  ASSUME NEW c, Asked(c), c.phase = "sent", NEW lost \in BOOLEAN, NEW ticket \in TicketCopy
  PROVE  /\ Asked(AcceptedAs(c, lost, ticket))
         /\ AcceptedAs(c, lost, ticket).kind = c.kind
         /\ AcceptedAs(c, lost, ticket).phase = (IF lost THEN "lost" ELSE "done")
         /\ AcceptedAs(c, lost, ticket).snapshot = (IF lost THEN c.snapshot ELSE None)
         /\ AcceptedAs(c, lost, ticket).on = (IF c.kind = "edit" THEN ticket ELSE c.on)
PROOF
<1> DEFINE p == IF lost THEN "lost" ELSE "done"
           s == IF lost THEN c.snapshot ELSE None
           o == IF c.kind = "edit" THEN ticket ELSE c.on
<1>1. c \in [kind : Kind, on : {c.on}, snapshot : {c.snapshot}, since : Nat,
              phase : Phase, here : BOOLEAN]
  BY DEF Asked
<1>2. p \in Phase /\ p # "reload" /\ p # "sent" /\ (p = "done" <=> ~lost)
  BY DEF Phase
<1>3. c.kind # "edit" => c.snapshot = None
  BY DEF Asked
<1> DEFINE d == [c EXCEPT !.phase = p, !.snapshot = s, !.on = o]
<1> HIDE DEF p
<1>4. /\ d.phase = p /\ d.snapshot = s /\ d.on = o /\ d.kind = c.kind
      /\ d \in [kind : Kind, on : {o}, snapshot : {s}, since : Nat, phase : Phase,
                here : BOOLEAN]
  BY <1>1, <1>2
<1> HIDE DEF d
<1>5. Asked(d)
  BY <1>2, <1>3, <1>4 DEF Asked
<1>6. d = AcceptedAs(c, lost, ticket)
  BY DEF d, p, AcceptedAs
<1>7. QED
  BY <1>4, <1>5, <1>6 DEF p

(* A call that is no edit goes on to its reload.                            *)
LEMMA AnsweredCall ==
  ASSUME NEW c, Asked(c), c.kind # "edit"
  PROVE  LET d == [c EXCEPT !.phase = "reload"]
         IN  Asked(d) /\ d.kind = c.kind /\ d.phase = "reload"
PROOF
<1> DEFINE d == [c EXCEPT !.phase = "reload"]
<1>1. c \in [kind : Kind, on : {c.on}, snapshot : {c.snapshot}, since : Nat,
              phase : Phase, here : BOOLEAN]
  BY DEF Asked
<1>2. /\ d.phase = "reload" /\ d.kind = c.kind /\ d.on = c.on /\ d.snapshot = c.snapshot
      /\ d \in [kind : Kind, on : {c.on}, snapshot : {c.snapshot}, since : Nat, phase : Phase,
                here : BOOLEAN]
  BY <1>1 DEF Phase
<1> HIDE DEF d
<1>3. Asked(d)
  BY <1>2 DEF Asked
<1>4. QED
  BY <1>2, <1>3 DEF d

(* What a call the server accepts, or somebody else, makes of the ticket: a  *)
(* write, or its removal.                                                    *)
LEMMA OutcomesGrow ==
  ASSUME TypeOK, NEW m \in Call, Asked(call[m]), NEW t \in Outcomes(m)
  PROVE  \/ Grown(server, t) /\ call[m].kind # "delete"
         \/ /\ call[m].kind = "delete" /\ t = [server EXCEPT !.alive = FALSE]
            /\ t \in Server /\ t.versions = server.versions
            /\ t.thread = server.thread /\ t.proposal = server.proposal
            /\ t.marks = server.marks /\ ~t.alive
PROOF
<1>1. call[m].kind \in Kind
  BY AskedIsCall
<1>2. Kept(server)
  BY DEF TypeOK, Kept
<1>3. /\ \A mark \in Mark : Grown(server, Edited(server, mark))
      /\ Grown(server, Replied(server))
      /\ Grown(server, Rejected(server))
      /\ \A b \in {0, 1} : Grown(server, Approved(server, b))
  BY <1>2, EveryWriteGrows
<1>4. CASE call[m].kind = "edit"
  <2>1. PICK mark \in MarksRead(server, call[m].since) : t = Edited(server, mark)
    BY <1>4 DEF Outcomes
  <2>2. QED
    BY <1>2, <1>3, <1>4, <2>1, MarksReadAreMarks
<1>5. CASE call[m].kind = "delete"
  <2> DEFINE gone == [server EXCEPT !.alive = FALSE]
  <2>1. t = gone
    BY <1>5 DEF Outcomes
  <2>2. /\ gone \in Server /\ gone.versions = server.versions
        /\ gone.thread = server.thread /\ gone.proposal = server.proposal
        /\ gone.marks = server.marks /\ ~gone.alive
    BY <1>2 DEF Kept, Server
  <2>3. QED
    BY <1>5, <2>1, <2>2
<1>6. CASE call[m].kind = "comment"
  BY <1>3, <1>6 DEF Outcomes
<1>7. CASE call[m].kind = "reject"
  BY <1>3, <1>7 DEF Outcomes
<1>8. CASE call[m].kind = "approve"
  BY <1>3, <1>8 DEF Outcomes
<1>9. QED
  BY <1>1, <1>4, <1>5, <1>6, <1>7, <1>8 DEF Kind

(* What others do to the ticket makes one more state of it, or removes it.  *)
LEMMA OthersGrow ==
  ASSUME TypeOK, NEW t \in Others
  PROVE  Grown(server, t)
PROOF
<1>1. Kept(server)
  BY DEF TypeOK, Kept
<1>2. QED
  BY <1>1, EveryWriteGrows, MarksReadAreMarks DEF Others

(* What the server gives an edit it accepts.                                 *)
LEMMA TicketTyped ==
  ASSUME TypeOK
  PROVE  /\ Ticket \in TicketCopy /\ Ticket.n = Changes /\ Ticket.version = Version
         /\ Ticket.shows = {}
         /\ Changes \in Nat /\ Changes >= 1 /\ Version \in Nat
         /\ Version = server.versions[Changes]
PROOF
<1>1. /\ server.versions \in Seq(Nat) /\ server.versions # <<>>
      /\ Changes \in Nat /\ Changes >= 1 /\ Version \in Nat
      /\ Version = server.versions[Changes]
  BY DEF TypeOK, Server, Changes, Version, Last
<1>2. QED
  BY <1>1 DEF Ticket, TicketCopy

(* A ticket one change later is one the page can be given.                   *)
LEMMA GrownTyped ==
  ASSUME NEW s, Kept(s), NEW t, Grown(s, t)
  PROVE  /\ Kept(t) /\ Len(t.versions) \in Nat
         /\ Last(t.versions) \in Nat
         /\ [n |-> Len(t.versions), version |-> Last(t.versions), shows |-> {}] \in TicketCopy
PROOF
<1>1. /\ t \in Server /\ t.versions \in Seq(Nat) /\ s.versions \in Seq(Nat)
      /\ Len(t.versions) = Len(s.versions) + 1 /\ Len(s.versions) \in Nat
      /\ Len(t.marks) = Len(t.versions)
  BY DEF Grown, Kept, Server
<1>2. Len(t.versions) > 0 /\ t.versions # <<>>
  BY <1>1
<1>3. Last(t.versions) \in Nat
  BY <1>1, <1>2 DEF Last
<1>4. QED
  BY <1>1, <1>2, <1>3 DEF TicketCopy, Kept

(* The history as a change leaves it.                                        *)
LEMMA StoryGrows ==
  ASSUME NEW h \in Story, NEW c \in Change, NEW g, g = [h EXCEPT !.changes = Append(@, c)]
  PROVE  /\ g \in Story /\ g.changes = Append(h.changes, c)
         /\ g.left = h.left /\ g.unheard = h.unheard
PROOF
<1>1. /\ h = [changes |-> h.changes, left |-> h.left, unheard |-> h.unheard]
      /\ h.changes \in Seq(Change) /\ h.left \in [Query -> SUBSET Call]
      /\ h.unheard \in SUBSET Call
  BY DEF Story
<1>2. Append(h.changes, c) \in Seq(Change)
  BY <1>1
<1>3. PICK a : a = Append(h.changes, c)
  OBVIOUS
<1>4. g = [changes |-> a, left |-> h.left, unheard |-> h.unheard]
  BY <1>1, <1>3
<1>5. g \in Story
  BY <1>1, <1>2, <1>3, <1>4 DEF Story
<1>6. QED
  BY <1>3, <1>4, <1>5

LEMMA ToldGrows ==
  ASSUME TypeOK, NEW by \in Call \cup {None}, NEW kind \in Kind \cup {None}, NEW c,
         c = [by |-> by, kind |-> kind, of |-> Touched(server, server')]
  PROVE  /\ c \in Change /\ Told(by, kind) \in Story
         /\ Told(by, kind).changes = Append(story.changes, c)
         /\ Told(by, kind).left = story.left /\ Told(by, kind).unheard = story.unheard
PROOF
<1>1. story \in Story
  BY DEF TypeOK
<1>2. c \in Change
  BY DEF Change, Touched
<1>3. PICK g : g = [story EXCEPT !.changes = Append(@, c)]
  OBVIOUS
<1>4. Told(by, kind) = g
  BY <1>3 DEF Told
<1>5. QED
  BY <1>1, <1>2, <1>3, <1>4, StoryGrows

(* The history as an accepted call leaves it, and as what others do leaves it. *)
LEMMA AcceptStory ==
  ASSUME TypeOK, NEW m \in Call, NEW lost \in BOOLEAN, Accept(m, lost), call[m].kind \in Kind,
         NEW c, c = [by |-> m, kind |-> call[m].kind, of |-> Touched(server, server')],
         NEW u, u = IF lost /\ call[m].kind \in {"comment", "delete"}
                    THEN story.unheard \cup {m} ELSE story.unheard
  PROVE  /\ story' \in Story /\ story'.changes = Append(story.changes, c)
         /\ story'.left = story.left /\ story'.unheard = u
PROOF
<1>1. u \in SUBSET Call
  BY DEF TypeOK, Story
<1>2. PICK g : g = Told(m, call[m].kind)
  OBVIOUS
<1>3. /\ g \in Story /\ g.changes = Append(story.changes, c)
      /\ g.left = story.left /\ g.unheard = story.unheard
  BY <1>2, ToldGrows
<1>4. story' = [g EXCEPT !.unheard = u]
  BY <1>2, <1>3 DEF Accept
<1>5. PICK h : h = [g EXCEPT !.unheard = u]
  OBVIOUS
<1>6. /\ h \in Story /\ h.changes = g.changes /\ h.left = g.left /\ h.unheard = u
  <2>1. /\ g = [changes |-> g.changes, left |-> g.left, unheard |-> g.unheard]
        /\ g.changes \in Seq(Change) /\ g.left \in [Query -> SUBSET Call]
    BY <1>3 DEF Story
  <2>2. h = [changes |-> g.changes, left |-> g.left, unheard |-> u]
    BY <1>5, <2>1
  <2>3. h \in Story
    BY <1>1, <2>1, <2>2 DEF Story
  <2>4. QED
    BY <2>2, <2>3
<1>7. story' = h
  BY <1>4, <1>5
<1>8. QED
  BY <1>3, <1>6, <1>7

LEMMA OtherStory ==
  ASSUME TypeOK, Other,
         NEW c, c = [by |-> None, kind |-> None, of |-> Touched(server, server')]
  PROVE  /\ story' \in Story /\ story'.changes = Append(story.changes, c)
         /\ story'.left = story.left /\ story'.unheard = story.unheard
PROOF
<1>1. story' = Told(None, None)
  BY DEF Other
<1>2. QED
  BY <1>1, ToldGrows

-----------------------------------------------------------------------------

(* The types hold at first.                                                 *)
LEMMA TypesAtFirst == Init => TypeOK
PROOF
<1> SUFFICES ASSUME Init PROVE TypeOK
  OBVIOUS
<1>1. Caches(cache)
  BY DEF Init, Caches, Datum
<1>2. Fetches(fetch)
  BY DEF Init, Fetches, Datum
<1>3. server \in Server /\ server.versions # <<>> /\ Len(server.marks) = Len(server.versions)
  <2>1. <<0>> \in Seq(Nat) /\ <<0>> # <<>> /\ Len(<<0>>) = 1
    OBVIOUS
  <2>2. [run |-> 1, open |-> TRUE] \in Mark
    BY DEF Mark
  <2>3. <<[run |-> 1, open |-> TRUE]>> \in Seq(Mark) /\ Len(<<[run |-> 1, open |-> TRUE]>>) = 1
    BY <2>2
  <2>4. QED
    BY <2>1, <2>3 DEF Init, Server
<1>4. story \in Story
  <2>1. [by |-> None, kind |-> None, of |-> Query] \in Change
    BY DEF Change
  <2>2. <<[by |-> None, kind |-> None, of |-> Query]>> \in Seq(Change)
    BY <2>1
  <2>3. QED
    BY <2>2 DEF Init, Story
<1>5. QED
  BY <1>1, <1>2, <1>3, <1>4 DEF Init, TypeOK

(* Every step keeps the types.                                              *)
LEMMA TypesKept == TypeOK /\ [Next]_vars => TypeOK'
PROOF
<1> SUFFICES ASSUME TypeOK, [Next]_vars PROVE TypeOK'
  OBVIOUS
<1> DEFINE CallsOK(c) == /\ DOMAIN c = Call
                         /\ \A m \in Call : c[m] \in {None, Over} \/ Asked(c[m])
           Page(v, c, f, g) == /\ v \in {"queue", "detail"} /\ Caches(c) /\ g \subseteq Query
                               /\ Fetches(f)
           ServerOK(s) == Kept(s)
<1>0. /\ CallsOK(call) /\ Page(view, cache, fetch, failed) /\ ServerOK(server)
      /\ story \in Story /\ moves \in Nat
  BY DEF TypeOK, Kept
<1>a. SUFFICES /\ CallsOK(call') /\ Page(view', cache', fetch', failed') /\ ServerOK(server')
               /\ story' \in Story /\ moves' \in Nat
  BY DEF TypeOK, Kept
<1>b. \A kinds : CallsOK(Unmounted(kinds))
  BY UnmountedCalls, <1>0
<1>c. ASSUME NEW w, NEW c, NEW f, NEW flight, Page(w, c, flight, f), Render(w, c, f, flight)
      PROVE  Page(view', cache', fetch', failed')
  BY <1>c, RenderTyped
<1>d. Changes \in Nat
  BY TicketTyped
<1>1. ASSUME NEW w \in {"queue", "detail"}, Open(w)
      PROVE  /\ CallsOK(call') /\ Page(view', cache', fetch', failed') /\ ServerOK(server')
             /\ story' \in Story /\ moves' \in Nat
  <2>1. CallsOK(call')
    BY <1>1, <1>b DEF Open
  <2>2. Page(w, cache, fetch, failed) /\ Render(w, cache, failed, fetch)
    BY <1>1, <1>0 DEF Open
  <2>3. Page(view', cache', fetch', failed')
    BY <2>2, <1>c
  <2>4. server' = server /\ story' = story /\ moves' = moves + 1
    BY <1>1 DEF Open
  <2> HIDE DEF CallsOK, Page
  <2>5. QED
    BY <1>0, <2>1, <2>3, <2>4
<1>2. ASSUME Refresh
      PROVE  /\ CallsOK(call') /\ Page(view', cache', fetch', failed') /\ ServerOK(server')
             /\ story' \in Story /\ moves' \in Nat
  <2>1. /\ Page(view, cache, Invalidated({"list"}, cache), failed)
        /\ Render(view, cache, failed, Invalidated({"list"}, cache))
    BY <1>0, <1>2, InvalidatedTyped DEF Refresh
  <2>2. Page(view', cache', fetch', failed')
    BY <2>1, <1>c
  <2>3. QED
    BY <1>0, <1>2, <2>2 DEF Refresh
<1>3. ASSUME NEW q \in Query, ServeFetch(q)
      PROVE  /\ CallsOK(call') /\ Page(view', cache', fetch', failed') /\ ServerOK(server')
             /\ story' \in Story /\ moves' \in Nat
  <2>1. Fetches([fetch EXCEPT ![q] = Served(q)])
    BY <1>0, ServedTyped, FetchSet
  <2>2. QED
    BY <1>0, <1>3, <2>1 DEF ServeFetch
<1>4. ASSUME NEW q \in Query, Arrive(q)
      PROVE  /\ CallsOK(call') /\ Page(view', cache', fetch', failed') /\ ServerOK(server')
             /\ story' \in Story /\ moves' \in Nat
  <2>1. fetch[q] \in Answer(q) /\ fetch[q] \in Datum
    BY <1>0, <1>4, AnswersAreData DEF Arrive, Fetches
  <2>2. Caches([cache EXCEPT ![q] = fetch[q]])
    BY <1>0, <2>1 DEF Caches
  <2>3. Fetches([fetch EXCEPT ![q] = None])
    BY <1>0, FetchSet
  <2>4. Page(view, [cache EXCEPT ![q] = fetch[q]], [fetch EXCEPT ![q] = None], failed \ {q})
    BY <1>0, <2>2, <2>3
  <2>5. Page(view', cache', fetch', failed')
    BY <1>4, <2>4, <1>c DEF Arrive
  <2>6. CallsOK(call')
    BY <1>0, <1>4, <1>b DEF Arrive
  <2>7. QED
    BY <1>0, <1>4, <2>5, <2>6 DEF Arrive
<1>5. ASSUME NEW q \in Query, FailFetch(q)
      PROVE  /\ CallsOK(call') /\ Page(view', cache', fetch', failed') /\ ServerOK(server')
             /\ story' \in Story /\ moves' \in Nat
  <2>1. Fetches([fetch EXCEPT ![q] = None])
    BY <1>0, FetchSet
  <2>2. Page(view, cache, [fetch EXCEPT ![q] = None], failed \cup {q})
    BY <1>0, <2>1
  <2>3. Page(view', cache', fetch', failed')
    BY <1>5, <2>2, <1>c DEF FailFetch
  <2>4. CallsOK(call')
    BY <1>0, <1>5, <1>b DEF FailFetch
  <2>5. server' = server /\ story' = story /\ moves' = moves + 1
    BY <1>5 DEF FailFetch
  <2> HIDE DEF CallsOK, Page
  <2>6. QED
    BY <1>0, <2>3, <2>4, <2>5
<1>e. ASSUME NEW m \in Call, NEW kind \in Kind \ {"edit"}, Send(m, kind, None, None)
      PROVE  CallsOK(call')
  <2>1. call' = [call EXCEPT ![m] = [kind |-> kind, on |-> None, snapshot |-> None, since |-> 0,
                                     phase |-> "sent", here |-> TRUE]]
    BY <1>e DEF Send
  <2>2. Asked([kind |-> kind, on |-> None, snapshot |-> None, since |-> 0, phase |-> "sent",
               here |-> TRUE])
    BY <1>e, MadeCall
  <2>3. QED
    BY <1>0, <2>1, <2>2
<1>6. ASSUME NEW m \in Call, Edit(m)
      PROVE  /\ CallsOK(call') /\ Page(view', cache', fetch', failed') /\ ServerOK(server')
             /\ story' \in Story /\ moves' \in Nat
  <2> DEFINE on == cache[Displayed]
             snapshot == [q \in OnTickets |-> cache[q]]
             flight == [q \in Query |-> IF q \in OnTickets THEN None ELSE fetch[q]]
  <2>1. on \in TicketCopy
    <3>1. Displayed \in {"list", "detail"} /\ Holds(cache, Displayed)
      BY <1>6 DEF Edit, Controls, Displayed
    <3>2. QED
      BY <1>0, <3>1, AnswersAreData DEF Holds, Caches, Query
  <2>2. /\ snapshot \in [OnTickets -> Datum]
        /\ \A q \in OnTickets : snapshot[q] \in Answer(q) \cup {None}
    BY <1>0 DEF Caches, OnTickets
  <2>3. call' = [call EXCEPT ![m] = [kind |-> "edit", on |-> on, snapshot |-> snapshot,
                                     since |-> Changes, phase |-> "sent", here |-> TRUE]]
    BY <1>6 DEF Edit, Send
  <2>4. Asked([kind |-> "edit", on |-> on, snapshot |-> snapshot, since |-> Changes,
               phase |-> "sent", here |-> TRUE])
    <3> HIDE DEF on, snapshot
    <3>1. QED
      BY <1>d, <2>1, <2>2, MadeCall DEF Kind
  <2>5. CallsOK(call')
    BY <1>0, <2>3, <2>4
  <2>6. Caches(PatchCached(m, None))
    BY PatchTyped
  <2>7. Fetches(flight)
    BY <1>0 DEF Fetches, Datum
  <2>8. Page(view, PatchCached(m, None), flight, Unfailed(cache, Copies))
    BY <1>0, <2>6, <2>7 DEF Unfailed
  <2>9. Page(view', cache', fetch', failed')
    BY <1>6, <2>8, <1>c DEF Edit
  <2>10. QED
    BY <1>0, <1>6, <2>5, <2>9 DEF Edit
<1>7. ASSUME NEW m \in Call, Delete(m)
      PROVE  /\ CallsOK(call') /\ Page(view', cache', fetch', failed') /\ ServerOK(server')
             /\ story' \in Story /\ moves' \in Nat
  <2>1. CallsOK(call')
    BY <1>7, <1>e DEF Delete, Kind
  <2>2. QED
    BY <1>0, <1>7, <2>1 DEF Delete
<1>8. ASSUME NEW m \in Call, Comment(m)
      PROVE  /\ CallsOK(call') /\ Page(view', cache', fetch', failed') /\ ServerOK(server')
             /\ story' \in Story /\ moves' \in Nat
  <2>1. CallsOK(call')
    BY <1>8, <1>e DEF Comment, Kind
  <2>2. QED
    BY <1>0, <1>8, <2>1 DEF Comment
<1>9. ASSUME NEW m \in Call, NEW kind \in Decision, Decide(m, kind)
      PROVE  /\ CallsOK(call') /\ Page(view', cache', fetch', failed') /\ ServerOK(server')
             /\ story' \in Story /\ moves' \in Nat
  <2>1. CallsOK(call')
    BY <1>9, <1>e DEF Decide, Decision, Kind
  <2>2. QED
    BY <1>0, <1>9, <2>1 DEF Decide
<1>10. ASSUME NEW m \in Call, NEW lost \in BOOLEAN, Accept(m, lost)
      PROVE  /\ CallsOK(call') /\ Page(view', cache', fetch', failed') /\ ServerOK(server')
             /\ story' \in Story /\ moves' \in Nat
  <2>1. Asked(call[m]) /\ call[m].phase = "sent" /\ server' \in Outcomes(m)
    BY <1>0, <1>10 DEF Accept
  <2>2. ServerOK(server') /\ Ticket' \in TicketCopy
    <3>1. CASE Grown(server, server')
      <4>1. /\ ServerOK(server')
            /\ [n |-> Len(server'.versions), version |-> Last(server'.versions), shows |-> {}]
                 \in TicketCopy
        BY <1>0, <3>1, GrownTyped
      <4>2. QED
        BY <4>1 DEF Ticket, Changes, Version
    <3>2. CASE /\ server' \in Server /\ server'.versions = server.versions
               /\ server'.marks = server.marks
      <4>1. Ticket' = Ticket
        BY <3>2 DEF Ticket, Changes, Version
      <4>2. QED
        BY <1>0, <3>2, <4>1, TicketTyped DEF Kept
    <3>3. QED
      BY <2>1, <3>1, <3>2, OutcomesGrow
  <2>3. CallsOK(call')
    <3> DEFINE d == AcceptedAs(call[m], lost, Ticket')
    <3>1. call' = [call EXCEPT ![m] = d]
      BY <1>0, <1>10 DEF Accept, AcceptedAs
    <3>2. Asked(d)
      BY <2>1, <2>2, AcceptedCall
    <3> HIDE DEF d
    <3>3. QED
      BY <1>0, <3>1, <3>2
  <2>4. story' \in Story
    BY <1>10, <2>1, AskedIsCall, AcceptStory
  <2>5. QED
    BY <1>0, <1>10, <2>2, <2>3, <2>4 DEF Accept
<1>11. ASSUME NEW m \in Call, Settle(m)
      PROVE  /\ CallsOK(call') /\ Page(view', cache', fetch', failed') /\ ServerOK(server')
             /\ story' \in Story /\ moves' \in Nat
  <2>1. Asked(call[m]) /\ call[m].phase # "reload"
    BY <1>0, <1>11 DEF Settle
  <2>2. PICK f : /\ f = (IF call[m].kind # "edit" THEN failed
                         ELSE IF call[m].phase = "done" THEN Unfailed(Answered(m), Copies)
                         ELSE Unfailed(call[m].snapshot, OnTickets))
                 /\ Render(view, Answered(m), f, Invalidated(Reloads(m), Answered(m)))
    BY <1>11 DEF Settle
  <2>3. f \subseteq Query
    BY <1>0, <2>2 DEF Unfailed
  <2>4. Page(view, Answered(m), Invalidated(Reloads(m), Answered(m)), f)
    BY <1>0, <2>1, <2>3, AnsweredTyped, InvalidatedTyped
  <2>5. Page(view', cache', fetch', failed')
    BY <2>2, <2>4, <1>c
  <2>6. story' \in Story
    <3>1. PICK l \in [Query -> SUBSET Call] : story' = [story EXCEPT !.left = l]
      <4> DEFINE l == [q \in Query |-> IF q \in Unrestarted(m, Answered(m))
                                       THEN story.left[q] \cup {m} ELSE story.left[q]]
      <4>1. l \in [Query -> SUBSET Call]
        BY <1>0 DEF Story
      <4>2. story' = [story EXCEPT !.left = l]
        BY <1>0, <1>11 DEF Settle, Story
      <4>3. QED
        BY <4>1, <4>2
    <3>2. QED
      BY <1>0, <3>1 DEF Story
  <2>7. CallsOK(call')
    <3>1. \/ call' = [call EXCEPT ![m] = Over]
          \/ /\ call' = [call EXCEPT ![m] = [call[m] EXCEPT !.phase = "reload"]]
             /\ call[m].kind \in Decision \cup {"comment"}
      BY <1>0, <1>11 DEF Settle
    <3>2. call[m].kind \in Decision \cup {"comment"} =>
            Asked([call[m] EXCEPT !.phase = "reload"])
      BY <2>1, AnsweredCall DEF Decision
    <3>3. QED
      BY <1>0, <3>1, <3>2
  <2>8. QED
    BY <1>0, <1>11, <2>5, <2>6, <2>7 DEF Settle
<1>12. ASSUME NEW m \in Call, Reloaded(m)
      PROVE  /\ CallsOK(call') /\ Page(view', cache', fetch', failed') /\ ServerOK(server')
             /\ story' \in Story /\ moves' \in Nat
  BY <1>0, <1>12 DEF Reloaded
<1>13. ASSUME Other
      PROVE  /\ CallsOK(call') /\ Page(view', cache', fetch', failed') /\ ServerOK(server')
             /\ story' \in Story /\ moves' \in Nat
  <2>1. Grown(server, server')
    BY <1>13, OthersGrow DEF Other
  <2>2. ServerOK(server') /\ Len(server'.versions) \in Nat
    BY <1>0, <2>1, GrownTyped
  <2>3. story' \in Story
    BY <1>13, OtherStory
  <2>4. QED
    BY <1>0, <1>13, <2>2, <2>3 DEF Other
<1>14. CASE UNCHANGED vars
  BY <1>0, <1>14 DEF vars
<1> HIDE DEF CallsOK, Page, ServerOK
<1>15. QED
  BY <1>1, <1>2, <1>3, <1>4, <1>5, <1>6, <1>7, <1>8, <1>9, <1>10, <1>11, <1>12, <1>13,
     <1>14 DEF Next

-----------------------------------------------------------------------------
(* Copies                                                                    *)

(* What was true of the ticket stays true of it: its changes are never taken *)
(* back, and it does not come back once it is gone.                          *)
Later(s, t) ==
  \A q \in Query : \A x \in Answer(q) : TrueOf(s, q, x) => TrueOf(t, q, x)

(* A copy that is not of a removed ticket says which state it is of.        *)
LEMMA CopyNumbered ==
  ASSUME NEW q \in Query, NEW x \in Answer(q), x # Absent
  PROVE  /\ x.n \in Nat
         /\ q \in Copies => x \in TicketCopy
PROOF
<1>1. x \in TicketCopy \cup ThreadCopy \cup ProposalCopy
  BY AnswersAreData DEF Query
<1>2. x.n \in Nat
  BY <1>1 DEF TicketCopy, ThreadCopy, ProposalCopy
<1>3. q \in Copies => x \in TicketCopy
  BY AnswersAreData DEF Copies
<1>4. QED
  BY <1>2, <1>3

(* A further state of the ticket leaves what was true of the earlier ones   *)
(* true.                                                                    *)
LEMMA GrownIsLater ==
  ASSUME NEW s \in Server, NEW t, Grown(s, t)
  PROVE  Later(s, t)
PROOF
<1>1. /\ Len(s.versions) \in Nat /\ Len(t.versions) = Len(s.versions) + 1
      /\ \A i \in 1..Len(s.versions) : t.versions[i] = s.versions[i]
      /\ t.alive = s.alive
  BY DEF Grown, Server
<1> SUFFICES ASSUME NEW q \in Query, NEW x \in Answer(q), TrueOf(s, q, x)
             PROVE  TrueOf(t, q, x)
  BY DEF Later
<1>2. CASE x = Absent
  BY <1>1, <1>2 DEF TrueOf
<1>3. CASE x # Absent
  <2>1. x.n \in Nat
    BY <1>3, CopyNumbered
  <2>2. x.n <= Len(s.versions) /\ (q \in Copies => x.n >= 1 /\ s.versions[x.n] = x.version)
    BY <1>3 DEF TrueOf
  <2>3. q \in Copies => t.versions[x.n] = s.versions[x.n]
    BY <1>1, <2>1, <2>2
  <2>4. QED
    BY <1>1, <1>3, <2>1, <2>2, <2>3 DEF TrueOf
<1>4. QED
  BY <1>2, <1>3

(* So does its removal.                                                     *)
LEMMA GoneIsLater ==
  ASSUME NEW s, NEW t, t.versions = s.versions, ~t.alive
  PROVE  Later(s, t)
  BY DEF Later, TrueOf

(* What is cached, on its way and put aside stays true as the ticket changes.*)
LEMMA LaterKeeps ==
  ASSUME TypeOK, NEW s, NEW t, Later(s, t)
  PROVE  /\ CachesTrue(s, cache) => CachesTrue(t, cache)
         /\ FetchesTrue(s, fetch) => FetchesTrue(t, fetch)
         /\ CallsTrue(s, call) => CallsTrue(t, call)
PROOF
<1>1. CachesTrue(s, cache) => CachesTrue(t, cache)
  BY DEF TypeOK, Caches, CachesTrue, Later
<1>2. FetchesTrue(s, fetch) => FetchesTrue(t, fetch)
  BY DEF TypeOK, Fetches, FetchesTrue, Later
<1>3. CallsTrue(s, call) => CallsTrue(t, call)
  <2> SUFFICES ASSUME CallsTrue(s, call), NEW m \in Call, call[m] \notin {None, Over},
                      call[m].kind = "edit"
               PROVE  CallTrue(t, call[m])
    BY DEF CallsTrue, CallTrue
  <2>1. Asked(call[m]) /\ CallTrue(s, call[m])
    BY CallsAsked DEF CallsTrue
  <2>2. call[m].on \in Answer("detail") /\ "detail" \in Query
    BY <2>1, AnswersAreData DEF Asked, Query
  <2>3. TrueOf(t, "detail", call[m].on)
    BY <2>1, <2>2 DEF CallTrue, Later
  <2>4. ASSUME call[m].phase # "done", NEW q \in OnTickets, call[m].snapshot[q] # None
        PROVE  TrueOf(t, q, call[m].snapshot[q])
    <3>1. call[m].snapshot[q] \in Answer(q) /\ q \in Query
      BY <2>1, <2>4 DEF Asked, OnTickets
    <3>2. TrueOf(s, q, call[m].snapshot[q])
      BY <2>1, <2>4 DEF CallTrue
    <3>3. QED
      BY <3>1, <3>2 DEF Later
  <2>5. QED
    BY <2>3, <2>4 DEF CallTrue
<1>4. QED
  BY <1>1, <1>2, <1>3

(* The server's answer is true when it is given.                             *)
LEMMA ServedTrue ==
  ASSUME TypeOK, CopiesTrue, NEW q \in Query
  PROVE  TrueOf(server, q, Served(q))
PROOF
<1>1. /\ Ticket \in TicketCopy /\ Ticket.n = Changes /\ Ticket.version = Version
      /\ Changes \in Nat /\ Changes >= 1 /\ Version = server.versions[Changes]
  BY TicketTyped
<1>2. Ticket # Absent
  BY <1>1, PageAssumption
<1>3. TrueOf(server, q, Ticket)
  BY <1>1, <1>2 DEF TrueOf, Changes
<1>4. CASE q = "list"
  BY <1>3, <1>4 DEF Served, TrueOf
<1>5. CASE q = "detail"
  BY <1>3, <1>5 DEF Served
<1>6. CASE q = "thread"
  <2>1. Served(q) = [n |-> server.thread] /\ q \notin Copies
    BY <1>6 DEF Served, Copies
  <2>2. Served(q) # Absent
    BY <1>6, ServedTyped, AnswersAreData, PageAssumption DEF Query
  <2>3. QED
    BY <2>1, <2>2 DEF TrueOf, CopiesTrue, Changes
<1>7. CASE q = "proposal"
  <2>1. /\ Served(q) = [n |-> server.proposal, run |-> Proposal(server).run,
                         open |-> Proposal(server).open]
        /\ q \notin Copies
    BY <1>7 DEF Served, Copies
  <2>2. Served(q) # Absent
    BY <1>7, ServedTyped, AnswersAreData, PageAssumption DEF Query
  <2>3. QED
    BY <2>1, <2>2 DEF TrueOf, CopiesTrue, Changes
<1>8. QED
  BY <1>4, <1>5, <1>6, <1>7 DEF Query

(* Abandoned or not, a call carries what it carried.                         *)
LEMMA UnmountedTrue ==
  ASSUME TypeOK, NEW s, CallsTrue(s, call), NEW kinds
  PROVE  CallsTrue(s, Unmounted(kinds))
PROOF
<1> SUFFICES ASSUME NEW m \in Call, Unmounted(kinds)[m] \notin {None, Over}
             PROVE  CallTrue(s, Unmounted(kinds)[m])
  BY DEF CallsTrue
<1> DEFINE d == Unmounted(kinds)[m]
<1>1. \/ d = call[m]
      \/ Asked(call[m]) /\ SameCall(call[m], d)
  BY UnmountedCalls
<1> HIDE DEF d
<1>2. CASE d = call[m]
  BY <1>2 DEF CallsTrue, d
<1>3. CASE Asked(call[m]) /\ SameCall(call[m], d)
  <2>1. CallTrue(s, call[m])
    BY <1>3, AskedIsCall DEF CallsTrue
  <2>2. CallTrue(s, d)
    BY <1>3, <2>1 DEF CallTrue, SameCall
  <2>3. QED
    BY <2>2 DEF d
<1>4. QED
  BY <1>1, <1>2, <1>3

(* Rendering shows what it is given, and adds nothing to what is on its way. *)
LEMMA RenderTrue ==
  ASSUME NEW s, NEW w, NEW c, NEW f, NEW flight, Render(w, c, f, flight),
         CachesTrue(s, c), FetchesTrue(s, flight)
  PROVE  CachesTrue(s, cache') /\ FetchesTrue(s, fetch')
PROOF
<1>1. cache' = c
  BY DEF Render
<1>2. \A q \in Query : fetch'[q] \in {None, Sent, flight[q]}
  BY DEF Render
<1>3. QED
  BY <1>1, <1>2 DEF CachesTrue, FetchesTrue

(* A fetch that starts has brought nothing yet.                             *)
LEMMA InvalidatedTrue ==
  ASSUME NEW s, FetchesTrue(s, fetch), NEW qs, NEW c
  PROVE  FetchesTrue(s, Invalidated(qs, c))
PROOF
<1>1. \A q \in Query : Invalidated(qs, c)[q] \in {Sent, fetch[q]}
  BY DEF Invalidated
<1>2. QED
  BY <1>1 DEF FetchesTrue

(* Showing an accepted edit's answer in the cache keeps the copies true.    *)
LEMMA PatchTrue ==
  ASSUME TypeOK, NEW s, CachesTrue(s, cache), NEW m \in Call,
         NEW answer \in TicketCopy \cup {None},
         answer # None => TrueOf(s, "detail", answer)
  PROVE  CachesTrue(s, PatchCached(m, answer))
PROOF
<1> SUFFICES ASSUME NEW q \in Query, PatchCached(m, answer)[q] # None
             PROVE  TrueOf(s, q, PatchCached(m, answer)[q])
  BY DEF CachesTrue
<1> DEFINE x == PatchCached(m, answer)[q]
<1>1. IF ~Holds(cache, q) THEN x = cache[q]
      ELSE IF answer # None THEN x = answer
      ELSE /\ cache[q] \in TicketCopy /\ x \in TicketCopy
           /\ x.n = cache[q].n /\ x.version = cache[q].version
  BY PatchTyped
<1> HIDE DEF x
<1>2. CASE ~Holds(cache, q)
  BY <1>1, <1>2 DEF CachesTrue, x
<1>3. CASE Holds(cache, q) /\ answer # None
  <2>1. answer # Absent /\ q \in Copies
    BY <1>3, PageAssumption DEF Holds
  <2>2. TrueOf(s, q, answer)
    BY <1>3, <2>1 DEF TrueOf, Copies
  <2>3. QED
    BY <1>1, <1>3, <2>2 DEF x
<1>4. CASE Holds(cache, q) /\ answer = None
  <2>1. TrueOf(s, q, cache[q]) /\ cache[q] # Absent
    BY <1>4 DEF Holds, CachesTrue
  <2>2. x # Absent /\ x.n = cache[q].n /\ x.version = cache[q].version
    BY <1>1, <1>4, PageAssumption
  <2>3. TrueOf(s, q, x)
    BY <2>1, <2>2 DEF TrueOf
  <2>4. QED
    BY <2>3 DEF x
<1>5. QED
  BY <1>2, <1>3, <1>4

(* What the cache is set to when a call is answered is what the server      *)
(* gave.                                                                    *)
LEMMA AnsweredTrue ==
  ASSUME TypeOK, CopiesTrue, NEW m \in Call, Asked(call[m])
  PROVE  CachesTrue(server, Answered(m))
PROOF
<1>0. CallTrue(server, call[m]) /\ CachesTrue(server, cache)
  BY AskedIsCall DEF CopiesTrue, CallsTrue
<1>1. CASE call[m].kind # "edit"
  BY <1>0, <1>1 DEF Answered
<1>2. CASE call[m].kind = "edit" /\ call[m].phase = "done"
  <2>1. call[m].on \in TicketCopy /\ TrueOf(server, "detail", call[m].on)
    BY <1>0, <1>2 DEF Asked, CallTrue
  <2>2. Answered(m) = PatchCached(m, call[m].on)
    BY <1>2 DEF Answered
  <2>3. QED
    BY <1>0, <2>1, <2>2, PatchTrue
<1>3. CASE call[m].kind = "edit" /\ call[m].phase # "done"
  <2>1. /\ \A q \in OnTickets : call[m].snapshot[q] \in Answer(q) \cup {None}
        /\ \A q \in OnTickets : call[m].snapshot[q] # None =>
                                  TrueOf(server, q, call[m].snapshot[q])
    BY <1>0, <1>3 DEF Asked, CallTrue
  <2>2. Answered(m) = Restored(call[m].snapshot)
    BY <1>3 DEF Answered
  <2>3. \A q \in Query : \/ Answered(m)[q] = cache[q]
                         \/ /\ q \in OnTickets /\ call[m].snapshot[q] # None
                            /\ Answered(m)[q] = call[m].snapshot[q]
    BY <2>1, <2>2, RestoredTyped
  <2>4. QED
    BY <1>0, <2>1, <2>3 DEF CachesTrue
<1>4. QED
  BY <1>1, <1>2, <1>3

(* Nothing is cached at first.                                              *)
LEMMA CopiesAtFirst == Init => CopiesTrue
PROOF
<1> SUFFICES ASSUME Init PROVE CopiesTrue
  OBVIOUS
<1>1. server.thread = 1 /\ server.proposal = 1 /\ Len(server.versions) = 1
  BY DEF Init
<1>2. CachesTrue(server, cache) /\ CallsTrue(server, call)
  BY DEF Init, CachesTrue, CallsTrue
<1>3. FetchesTrue(server, fetch)
  BY DEF Init, FetchesTrue
<1>4. QED
  BY <1>1, <1>2, <1>3 DEF CopiesTrue, Changes

(* A call that is made is true of the ticket if what it carries is, and a    *)
(* change to one call leaves the others as they are.                         *)
LEMMA CallSet ==
  ASSUME NEW s, NEW c, DOMAIN c = Call, CallsTrue(s, c), NEW m \in Call, NEW d,
         d \notin {None, Over} => CallTrue(s, d)
  PROVE  CallsTrue(s, [c EXCEPT ![m] = d])
  BY DEF CallsTrue

(* The ticket a step leaves: the same, or a later one.                       *)
LEMMA ServerLater ==
  ASSUME TypeOK, CopiesTrue, NEW t,
         \/ Grown(server, t)
         \/ /\ t.versions = server.versions /\ ~t.alive
            /\ t.thread = server.thread /\ t.proposal = server.proposal
  PROVE  Later(server, t) /\ t.thread <= Len(t.versions) /\ t.proposal <= Len(t.versions)
PROOF
<1>1. CASE Grown(server, t)
  <2>1. server \in Server /\ Len(server.versions) \in Nat
    BY DEF TypeOK, Server
  <2>2. /\ server.thread \in Nat /\ server.proposal \in Nat
        /\ server.thread <= Len(server.versions) /\ server.proposal <= Len(server.versions)
    BY <2>1 DEF CopiesTrue, Changes, Server
  <2>3. Later(server, t)
    BY <1>1, <2>1, GrownIsLater
  <2>4. QED
    BY <1>1, <2>1, <2>2, <2>3 DEF Grown
<1>2. CASE /\ t.versions = server.versions /\ ~t.alive
           /\ t.thread = server.thread /\ t.proposal = server.proposal
  BY <1>2, GoneIsLater DEF CopiesTrue, Changes
<1>3. QED
  BY <1>1, <1>2

(* Every step keeps every copy one that the server gave.                    *)
LEMMA CopiesKept == TypeOK /\ CopiesTrue /\ [Next]_vars => CopiesTrue'
PROOF
<1> SUFFICES ASSUME TypeOK, CopiesTrue, [Next]_vars PROVE CopiesTrue'
  OBVIOUS
<1>0. /\ CachesTrue(server, cache) /\ FetchesTrue(server, fetch) /\ CallsTrue(server, call)
      /\ server.thread <= Len(server.versions) /\ server.proposal <= Len(server.versions)
  BY DEF CopiesTrue, Changes
<1>t. /\ DOMAIN call = Call /\ Caches(cache) /\ Fetches(fetch)
  BY DEF TypeOK
<1>p. ASSUME server' = server, CachesTrue(server, cache'), FetchesTrue(server, fetch'),
             CallsTrue(server, call')
      PROVE  CopiesTrue'
  BY <1>0, <1>p DEF CopiesTrue, Changes
<1>1. ASSUME NEW w \in {"queue", "detail"}, Open(w)
      PROVE  CopiesTrue'
  <2>1. CachesTrue(server, cache') /\ FetchesTrue(server, fetch')
    BY <1>0, <1>1, RenderTrue DEF Open
  <2>2. CallsTrue(server, call')
    BY <1>0, <1>1, UnmountedTrue DEF Open
  <2>3. server' = server
    BY <1>1 DEF Open
  <2>4. QED
    BY <1>p, <2>1, <2>2, <2>3
<1>2. ASSUME Refresh
      PROVE  CopiesTrue'
  <2>1. /\ FetchesTrue(server, Invalidated({"list"}, cache))
        /\ Render(view, cache, failed, Invalidated({"list"}, cache))
    BY <1>0, <1>2, InvalidatedTrue DEF Refresh
  <2>2. CachesTrue(server, cache') /\ FetchesTrue(server, fetch')
    BY <1>0, <2>1, RenderTrue
  <2>3. server' = server /\ call' = call
    BY <1>2 DEF Refresh
  <2>4. QED
    BY <1>0, <1>p, <2>2, <2>3
<1>3. ASSUME NEW q \in Query, ServeFetch(q)
      PROVE  CopiesTrue'
  <2>1. FetchesTrue(server, fetch')
    BY <1>0, <1>3, <1>t, ServedTrue DEF ServeFetch, FetchesTrue, Fetches
  <2>2. server' = server /\ call' = call /\ cache' = cache
    BY <1>3 DEF ServeFetch
  <2>3. QED
    BY <1>0, <1>p, <2>1, <2>2
<1>4. ASSUME NEW q \in Query, Arrive(q)
      PROVE  CopiesTrue'
  <2>1. TrueOf(server, q, fetch[q])
    BY <1>0, <1>4 DEF Arrive, FetchesTrue
  <2>2. CachesTrue(server, [cache EXCEPT ![q] = fetch[q]])
    BY <1>0, <1>t, <2>1 DEF CachesTrue, Caches
  <2>3. FetchesTrue(server, [fetch EXCEPT ![q] = None])
    BY <1>0, <1>t DEF FetchesTrue, Fetches
  <2>4. CachesTrue(server, cache') /\ FetchesTrue(server, fetch')
    BY <1>4, <2>2, <2>3, RenderTrue DEF Arrive
  <2>5. CallsTrue(server, call')
    BY <1>0, <1>4, UnmountedTrue DEF Arrive
  <2>6. server' = server
    BY <1>4 DEF Arrive
  <2>7. QED
    BY <1>p, <2>4, <2>5, <2>6
<1>5. ASSUME NEW q \in Query, FailFetch(q)
      PROVE  CopiesTrue'
  <2>1. FetchesTrue(server, [fetch EXCEPT ![q] = None])
    BY <1>0, <1>t DEF FetchesTrue, Fetches
  <2>2. CachesTrue(server, cache') /\ FetchesTrue(server, fetch')
    BY <1>0, <1>5, <2>1, RenderTrue DEF FailFetch
  <2>3. CallsTrue(server, call')
    BY <1>0, <1>5, UnmountedTrue DEF FailFetch
  <2>4. server' = server
    BY <1>5 DEF FailFetch
  <2>5. QED
    BY <1>p, <2>2, <2>3, <2>4
<1>6. ASSUME NEW m \in Call, Edit(m)
      PROVE  CopiesTrue'
  <2> DEFINE on == cache[Displayed]
             snapshot == [q \in OnTickets |-> cache[q]]
             flight == [q \in Query |-> IF q \in OnTickets THEN None ELSE fetch[q]]
             d == [kind |-> "edit", on |-> on, snapshot |-> snapshot, since |-> Changes,
                   phase |-> "sent", here |-> TRUE]
  <2>1. /\ Displayed \in Copies /\ Displayed \in Query /\ on # None /\ on # Absent
    BY <1>6 DEF Edit, Controls, Displayed, Holds, Copies, Query
  <2>2. TrueOf(server, "detail", on)
    BY <1>0, <2>1 DEF CachesTrue, TrueOf, Copies
  <2>3. \A q \in OnTickets : snapshot[q] # None => TrueOf(server, q, snapshot[q])
    BY <1>0 DEF CachesTrue, OnTickets
  <2>4. CallTrue(server, d)
    <3> HIDE DEF on, snapshot
    <3>1. d.on = on /\ d.snapshot = snapshot
      OBVIOUS
    <3> HIDE DEF d
    <3>2. QED
      BY <2>2, <2>3, <3>1 DEF CallTrue
  <2>5. call' = [call EXCEPT ![m] = d]
    BY <1>6 DEF Edit, Send
  <2>6. CallsTrue(server, call')
    <3> HIDE DEF d
    <3>1. QED
      BY <1>0, <1>t, <2>4, <2>5, CallSet
  <2>7. CachesTrue(server, PatchCached(m, None))
    BY <1>0, PatchTrue
  <2>8. FetchesTrue(server, flight)
    BY <1>0 DEF FetchesTrue
  <2>9. CachesTrue(server, cache') /\ FetchesTrue(server, fetch')
    BY <1>6, <2>7, <2>8, RenderTrue DEF Edit
  <2>10. server' = server
    BY <1>6 DEF Edit
  <2>11. QED
    BY <1>p, <2>6, <2>9, <2>10
<1>s. ASSUME NEW m \in Call, NEW kind, kind # "edit", NEW on, Send(m, kind, on, None),
             UNCHANGED <<cache, fetch, server>>
      PROVE  CopiesTrue'
  <2> DEFINE d == [kind |-> kind, on |-> on, snapshot |-> None, since |-> 0,
                   phase |-> "sent", here |-> TRUE]
  <2>1. call' = [call EXCEPT ![m] = d]
    BY <1>s DEF Send
  <2>2. CallTrue(server, d)
    BY <1>s DEF CallTrue
  <2> HIDE DEF d
  <2>3. CallsTrue(server, call')
    BY <1>0, <1>t, <2>1, <2>2, CallSet
  <2>4. QED
    BY <1>0, <1>p, <1>s, <2>3
<1>7. ASSUME NEW m \in Call, Delete(m)
      PROVE  CopiesTrue'
  BY <1>7, <1>s DEF Delete
<1>8. ASSUME NEW m \in Call, Comment(m)
      PROVE  CopiesTrue'
  BY <1>8, <1>s DEF Comment
<1>9. ASSUME NEW m \in Call, NEW kind \in Decision, Decide(m, kind)
      PROVE  CopiesTrue'
  BY <1>9, <1>s DEF Decide, Decision
<1>10. ASSUME NEW m \in Call, NEW lost \in BOOLEAN, Accept(m, lost)
      PROVE  CopiesTrue'
  <2>1. Asked(call[m]) /\ call[m].phase = "sent" /\ server' \in Outcomes(m)
    BY <1>10, CallsAsked DEF Accept
  <2>2. \/ Grown(server, server')
        \/ /\ server'.versions = server.versions /\ ~server'.alive
           /\ server'.thread = server.thread /\ server'.proposal = server.proposal
    BY <2>1, OutcomesGrow
  <2>3. /\ Later(server, server')
        /\ server'.thread <= Len(server'.versions) /\ server'.proposal <= Len(server'.versions)
    BY <2>2, ServerLater
  <2>4. /\ CachesTrue(server', cache) /\ FetchesTrue(server', fetch)
        /\ CallsTrue(server', call)
    BY <1>0, <2>3, LaterKeeps
  <2>5. cache' = cache /\ fetch' = fetch
    BY <1>10 DEF Accept
  <2>6. TypeOK'
    BY <1>10, TypesKept DEF Next
  <2>7. /\ Ticket' \in TicketCopy /\ Ticket'.n = Len(server'.versions)
        /\ Ticket'.version = server'.versions[Len(server'.versions)]
        /\ Len(server'.versions) >= 1 /\ Len(server'.versions) \in Nat
    <3>1. /\ server'.versions \in Seq(Nat) /\ server'.versions # <<>>
      BY <2>6 DEF TypeOK, Server
    <3>2. Len(server'.versions) >= 1 /\ Len(server'.versions) \in Nat
      BY <3>1
    <3>3. Last(server'.versions) = server'.versions[Len(server'.versions)]
      BY DEF Last
    <3>4. server'.versions[Len(server'.versions)] \in Nat
      BY <3>1, <3>2
    <3>5. QED
      BY <3>2, <3>3, <3>4 DEF Ticket, TicketCopy, Changes, Version
  <2>8. TrueOf(server', "detail", Ticket')
    <3>1. Ticket' # Absent
      BY <2>7, PageAssumption
    <3>2. QED
      BY <2>7, <3>1 DEF TrueOf
  <2>a. PICK ticket \in TicketCopy : ticket = Ticket'
    BY <2>7
  <2> DEFINE d == AcceptedAs(call[m], lost, ticket)
  <2>9. call' = [call EXCEPT ![m] = d]
    BY <1>t, <1>10, <2>a DEF Accept, AcceptedAs
  <2>10. /\ d.kind = call[m].kind
         /\ d.phase = (IF lost THEN "lost" ELSE "done")
         /\ d.snapshot = (IF lost THEN call[m].snapshot ELSE None)
         /\ d.on = (IF call[m].kind = "edit" THEN ticket ELSE call[m].on)
    BY <2>1, AcceptedCall
  <2> HIDE DEF d
  <2>11. CallTrue(server', call[m])
    BY <2>1, <2>4, AskedIsCall DEF CallsTrue
  <2>12. CallTrue(server', d)
    BY <2>1, <2>8, <2>a, <2>10, <2>11 DEF CallTrue
  <2>13. CallsTrue(server', call')
    BY <1>t, <2>4, <2>9, <2>12, CallSet
  <2>14. QED
    BY <2>3, <2>4, <2>5, <2>13 DEF CopiesTrue, Changes
<1>11. ASSUME NEW m \in Call, Settle(m)
      PROVE  CopiesTrue'
  <2>1. Asked(call[m]) /\ server' = server
    BY <1>11, CallsAsked DEF Settle
  <2>2. PICK f : Render(view, Answered(m), f, Invalidated(Reloads(m), Answered(m)))
    BY <1>11 DEF Settle
  <2>3. CachesTrue(server, cache') /\ FetchesTrue(server, fetch')
    BY <1>0, <2>1, <2>2, AnsweredTrue, InvalidatedTrue, RenderTrue
  <2>4. CallsTrue(server, call')
    <3>1. \/ call' = [call EXCEPT ![m] = Over]
          \/ /\ call' = [call EXCEPT ![m] = [call[m] EXCEPT !.phase = "reload"]]
             /\ call[m].kind \in Decision \cup {"comment"}
      BY <1>t, <1>11 DEF Settle
    <3>2. call[m].kind \in Decision \cup {"comment"} =>
            CallTrue(server, [call[m] EXCEPT !.phase = "reload"])
      BY <2>1, AnsweredCall DEF Decision, CallTrue
    <3>3. QED
      BY <1>0, <1>t, <3>1, <3>2, CallSet
  <2>5. QED
    BY <1>p, <2>1, <2>3, <2>4
<1>12. ASSUME NEW m \in Call, Reloaded(m)
      PROVE  CopiesTrue'
  <2>1. CallsTrue(server, call')
    BY <1>0, <1>t, <1>12, CallSet DEF Reloaded
  <2>2. server' = server /\ cache' = cache /\ fetch' = fetch
    BY <1>12 DEF Reloaded
  <2>3. QED
    BY <1>0, <1>p, <2>1, <2>2
<1>13. ASSUME Other
      PROVE  CopiesTrue'
  <2>1. /\ Later(server, server')
        /\ server'.thread <= Len(server'.versions) /\ server'.proposal <= Len(server'.versions)
    BY <1>13, OthersGrow, ServerLater DEF Other
  <2>2. /\ CachesTrue(server', cache) /\ FetchesTrue(server', fetch)
        /\ CallsTrue(server', call)
    BY <1>0, <2>1, LaterKeeps
  <2>3. QED
    BY <1>13, <2>1, <2>2 DEF Other, CopiesTrue, Changes
<1>14. CASE UNCHANGED vars
  BY <1>0, <1>14, <1>p DEF vars
<1>15. QED
  BY <1>1, <1>2, <1>3, <1>4, <1>5, <1>6, <1>7, <1>8, <1>9, <1>10, <1>11, <1>12, <1>13,
     <1>14 DEF Next

(* An edit the server would accept was made on a copy whose fields are still *)
(* the server's, whatever was shown, cancelled, rolled back or came late in  *)
(* between: the version it carries was the ticket's when it was copied.      *)
THEOREM EditIsInformed == Spec => []EditSawItsVersion
PROOF
<1>1. Init => TypeOK /\ CopiesTrue
  BY TypesAtFirst, CopiesAtFirst
<1>2. TypeOK /\ CopiesTrue /\ [Next]_vars => TypeOK' /\ CopiesTrue'
  BY TypesKept, CopiesKept
<1>3. TypeOK /\ CopiesTrue => EditSawItsVersion
  <2> SUFFICES ASSUME TypeOK, CopiesTrue, NEW m \in Of({"edit"}), AtVersion(m)
               PROVE  server.versions[call[m].on.n] = Version
    BY DEF EditSawItsVersion
  <2>1. m \in Call /\ call[m] \notin {None, Over} /\ call[m].kind = "edit"
    BY DEF Of
  <2>2. call[m].on \in TicketCopy /\ TrueOf(server, "detail", call[m].on)
    BY <2>1, CallsAsked DEF Asked, CopiesTrue, CallsTrue, CallTrue
  <2>3. call[m].on # Absent
    BY <2>2, PageAssumption
  <2>4. QED
    BY <2>2, <2>3 DEF TrueOf, Copies, AtVersion
<1>4. QED
  BY <1>1, <1>2, <1>3, PTL DEF Spec

-----------------------------------------------------------------------------
(* Fetches                                                                   *)

(* Only queries are shown.                                                  *)
LEMMA ActiveAreQueries == \A w, c, f : ActiveIn(w, c, f) \subseteq Query
  BY DEF ActiveIn, Query

(* A query that comes into view is fetched; one that stays keeps its fetch.  *)
LEMMA RenderFetches ==
  ASSUME NEW w, NEW c, NEW f, NEW flight, Render(w, c, f, flight)
  PROVE  /\ Active' = ActiveIn(w, c, f) /\ Active' \subseteq Query
         /\ cache' = c /\ failed' = f
         /\ \A q \in Query \ Active' : fetch'[q] = None
         /\ \A q \in Active' :
              /\ flight[q] # None => fetch'[q] = flight[q]
              /\ q \in Active => fetch'[q] = flight[q]
              /\ q \notin Active /\ flight[q] = None => fetch'[q] = Sent
PROOF
<1>1. view' = w /\ cache' = c /\ failed' = f
  BY DEF Render
<1>2. Active' = ActiveIn(w, c, f)
  BY <1>1 DEF Active
<1>3. Active' \subseteq Query
  BY <1>2, ActiveAreQueries
<1>4. \A q \in Query : fetch'[q] = IF q \notin ActiveIn(w, c, f) THEN None
                                   ELSE IF q \notin Active /\ flight[q] = None THEN Sent
                                   ELSE flight[q]
  BY DEF Render
<1>5. QED
  BY <1>1, <1>2, <1>3, <1>4

(* What a call in progress will reload is known from the call alone.        *)
LEMMA ReloadsKnown ==
  ASSUME TypeOK, NEW m \in Call, Asked(call[m])
  PROVE  Reloads(m) = ReloadsOf(call[m])
PROOF
<1>1. call[m].kind \in Kind
  BY AskedIsCall
<1>2. CASE call[m].kind = "edit"
  BY <1>2 DEF Reloads, ReloadsOf, Decision
<1>3. CASE call[m].kind \in Decision
  BY <1>3 DEF Reloads, ReloadsOf, Decision
<1>4. CASE call[m].kind = "delete"
  BY <1>4 DEF Reloads, ReloadsOf, Decision
<1>5. CASE call[m].kind = "comment"
  BY <1>5 DEF Reloads, ReloadsOf, Decision
<1>6. QED
  BY <1>1, <1>2, <1>3, <1>4, <1>5 DEF Kind, Decision

(* A view that is left takes no reload with it, nor does a call that is made *)
(* or accepted.                                                              *)
LEMMA UnmountedReloads ==
  ASSUME TypeOK, NEW kinds, NEW q
  PROVE  /\ \A m : Reloading(m, q, call) => Reloading(m, q, Unmounted(kinds))
         /\ WillReload(q, call) => WillReload(q, Unmounted(kinds))
PROOF
<1>1. ASSUME NEW m, Reloading(m, q, call)
      PROVE  Reloading(m, q, Unmounted(kinds))
  <2> DEFINE d == Unmounted(kinds)[m]
  <2>1. \/ d = call[m]
        \/ Asked(d) /\ SameCall(call[m], d)
    BY <1>1, UnmountedCalls DEF Reloading
  <2> HIDE DEF d
  <2>2. d \notin {None, Over} /\ d.phase # "reload" /\ q \in ReloadsOf(d)
    BY <1>1, <2>1, AskedIsCall DEF Reloading, SameCall, ReloadsOf
  <2>3. QED
    BY <1>1, <2>2 DEF Reloading, d
<1>2. QED
  BY <1>1 DEF WillReload, Reloading

(* A call that goes on still reloads what it was going to, and a new one    *)
(* what its kind reloads.                                                   *)
LEMMA SetReloads ==
  ASSUME TypeOK, NEW m \in Call, NEW d, NEW q
  PROVE  /\ \A o : o # m /\ Reloading(o, q, call) => Reloading(o, q, [call EXCEPT ![m] = d])
         /\ d \notin {None, Over} /\ d.phase # "reload" /\ q \in ReloadsOf(d)
              => Reloading(m, q, [call EXCEPT ![m] = d])
         /\ WillReload(q, call) /\ (call[m] \in {None, Over} \/ q \notin ReloadsOf(call[m])
                                     \/ call[m].phase = "reload")
              => WillReload(q, [call EXCEPT ![m] = d])
         /\ d \notin {None, Over} /\ d.phase # "reload" /\ q \in ReloadsOf(d)
              => WillReload(q, [call EXCEPT ![m] = d])
PROOF
<1>1. DOMAIN call = Call
  BY DEF TypeOK
<1> DEFINE c == [call EXCEPT ![m] = d]
<1>2. c[m] = d /\ \A o \in Call \ {m} : c[o] = call[o]
  BY <1>1
<1> HIDE DEF c
<1>3. ASSUME WillReload(q, call),
             call[m] \in {None, Over} \/ q \notin ReloadsOf(call[m]) \/ call[m].phase = "reload"
      PROVE  WillReload(q, c)
  <2>1. PICK o \in Call : /\ call[o] \notin {None, Over} /\ call[o].phase # "reload"
                          /\ q \in ReloadsOf(call[o])
    BY <1>3 DEF WillReload
  <2>2. o # m
    BY <1>3, <2>1
  <2>3. QED
    BY <1>2, <2>1, <2>2 DEF WillReload
<1>4. ASSUME d \notin {None, Over}, d.phase # "reload", q \in ReloadsOf(d)
      PROVE  Reloading(m, q, c) /\ WillReload(q, c)
  BY <1>2, <1>4 DEF WillReload, Reloading
<1>5. \A o : o # m /\ Reloading(o, q, call) => Reloading(o, q, c)
  BY <1>2 DEF Reloading
<1>6. QED
  BY <1>3, <1>4, <1>5 DEF c

(* What is on its way or cached is an answer to its query, and a true one.   *)
LEMMA ComingTrue ==
  ASSUME TypeOK, CopiesTrue, NEW q \in Query, fetch[q] # Sent,
         Coming(fetch, cache, q) # None
  PROVE  LET x == Coming(fetch, cache, q)
         IN  x \in Answer(q) /\ TrueOf(server, q, x)
PROOF
<1>1. CASE fetch[q] = None
  BY <1>1 DEF Coming, TypeOK, Caches, CopiesTrue, CachesTrue
<1>2. CASE fetch[q] # None
  BY <1>2 DEF Coming, TypeOK, Fetches, CopiesTrue, FetchesTrue
<1>3. QED
  BY <1>1, <1>2

(* A true copy is older than the next change; only a ticket that is gone has *)
(* no copy, and only in the queue.                                           *)
LEMMA TrueIsOlder ==
  ASSUME TypeOK, NEW q \in Query, NEW x \in Answer(q), TrueOf(server, q, x)
  PROVE  /\ server.alive => x # Absent
         /\ x # Absent => x.n < Changes + 1
         /\ x = Absent => Current(server, q, x)
PROOF
<1>1. Changes \in Nat
  BY TicketTyped
<1>2. server.alive => x # Absent
  BY DEF TrueOf
<1>3. x # Absent => x.n < Changes + 1
  BY <1>1, CopyNumbered DEF TrueOf, Changes
<1>4. ASSUME x = Absent
      PROVE  Current(server, q, x)
  <2>1. q = "list"
    BY <1>4, AnswersAreData, PageAssumption DEF Query
  <2>2. ~server.alive
    BY <1>4 DEF TrueOf
  <2>3. QED
    BY <1>4, <2>1, <2>2 DEF Current
<1>5. QED
  BY <1>2, <1>3, <1>4

(* The page opens on the list, which is being fetched.                      *)
LEMMA FetchesAtFirst == Init => FetchesAreShown /\ ShownIsTracked
PROOF
<1> SUFFICES ASSUME Init PROVE FetchesAreShown /\ ShownIsTracked
  OBVIOUS
<1>1. Active = {"list"}
  <2>1. view = "queue"
    BY DEF Init
  <2>2. QED
    BY <2>1 DEF Active, ActiveIn, Shown
<1>2. \A q \in Query : fetch[q] = IF q = "list" THEN Sent ELSE None
  BY DEF Init
<1>3. QED
  BY <1>1, <1>2 DEF FetchesAreShown, ShownIsTracked, Tracked, Query

(* A query that leaves the page takes its fetch with it.                    *)
LEMMA FetchesStayShown == TypeOK /\ FetchesAreShown /\ [Next]_vars => FetchesAreShown'
PROOF
<1> SUFFICES ASSUME TypeOK, FetchesAreShown, [Next]_vars PROVE FetchesAreShown'
  OBVIOUS
<1>r. ASSUME NEW w, NEW c, NEW f, NEW flight, Render(w, c, f, flight)
      PROVE  FetchesAreShown'
  BY <1>r, RenderFetches DEF FetchesAreShown
<1>u. ASSUME UNCHANGED <<view, cache, fetch, failed>>
      PROVE  FetchesAreShown'
  BY <1>u DEF FetchesAreShown, Active
<1>1. ASSUME NEW w \in {"queue", "detail"}, Open(w)
      PROVE  FetchesAreShown'
  BY <1>1, <1>r DEF Open
<1>2. ASSUME Refresh
      PROVE  FetchesAreShown'
  BY <1>2, <1>r DEF Refresh
<1>3. ASSUME NEW q \in Query, ServeFetch(q)
      PROVE  FetchesAreShown'
  <2>1. q \in Active
    BY <1>3, PageAssumption DEF ServeFetch, FetchesAreShown
  <2>2. Active' = Active
    BY <1>3 DEF ServeFetch, Active
  <2>3. \A o \in Query \ {q} : fetch'[o] = fetch[o]
    BY <1>3 DEF ServeFetch, TypeOK, Fetches
  <2>4. QED
    BY <2>1, <2>2, <2>3 DEF FetchesAreShown
<1>4. ASSUME NEW q \in Query, Arrive(q)
      PROVE  FetchesAreShown'
  BY <1>4, <1>r DEF Arrive
<1>5. ASSUME NEW q \in Query, FailFetch(q)
      PROVE  FetchesAreShown'
  BY <1>5, <1>r DEF FailFetch
<1>6. ASSUME NEW m \in Call, Edit(m)
      PROVE  FetchesAreShown'
  BY <1>6, <1>r DEF Edit
<1>7. ASSUME NEW m \in Call, Delete(m)
      PROVE  FetchesAreShown'
  BY <1>7, <1>u DEF Delete
<1>8. ASSUME NEW m \in Call, Comment(m)
      PROVE  FetchesAreShown'
  BY <1>8, <1>u DEF Comment
<1>9. ASSUME NEW m \in Call, NEW kind \in Decision, Decide(m, kind)
      PROVE  FetchesAreShown'
  BY <1>9, <1>u DEF Decide
<1>10. ASSUME NEW m \in Call, NEW lost \in BOOLEAN, Accept(m, lost)
      PROVE  FetchesAreShown'
  <2>1. UNCHANGED <<view, cache, fetch, failed>>
    BY <1>10 DEF Accept
  <2>2. QED
    BY <1>u, <2>1
<1>11. ASSUME NEW m \in Call, Settle(m)
      PROVE  FetchesAreShown'
  <2>1. PICK f : Render(view, Answered(m), f, Invalidated(Reloads(m), Answered(m)))
    BY <1>11 DEF Settle
  <2>2. QED
    BY <1>r, <2>1
<1>12. ASSUME NEW m \in Call, Reloaded(m)
      PROVE  FetchesAreShown'
  BY <1>12, <1>u DEF Reloaded
<1>13. ASSUME Other
      PROVE  FetchesAreShown'
  BY <1>13, <1>u DEF Other
<1>14. CASE UNCHANGED vars
  BY <1>14, <1>u DEF vars
<1>15. QED
  BY <1>1, <1>2, <1>3, <1>4, <1>5, <1>6, <1>7, <1>8, <1>9, <1>10, <1>11, <1>12, <1>13,
     <1>14 DEF Next

-----------------------------------------------------------------------------
(* The history                                                               *)

(* A history that excuses as much or more of the same changes.               *)
Wider(h, g) == /\ g.changes = h.changes
               /\ h.unheard \subseteq g.unheard
               /\ \A q \in Query : h.left[q] \subseteq g.left[q]

LEMMA SameIsWider == \A h, g : g = h => Wider(h, g)
  BY DEF Wider

(* Then a copy misses the same changes, and what was excused still is.       *)
LEMMA WiderKeeps ==
  ASSUME NEW h, NEW g, Wider(h, g), NEW q \in Query, NEW x
  PROVE  /\ Missed(g, q, x) = Missed(h, q, x)
         /\ \A s : Settled(s, h, q, x) => Settled(s, g, q, x)
         /\ \A i : Excused(h, q, i) => Excused(g, q, i)
PROOF
<1>1. g.changes = h.changes /\ h.left[q] \subseteq g.left[q] /\ h.unheard \subseteq g.unheard
  BY DEF Wider
<1>2. Missed(g, q, x) = Missed(h, q, x)
  BY <1>1 DEF Missed
<1>3. \A s : Settled(s, h, q, x) => Settled(s, g, q, x)
  BY <1>2 DEF Settled
<1>4. \A i : Excused(h, q, i) => Excused(g, q, i)
  BY <1>1 DEF Excused
<1>5. QED
  BY <1>2, <1>3, <1>4

LEMMA FreshWider ==
  ASSUME NEW h, NEW g, Wider(h, g), NEW q \in Query, NEW s, NEW x, Fresh(s, h, q, x)
  PROVE  Fresh(s, g, q, x)
  BY WiderKeeps DEF Fresh

(* The thread, the proposal or the queue that a change is not to be shown in *)
(* is the same before and after it.                                          *)
LEMMA UntouchedStaysCurrent ==
  ASSUME TypeOK, CopiesTrue, NEW t,
         \/ Grown(server, t)
         \/ /\ t.versions = server.versions /\ t.thread = server.thread
            /\ t.proposal = server.proposal /\ t.marks = server.marks,
         NEW q \in Query, q \notin Touched(server, t), NEW x, Current(server, q, x)
  PROVE  Current(t, q, x)
PROOF
<1>1. /\ Len(server.versions) \in Nat
      /\ server.proposal \in Nat /\ server.proposal <= Len(server.versions)
  BY DEF TypeOK, Server, CopiesTrue, Changes
<1>2. CASE q = "list"
  BY <1>2 DEF Touched, Current
<1>3. CASE q = "detail"
  <2>1. Len(t.versions) = Len(server.versions)
    BY <1>3 DEF Touched
  <2>2. ~Grown(server, t)
    BY <1>1, <2>1 DEF Grown
  <2>3. QED
    BY <1>3, <2>2 DEF Current
<1>4. CASE q = "thread"
  BY <1>4 DEF Touched, Current
<1>5. CASE q = "proposal"
  <2>1. t.proposal = server.proposal
    BY <1>5 DEF Touched
  <2>2. Proposal(t) = Proposal(server)
    BY <1>1, <2>1 DEF Grown, Proposal
  <2>3. QED
    BY <1>5, <2>1, <2>2 DEF Current
<1>6. QED
  BY <1>2, <1>3, <1>4, <1>5 DEF Query

(* A change told of: a copy misses it if it is to show it, and is otherwise  *)
(* as current as before.                                                     *)
LEMMA TellingMisses ==
  ASSUME TypeOK, CopiesTrue, StoryTrue, server.alive, NEW t,
         \/ Grown(server, t)
         \/ /\ t.versions = server.versions /\ t.thread = server.thread
            /\ t.proposal = server.proposal /\ t.marks = server.marks,
         NEW c, c.of = Touched(server, t), NEW h,
         h.changes = Append(story.changes, c), h.left = story.left,
         story.unheard \subseteq h.unheard,
         NEW q \in Query, NEW x \in Answer(q), TrueOf(server, q, x),
         Settled(server, story, q, x)
  PROVE  /\ Settled(t, h, q, x)
         /\ \A i \in Missed(h, q, x) :
              \/ i \in Missed(story, q, x) /\ (Excused(story, q, i) => Excused(h, q, i))
              \/ i = Len(story.changes) + 1 /\ q \in c.of /\ h.changes[i] = c
PROOF
<1> DEFINE k == Len(story.changes) + 1
<1>1. /\ story.changes \in Seq(Change) /\ Len(story.changes) \in Nat
      /\ Len(story.changes) = Changes /\ Changes \in Nat
  BY TicketTyped DEF TypeOK, Story, StoryTrue
<1>2. /\ DOMAIN h.changes = 1..k /\ DOMAIN story.changes = 1..(k - 1)
      /\ h.changes[k] = c /\ \A i \in 1..(k - 1) : h.changes[i] = story.changes[i]
  BY <1>1
<1>3. x # Absent /\ x.n \in Nat /\ x.n < k
  BY <1>1, TrueIsOlder, CopyNumbered
<1> HIDE DEF k
<1>4. \A i \in Missed(h, q, x) :
        \/ i \in Missed(story, q, x) /\ (Excused(story, q, i) => Excused(h, q, i))
        \/ i = k /\ q \in c.of /\ h.changes[i] = c
  <2> SUFFICES ASSUME NEW i \in Missed(h, q, x), i # k
               PROVE  i \in Missed(story, q, x) /\ (Excused(story, q, i) => Excused(h, q, i))
    BY <1>2, <1>3 DEF Missed
  <2>1. i \in 1..(k - 1) /\ h.changes[i] = story.changes[i]
    BY <1>1, <1>2, <1>3 DEF Missed, k
  <2>2. i \in Missed(story, q, x)
    BY <1>2, <1>3, <2>1 DEF Missed
  <2>3. Excused(story, q, i) => Excused(h, q, i)
    BY <2>1 DEF Excused
  <2>4. QED
    BY <2>2, <2>3
<1>5. \A i \in Missed(story, q, x) : i \in Missed(h, q, x)
  BY <1>1, <1>2, <1>3 DEF Missed, k
<1>6. q \in c.of => k \in Missed(h, q, x)
  BY <1>1, <1>2, <1>3 DEF Missed, k
<1>7. Current(t, q, x) \/ Missed(h, q, x) # {}
  <2>1. CASE Missed(story, q, x) # {}
    BY <1>5, <2>1
  <2>2. CASE q \in c.of
    BY <1>6, <2>2
  <2>3. CASE Missed(story, q, x) = {} /\ q \notin c.of
    BY <2>3, UntouchedStaysCurrent DEF Settled
  <2>4. QED
    BY <2>1, <2>2, <2>3
<1>8. Settled(t, h, q, x)
  BY <1>7 DEF Settled
<1>9. QED
  BY <1>4, <1>8 DEF k

(* What a call that the server accepts tells: a copy that is to show it, and *)
(* is not reloaded once the call is answered, is excused.                    *)
LEMMA AcceptTells ==
  ASSUME TypeOK, CopiesTrue, StoryTrue, NEW m \in Call, NEW lost \in BOOLEAN,
         Accept(m, lost), TypeOK', NEW q \in Query
  PROVE  /\ \A o : Reloading(o, q, call) => Reloading(o, q, call')
         /\ \A x \in Answer(q) :
              TrueOf(server, q, x) /\ Settled(server, story, q, x) =>
                /\ Settled(server', story', q, x)
                /\ \A i \in Missed(story', q, x) :
                     \/ /\ i \in Missed(story, q, x)
                        /\ story'.changes[i] = story.changes[i]
                        /\ Excused(story, q, i) => Excused(story', q, i)
                     \/ Excused(story', q, i)
                     \/ story'.changes[i].by = m /\ Reloading(m, q, call')
PROOF
<1>1. /\ Asked(call[m]) /\ call[m].phase = "sent" /\ server' \in Outcomes(m)
      /\ server.alive /\ call[m].kind \in Kind
  BY CallsAsked, AskedIsCall DEF Accept
<1> DEFINE d == call'[m]
<1>2. call' = [call EXCEPT ![m] = d] /\ d.kind = call[m].kind
      /\ d.phase = (IF lost THEN "lost" ELSE "done") /\ d \notin {None, Over}
  <2>1. PICK ticket : ticket = Ticket'
    OBVIOUS
  <2>2. call' = [call EXCEPT ![m] = AcceptedAs(call[m], lost, ticket)] /\ DOMAIN call = Call
    BY <2>1 DEF Accept, AcceptedAs, TypeOK
  <2>3. d = AcceptedAs(call[m], lost, ticket)
    BY <2>2
  <2>4. Ticket' \in TicketCopy
    <3>1. server'.versions \in Seq(Nat) /\ server'.versions # <<>>
      BY DEF TypeOK, Server
    <3>2. Len(server'.versions) \in Nat /\ Last(server'.versions) \in Nat
      BY <3>1 DEF Last
    <3>3. QED
      BY <3>2 DEF Ticket, TicketCopy, Changes, Version
  <2>5. /\ Asked(d) /\ d.kind = call[m].kind
        /\ d.phase = (IF lost THEN "lost" ELSE "done")
    BY <1>1, <2>1, <2>3, <2>4, AcceptedCall
  <2>6. QED
    BY <2>2, <2>3, <2>5, AskedIsCall
<1> HIDE DEF d
<1>3. d.phase # "reload"
  BY <1>2
<1>4. q \in ReloadsOf(d) => Reloading(m, q, call')
  BY <1>2, <1>3, SetReloads
<1>5. \A o : Reloading(o, q, call) => Reloading(o, q, call')
  <2>1. Reloading(m, q, call) => q \in ReloadsOf(d)
    BY <1>1, <1>2 DEF Reloading, ReloadsOf
  <2>2. QED
    BY <1>2, <1>4, <2>1, SetReloads
<1> DEFINE c == [by |-> m, kind |-> call[m].kind, of |-> Touched(server, server')]
           u == IF lost /\ call[m].kind \in {"comment", "delete"}
                THEN story.unheard \cup {m} ELSE story.unheard
<1>6. /\ story'.changes = Append(story.changes, c) /\ story'.left = story.left
      /\ story'.unheard = u
  BY <1>1, AcceptStory
<1>7. c.by = m /\ c.kind = call[m].kind /\ c.of = Touched(server, server')
  OBVIOUS
<1>8. story.unheard \subseteq u
  OBVIOUS
<1>9. lost /\ call[m].kind \in {"comment", "delete"} => m \in u
  OBVIOUS
<1> HIDE DEF c, u
<1>10. \/ Grown(server, server') /\ call[m].kind # "delete"
       \/ /\ call[m].kind = "delete"
          /\ server'.versions = server.versions /\ server'.thread = server.thread
          /\ server'.proposal = server.proposal /\ server'.marks = server.marks
  BY <1>1, OutcomesGrow
<1>11. q \in c.of => \/ q \in ReloadsOf(d)
                     \/ lost /\ call[m].kind \in {"comment", "delete"}
                     \/ q = "proposal" /\ call[m].kind = "edit"
  <2> SUFFICES ASSUME q \in c.of, ~(lost /\ call[m].kind \in {"comment", "delete"}),
                      ~(q = "proposal" /\ call[m].kind = "edit")
               PROVE  q \in ReloadsOf(d)
    OBVIOUS
  <2>1. Kept(server)
    BY DEF TypeOK, Kept
  <2>2. CASE call[m].kind = "edit"
    BY <1>2, <2>2 DEF ReloadsOf, OnTickets
  <2>3. CASE call[m].kind \in Decision
    BY <1>2, <2>3 DEF ReloadsOf, Decision
  <2>4. CASE call[m].kind = "delete"
    <3>1. q = "list" \/ q \notin Touched(server, server')
      BY <1>10, <2>4 DEF Touched
    <3>2. QED
      BY <1>2, <1>7, <2>4, <3>1 DEF ReloadsOf, Decision, OnTickets, Query
  <2>5. CASE call[m].kind = "comment"
    <3>1. server' = Replied(server)
      BY <1>1, <2>5 DEF Outcomes
    <3>2. /\ server'.proposal = server.proposal /\ server'.alive = server.alive
          /\ Last(server'.versions) = Last(server.versions)
      BY <2>1, <3>1, EveryWriteGrows DEF Grown
    <3>3. q \in {"thread", "detail"}
      BY <1>7, <3>2 DEF Touched, Query
    <3>4. QED
      BY <1>2, <2>5, <3>3 DEF ReloadsOf, Decision
  <2>6. QED
    BY <1>1, <2>2, <2>3, <2>4, <2>5 DEF Kind, Decision
<1>12. ASSUME NEW x \in Answer(q), TrueOf(server, q, x), Settled(server, story, q, x)
       PROVE  /\ Settled(server', story', q, x)
              /\ \A i \in Missed(story', q, x) :
                   \/ /\ i \in Missed(story, q, x)
                      /\ story'.changes[i] = story.changes[i]
                      /\ Excused(story, q, i) => Excused(story', q, i)
                   \/ Excused(story', q, i)
                   \/ story'.changes[i].by = m /\ Reloading(m, q, call')
  <2>1. PICK t, h : t = server' /\ h = story'
    OBVIOUS
  <2>2. /\ Settled(t, h, q, x)
        /\ \A i \in Missed(h, q, x) :
             \/ i \in Missed(story, q, x) /\ (Excused(story, q, i) => Excused(h, q, i))
             \/ i = Len(story.changes) + 1 /\ q \in c.of /\ h.changes[i] = c
    BY <1>1, <1>6, <1>7, <1>8, <1>10, <1>12, <2>1, TellingMisses
  <2>3. ASSUME NEW i \in Missed(h, q, x), h.changes[i] = c, q \in c.of
        PROVE  Excused(h, q, i) \/ Reloading(m, q, call')
    BY <1>4, <1>6, <1>7, <1>9, <1>11, <2>1, <2>3 DEF Excused
  <2>4. \A i \in Missed(story, q, x) : h.changes[i] = story.changes[i]
    <3>1. story.changes \in Seq(Change)
      BY DEF TypeOK, Story
    <3>2. \A i \in Missed(story, q, x) : i \in 1..Len(story.changes)
      BY <3>1 DEF Missed
    <3>3. QED
      BY <1>6, <2>1, <3>1, <3>2
  <2>5. QED
    BY <1>7, <2>1, <2>2, <2>3, <2>4
<1>13. QED
  BY <1>5, <1>12

(* What others do is excused wherever it is missed.                          *)
LEMMA OtherTells ==
  ASSUME TypeOK, CopiesTrue, StoryTrue, Other, NEW q \in Query, NEW x \in Answer(q),
         TrueOf(server, q, x), Settled(server, story, q, x)
  PROVE  /\ Settled(server', story', q, x)
         /\ \A i \in Missed(story', q, x) :
              \/ /\ i \in Missed(story, q, x)
                 /\ story'.changes[i] = story.changes[i]
                 /\ Excused(story, q, i) => Excused(story', q, i)
              \/ Excused(story', q, i)
PROOF
<1> DEFINE c == [by |-> None, kind |-> None, of |-> Touched(server, server')]
<1>1. server.alive /\ Grown(server, server')
  BY OthersGrow DEF Other
<1>2. /\ story'.changes = Append(story.changes, c) /\ story'.left = story.left
      /\ story'.unheard = story.unheard
  BY OtherStory
<1>3. c.by = None /\ c.of = Touched(server, server')
  OBVIOUS
<1> HIDE DEF c
<1>4. PICK t, h : t = server' /\ h = story'
  OBVIOUS
<1>5. /\ Settled(t, h, q, x)
      /\ \A i \in Missed(h, q, x) :
           \/ i \in Missed(story, q, x) /\ (Excused(story, q, i) => Excused(h, q, i))
           \/ i = Len(story.changes) + 1 /\ q \in c.of /\ h.changes[i] = c
  BY <1>1, <1>2, <1>3, <1>4, TellingMisses
<1>6. \A i \in Missed(story, q, x) : h.changes[i] = story.changes[i]
  <2>1. story.changes \in Seq(Change)
    BY DEF TypeOK, Story
  <2>2. \A i \in Missed(story, q, x) : i \in 1..Len(story.changes)
    BY <2>1 DEF Missed
  <2>3. QED
    BY <1>2, <1>4, <2>1, <2>2
<1>7. \A i : h.changes[i] = c => Excused(h, q, i)
  BY <1>3 DEF Excused
<1>8. QED
  BY <1>4, <1>5, <1>6, <1>7

(* A call that is answered excuses its change where a first fetch is left to *)
(* run, and takes no reload of another call away.                            *)
LEMMA SettleTells ==
  ASSUME TypeOK, NEW m \in Call, Settle(m), NEW q \in Query
  PROVE  /\ Wider(story, story')
         /\ q \in Unrestarted(m, Answered(m)) => m \in story'.left[q]
         /\ \A o : o # m /\ Reloading(o, q, call) => Reloading(o, q, call')
PROOF
<1> DEFINE l == [o \in Query |-> IF o \in Unrestarted(m, Answered(m))
                                 THEN story.left[o] \cup {m} ELSE story.left[o]]
<1>1. story' = [story EXCEPT !.left = l]
  BY DEF Settle, TypeOK, Story
<1>2. /\ \A o \in Query : story.left[o] \subseteq l[o]
      /\ q \in Unrestarted(m, Answered(m)) => m \in l[q]
  OBVIOUS
<1> HIDE DEF l
<1>3. /\ story'.left = l /\ story'.changes = story.changes
      /\ story'.unheard = story.unheard
  BY <1>1 DEF TypeOK, Story
<1>4. PICK d : call' = [call EXCEPT ![m] = d]
  BY DEF Settle
<1>5. QED
  BY <1>2, <1>3, <1>4, SetReloads DEF Wider

(* What the server answers misses nothing.                                  *)
LEMMA ServedMissesNothing ==
  ASSUME TypeOK, StoryTrue, NEW q \in Query, server.alive \/ q = "list"
  PROVE  Settled(server, story, q, Served(q)) /\ Missed(story, q, Served(q)) = {}
PROOF
<1>1. /\ Ticket \in TicketCopy /\ Ticket.n = Changes /\ Ticket.version = Version
      /\ Ticket.shows = {} /\ Changes \in Nat
  BY TicketTyped
<1>2. story.changes \in Seq(Change) /\ server.thread \in Nat /\ server.proposal \in Nat
  BY DEF TypeOK, Story, Server
<1>3. DOMAIN story.changes = 1..Len(story.changes)
  BY <1>2
<1>4. ASSUME server.alive, q \in Copies
      PROVE  Settled(server, story, q, Served(q)) /\ Missed(story, q, Served(q)) = {}
  <2>1. Served(q) = Ticket
    BY <1>4 DEF Served, Copies
  <2>2. Current(server, q, Ticket)
    BY <1>1, <1>4 DEF Current, Copies, Ticket, Version, Changes
  <2>3. Missed(story, q, Ticket) = {}
    BY <1>1, <1>3, <1>4 DEF Missed, StoryTrue
  <2>4. QED
    BY <1>1, <2>1, <2>2, <2>3 DEF Settled
<1>5. CASE q = "list" /\ ~server.alive
  <2>1. Served(q) = Absent /\ Current(server, q, Absent)
    BY <1>5 DEF Served, Current
  <2>2. QED
    BY <2>1 DEF Settled, Missed
<1>6. CASE q = "thread"
  <2>1. Served(q) = [n |-> server.thread] /\ Served(q).n = server.thread
    BY <1>6 DEF Served
  <2>2. Current(server, q, Served(q)) /\ q \notin Copies
    BY <1>6, <2>1 DEF Current, Copies
  <2>3. Missed(story, q, Served(q)) = {}
    BY <1>2, <1>3, <1>6, <2>1 DEF Missed, StoryTrue
  <2>4. QED
    BY <2>2, <2>3 DEF Settled
<1>7. CASE q = "proposal"
  <2>1. /\ Served(q) = [n |-> server.proposal, run |-> Proposal(server).run,
                        open |-> Proposal(server).open]
        /\ Served(q).n = server.proposal
    BY <1>7 DEF Served
  <2>2. Current(server, q, Served(q)) /\ q \notin Copies
    BY <1>7, <2>1 DEF Current, Copies
  <2>3. Missed(story, q, Served(q)) = {}
    BY <1>2, <1>3, <1>7, <2>1 DEF Missed, StoryTrue
  <2>4. QED
    BY <2>2, <2>3 DEF Settled
<1>8. QED
  BY <1>4, <1>5, <1>6, <1>7 DEF Query, Copies

(* The history starts with the ticket as the page finds it.                 *)
LEMMA StoryAtFirst == Init => StoryTrue /\ AnswersSound
PROOF
<1> SUFFICES ASSUME Init PROVE StoryTrue /\ AnswersSound
  OBVIOUS
<1>1. /\ Len(server.versions) = 1 /\ Len(story.changes) = 1
      /\ DOMAIN story.changes = 1..1 /\ server.thread = 1 /\ server.proposal = 1
  BY DEF Init
<1>2. StoryTrue
  BY <1>1 DEF StoryTrue, Changes
<1>3. AnswersSound
  BY DEF Init, AnswersSound
<1>4. QED
  BY <1>2, <1>3

(* Every step that changes the ticket tells of it.                           *)
LEMMA StoryStaysTrue ==
  TypeOK /\ CopiesTrue /\ StoryTrue /\ [Next]_vars => StoryTrue'
PROOF
<1> SUFFICES ASSUME TypeOK, CopiesTrue, StoryTrue, [Next]_vars PROVE StoryTrue'
  OBVIOUS
<1>1. /\ story.changes \in Seq(Change) /\ Len(story.changes) \in Nat
      /\ Changes \in Nat /\ server.thread \in Nat /\ server.proposal \in Nat
      /\ server.thread <= Changes /\ server.proposal <= Changes
  BY TicketTyped DEF TypeOK, Story, Server, CopiesTrue
<1>s. ASSUME server' = server, story'.changes = story.changes
      PROVE  StoryTrue'
  BY <1>s DEF StoryTrue, Changes
<1>t. ASSUME server.alive, NEW c, c.of = Touched(server, server'),
             story'.changes = Append(story.changes, c),
             \/ Grown(server, server')
             \/ /\ server'.versions = server.versions /\ server'.thread = server.thread
                /\ server'.proposal = server.proposal /\ ~server'.alive
      PROVE  StoryTrue'
  <2> DEFINE k == Len(story.changes) + 1
  <2>1. Len(story.changes) = Changes
    BY <1>t DEF StoryTrue
  <2>2. /\ Len(story'.changes) = k /\ DOMAIN story'.changes = 1..k
        /\ story'.changes[k] = c
        /\ \A i \in 1..(k - 1) : story'.changes[i] = story.changes[i]
        /\ DOMAIN story.changes = 1..(k - 1)
    BY <1>1, <1>t
  <2>3. /\ Changes' \in {Changes, Changes + 1}
        /\ server'.alive => Changes' = Changes + 1
    BY <1>1, <1>t DEF Grown, Changes
  <2>4. /\ server'.thread \in {server.thread, k} /\ server'.proposal \in {server.proposal, k}
    BY <1>t, <2>1 DEF Grown, Changes
  <2>5. /\ "thread" \in c.of => server'.thread # server.thread
        /\ "proposal" \in c.of => server'.proposal # server.proposal
    BY <1>t DEF Touched
  <2>6. ASSUME NEW i \in DOMAIN story'.changes
        PROVE  /\ "thread" \in story'.changes[i].of => i <= server'.thread
               /\ "proposal" \in story'.changes[i].of => i <= server'.proposal
    <3>1. CASE i = k
      BY <1>1, <2>2, <2>4, <2>5, <3>1
    <3>2. CASE i # k
      <4>1. i \in 1..(k - 1) /\ i \in DOMAIN story.changes
        BY <1>1, <2>2, <2>6, <3>2
      <4>2. /\ "thread" \in story.changes[i].of => i <= server.thread
            /\ "proposal" \in story.changes[i].of => i <= server.proposal
        BY <4>1 DEF StoryTrue
      <4>3. server.thread <= server'.thread /\ server.proposal <= server'.proposal
        BY <1>1, <2>1, <2>4
      <4>4. server'.thread \in Nat /\ server'.proposal \in Nat
        BY <1>1, <2>4
      <4> HIDE DEF k
      <4>5. QED
        BY <1>1, <2>2, <4>1, <4>2, <4>3, <4>4
    <3>3. QED
      BY <3>1, <3>2
  <2>7. Changes' <= k /\ (server'.alive => k = Changes')
    BY <1>1, <2>1, <2>3
  <2> HIDE DEF k
  <2>8. QED
    BY <2>2, <2>6, <2>7 DEF StoryTrue
<1>2. ASSUME NEW m \in Call, NEW lost \in BOOLEAN, Accept(m, lost)
      PROVE  StoryTrue'
  <2> DEFINE c == [by |-> m, kind |-> call[m].kind, of |-> Touched(server, server')]
  <2>1. Asked(call[m]) /\ call[m].kind \in Kind /\ server' \in Outcomes(m) /\ server.alive
    BY <1>2, CallsAsked, AskedIsCall DEF Accept
  <2>5. story'.changes = Append(story.changes, c)
    BY <1>2, <2>1, AcceptStory
  <2>6. c.of = Touched(server, server')
    OBVIOUS
  <2> HIDE DEF c
  <2>7. QED
    BY <1>t, <2>1, <2>5, <2>6, OutcomesGrow
<1>3. ASSUME Other
      PROVE  StoryTrue'
  <2> DEFINE c == [by |-> None, kind |-> None, of |-> Touched(server, server')]
  <2>1. story'.changes = Append(story.changes, c) /\ c.of = Touched(server, server')
    BY <1>3, OtherStory
  <2>2. server.alive /\ Grown(server, server')
    BY <1>3, OthersGrow DEF Other
  <2> HIDE DEF c
  <2>3. QED
    BY <1>t, <2>1, <2>2
<1>4. ASSUME NEW m \in Call, Settle(m)
      PROVE  StoryTrue'
  <2>1. "list" \in Query /\ server' = server
    BY <1>4 DEF Settle, Query
  <2>2. story'.changes = story.changes
    BY <1>4, <2>1, SettleTells DEF Wider
  <2>3. QED
    BY <1>s, <2>1, <2>2
<1>5. CASE UNCHANGED <<server, story>>
  BY <1>5, <1>s
<1>6. QED
  BY <1>2, <1>3, <1>4, <1>5 DEF Next, vars, Open, Refresh, ServeFetch, Arrive, FailFetch,
     Edit, Delete, Comment, Decide, Reloaded

(* An answer on its way, if the ticket is the same and no call gave up its   *)
(* reload but by excusing its change, is as sound as before.                 *)
LEMMA AnswersKept ==
  ASSUME TypeOK, AnswersSound, server' = server, Wider(story, story'),
         \A q \in Query : fetch'[q] \in {None, Sent, fetch[q]},
         \A q \in Query : \A m :
           /\ fetch[q] \notin {None, Sent} /\ fetch'[q] = fetch[q]
           /\ Reloading(m, q, call)
           => Reloading(m, q, call') \/ m \in story'.left[q]
  PROVE  AnswersSound'
PROOF
<1> SUFFICES ASSUME NEW q \in Query, fetch'[q] \notin {None, Sent}
             PROVE  Sound(server', story', call', q, fetch'[q])
  BY DEF AnswersSound
<1>1. PICK x : x = fetch[q]
  OBVIOUS
<1>2. fetch'[q] = x /\ Sound(server, story, call, q, x) /\ fetch[q] \notin {None, Sent}
  BY <1>1 DEF AnswersSound
<1>3. /\ Missed(story', q, x) = Missed(story, q, x)
      /\ Settled(server, story', q, x)
      /\ \A i : Excused(story, q, i) => Excused(story', q, i)
  BY <1>2, WiderKeeps DEF Sound
<1>4. ASSUME NEW i \in Missed(story', q, x)
      PROVE  Excused(story', q, i) \/ Reloading(story'.changes[i].by, q, call')
  <2>1. Excused(story, q, i) \/ Reloading(story.changes[i].by, q, call)
    BY <1>2, <1>3 DEF Sound
  <2>2. story'.changes = story.changes
    BY DEF Wider
  <2>3. CASE Reloading(story.changes[i].by, q, call)
    <3>1. \/ Reloading(story.changes[i].by, q, call')
          \/ story.changes[i].by \in story'.left[q]
      BY <1>1, <1>2, <2>3
    <3>2. QED
      BY <2>2, <3>1 DEF Excused
  <2>4. QED
    BY <1>3, <2>1, <2>3
<1>5. QED
  BY <1>2, <1>3, <1>4 DEF Sound

(* Every step keeps them sound.                                              *)
LEMMA AnswersStaySound ==
  TypeOK /\ CopiesTrue /\ StoryTrue /\ AnswersSound /\ [Next]_vars => AnswersSound'
PROOF
<1> SUFFICES ASSUME TypeOK, CopiesTrue, StoryTrue, AnswersSound, [Next]_vars
             PROVE  AnswersSound'
  OBVIOUS
<1>0. DOMAIN fetch = Query /\ DOMAIN call = Call
  BY DEF TypeOK, Fetches
<1>r. ASSUME NEW w, NEW c, NEW f, NEW flight, Render(w, c, f, flight)
      PROVE  \A q \in Query : fetch'[q] \in {None, Sent, flight[q]}
  BY <1>r DEF Render
<1>u. \A kinds, m, q : Reloading(m, q, call) => Reloading(m, q, Unmounted(kinds))
  BY UnmountedReloads
<1>i. \A qs, c : \A q \in Query : Invalidated(qs, c)[q] \in {Sent, fetch[q]}
  BY DEF Invalidated
<1>e. \A m \in Call : \A d, q, o :
        call[m] \in {None, Over} /\ Reloading(o, q, call)
          => Reloading(o, q, [call EXCEPT ![m] = d])
  BY SetReloads DEF Reloading
<1>1. ASSUME NEW w \in {"queue", "detail"}, Open(w)
      PROVE  AnswersSound'
  <2>1. \A q \in Query : fetch'[q] \in {None, Sent, fetch[q]}
    BY <1>1, <1>r DEF Open
  <2>2. \A m, q : Reloading(m, q, call) => Reloading(m, q, call')
    BY <1>1, <1>u DEF Open
  <2>3. server' = server /\ Wider(story, story')
    BY <1>1, SameIsWider DEF Open
  <2>4. QED
    BY <2>1, <2>2, <2>3, AnswersKept
<1>2. ASSUME Refresh
      PROVE  AnswersSound'
  <2>1. \A q \in Query : fetch'[q] \in {None, Sent, fetch[q]}
    <3>1. Render(view, cache, failed, Invalidated({"list"}, cache))
      BY <1>2 DEF Refresh
    <3>2. QED
      BY <1>i, <1>r, <3>1
  <2>2. call' = call /\ server' = server /\ Wider(story, story')
    BY <1>2, SameIsWider DEF Refresh
  <2>3. QED
    BY <2>1, <2>2, AnswersKept
<1>3. ASSUME NEW q \in Query, ServeFetch(q)
      PROVE  AnswersSound'
  <2>1. server' = server /\ story' = story /\ call' = call
    BY <1>3 DEF ServeFetch
  <2>2. Settled(server, story, q, Served(q)) /\ Missed(story, q, Served(q)) = {}
    BY <1>3, ServedMissesNothing DEF ServeFetch
  <2>3. PICK x : x = Served(q)
    OBVIOUS
  <2>4. Sound(server, story, call, q, x)
    BY <2>2, <2>3 DEF Sound
  <2>5. fetch'[q] = x /\ \A o \in Query \ {q} : fetch'[o] = fetch[o]
    BY <1>0, <1>3, <2>3 DEF ServeFetch
  <2>6. ASSUME NEW o \in Query, fetch'[o] \notin {None, Sent}
        PROVE  Sound(server, story, call, o, fetch'[o])
    BY <2>4, <2>5, <2>6 DEF AnswersSound
  <2>7. QED
    BY <2>1, <2>6 DEF AnswersSound
<1>4. ASSUME NEW q \in Query, Arrive(q)
      PROVE  AnswersSound'
  <2>1. \A o \in Query : fetch'[o] \in {None, Sent, fetch[o]}
    <3>1. PICK g : g = [fetch EXCEPT ![q] = None]
      OBVIOUS
    <3>2. \A o \in Query : fetch'[o] \in {None, Sent, g[o]}
      BY <1>4, <1>r, <3>1 DEF Arrive
    <3>3. QED
      BY <1>0, <3>1, <3>2
  <2>2. \A m, o : Reloading(m, o, call) => Reloading(m, o, call')
    BY <1>4, <1>u DEF Arrive
  <2>3. server' = server /\ Wider(story, story')
    BY <1>4, SameIsWider DEF Arrive
  <2>4. QED
    BY <2>1, <2>2, <2>3, AnswersKept
<1>5. ASSUME NEW q \in Query, FailFetch(q)
      PROVE  AnswersSound'
  <2>1. \A o \in Query : fetch'[o] \in {None, Sent, fetch[o]}
    <3>1. PICK g : g = [fetch EXCEPT ![q] = None]
      OBVIOUS
    <3>2. \A o \in Query : fetch'[o] \in {None, Sent, g[o]}
      BY <1>5, <1>r, <3>1 DEF FailFetch
    <3>3. QED
      BY <1>0, <3>1, <3>2
  <2>2. \A m, o : Reloading(m, o, call) => Reloading(m, o, call')
    BY <1>5, <1>u DEF FailFetch
  <2>3. server' = server /\ Wider(story, story')
    BY <1>5, SameIsWider DEF FailFetch
  <2>4. QED
    BY <2>1, <2>2, <2>3, AnswersKept
<1>6. ASSUME NEW m \in Call, Edit(m)
      PROVE  AnswersSound'
  <2>1. \A o \in Query : fetch'[o] \in {None, Sent, fetch[o]}
    <3>1. PICK g : g = [q \in Query |-> IF q \in OnTickets THEN None ELSE fetch[q]]
      OBVIOUS
    <3>2. \A o \in Query : fetch'[o] \in {None, Sent, g[o]}
      BY <1>6, <1>r, <3>1 DEF Edit
    <3>3. QED
      BY <3>1, <3>2
  <2>2. \A o, q : Reloading(o, q, call) => Reloading(o, q, call')
    BY <1>6, <1>e DEF Edit, Send
  <2>3. server' = server /\ Wider(story, story')
    BY <1>6, SameIsWider DEF Edit
  <2>4. QED
    BY <2>1, <2>2, <2>3, AnswersKept
<1>s. ASSUME NEW m \in Call, call[m] \in {None, Over}, NEW d, call' = [call EXCEPT ![m] = d],
             UNCHANGED <<fetch, server, story>>
      PROVE  AnswersSound'
  <2>1. \A o, q : Reloading(o, q, call) => Reloading(o, q, call')
    BY <1>s, <1>e
  <2>2. QED
    BY <1>s, <2>1, AnswersKept, SameIsWider
<1>7. ASSUME NEW m \in Call, Delete(m)
      PROVE  AnswersSound'
  BY <1>7, <1>s DEF Delete, Send
<1>8. ASSUME NEW m \in Call, Comment(m)
      PROVE  AnswersSound'
  BY <1>8, <1>s DEF Comment, Send
<1>9. ASSUME NEW m \in Call, NEW kind \in Decision, Decide(m, kind)
      PROVE  AnswersSound'
  BY <1>9, <1>s DEF Decide, Send
<1>c. ASSUME UNCHANGED fetch, NEW q \in Query, fetch[q] \notin {None, Sent}
      PROVE  fetch[q] \in Answer(q) /\ TrueOf(server, q, fetch[q])
             /\ Sound(server, story, call, q, fetch[q])
  BY <1>c DEF TypeOK, Fetches, CopiesTrue, FetchesTrue, AnswersSound
<1>10. ASSUME NEW m \in Call, NEW lost \in BOOLEAN, Accept(m, lost)
      PROVE  AnswersSound'
  <2>1. fetch' = fetch /\ TypeOK'
    BY <1>10, TypesKept DEF Accept, Next
  <2> SUFFICES ASSUME NEW q \in Query, fetch[q] \notin {None, Sent}
               PROVE  Sound(server', story', call', q, fetch[q])
    BY <2>1 DEF AnswersSound
  <2>2. PICK x : x = fetch[q]
    OBVIOUS
  <2>3. x \in Answer(q) /\ TrueOf(server, q, x) /\ Sound(server, story, call, q, x)
    BY <1>c, <2>1, <2>2
  <2>4. /\ \A o : Reloading(o, q, call) => Reloading(o, q, call')
        /\ Settled(server', story', q, x)
        /\ \A i \in Missed(story', q, x) :
             \/ /\ i \in Missed(story, q, x)
                /\ story'.changes[i] = story.changes[i]
                /\ Excused(story, q, i) => Excused(story', q, i)
             \/ Excused(story', q, i)
             \/ story'.changes[i].by = m /\ Reloading(m, q, call')
    BY <1>10, <2>1, <2>3, AcceptTells DEF Sound
  <2>5. ASSUME NEW i \in Missed(story', q, x)
        PROVE  Excused(story', q, i) \/ Reloading(story'.changes[i].by, q, call')
    BY <2>3, <2>4 DEF Sound
  <2>6. QED
    BY <2>2, <2>4, <2>5 DEF Sound
<1>11. ASSUME NEW m \in Call, Settle(m)
      PROVE  AnswersSound'
  <2>1. PICK f : Render(view, Answered(m), f, Invalidated(Reloads(m), Answered(m)))
    BY <1>11 DEF Settle
  <2>2. \A q \in Query : fetch'[q] \in {None, Sent, fetch[q]}
    BY <1>i, <1>r, <2>1
  <2>3. "list" \in Query /\ server' = server
    BY <1>11 DEF Settle, Query
  <2>4. Wider(story, story')
    BY <1>11, <2>3, SettleTells
  <2>5. ASSUME NEW q \in Query, NEW o, fetch[q] \notin {None, Sent}, fetch'[q] = fetch[q],
               Reloading(o, q, call)
        PROVE  Reloading(o, q, call') \/ o \in story'.left[q]
    <3>1. CASE o # m
      BY <1>11, <2>5, <3>1, SettleTells
    <3>2. CASE o = m
      <4>1. q \in Reloads(m)
        BY <2>5, <3>2, CallsAsked, ReloadsKnown DEF Reloading
      <4>2. CASE Answered(m)[q] = None
        <5>1. q \in Unrestarted(m, Answered(m))
          BY <2>5, <4>1, <4>2 DEF Unrestarted
        <5>2. QED
          BY <1>11, <3>2, <5>1, SettleTells
      <4>3. CASE Answered(m)[q] # None
        <5>1. Invalidated(Reloads(m), Answered(m))[q] = Sent
          BY <4>1, <4>3 DEF Invalidated
        <5>2. fetch'[q] \in {None, Sent}
          BY <1>r, <2>1, <5>1
        <5>3. QED
          BY <2>5, <5>2
      <4>4. QED
        BY <4>2, <4>3
    <3>3. QED
      BY <3>1, <3>2
  <2>6. QED
    BY <2>2, <2>3, <2>4, <2>5, AnswersKept
<1>12. ASSUME NEW m \in Call, Reloaded(m)
      PROVE  AnswersSound'
  <2>1. ~\E q : Reloading(m, q, call)
    BY <1>12 DEF Reloaded, Reloading
  <2>2. \A o, q : Reloading(o, q, call) => Reloading(o, q, call')
    BY <1>12, <2>1, SetReloads DEF Reloaded
  <2>3. UNCHANGED <<fetch, server, story>>
    BY <1>12 DEF Reloaded
  <2>4. QED
    BY <2>2, <2>3, AnswersKept, SameIsWider
<1>13. ASSUME Other
      PROVE  AnswersSound'
  <2>1. fetch' = fetch /\ call' = call
    BY <1>13 DEF Other
  <2> SUFFICES ASSUME NEW q \in Query, fetch[q] \notin {None, Sent}
               PROVE  Sound(server', story', call', q, fetch[q])
    BY <2>1 DEF AnswersSound
  <2>2. PICK x : x = fetch[q]
    OBVIOUS
  <2>3. x \in Answer(q) /\ TrueOf(server, q, x) /\ Sound(server, story, call, q, x)
    BY <1>c, <2>1, <2>2
  <2>4. /\ Settled(server', story', q, x)
        /\ \A i \in Missed(story', q, x) :
             \/ /\ i \in Missed(story, q, x)
                /\ story'.changes[i] = story.changes[i]
                /\ Excused(story, q, i) => Excused(story', q, i)
             \/ Excused(story', q, i)
    BY <1>13, <2>3, OtherTells DEF Sound
  <2>5. ASSUME NEW i \in Missed(story', q, x)
        PROVE  Excused(story', q, i) \/ Reloading(story'.changes[i].by, q, call')
    BY <2>1, <2>3, <2>4 DEF Sound
  <2>6. QED
    BY <2>2, <2>4, <2>5 DEF Sound
<1>14. CASE UNCHANGED vars
  BY <1>14, AnswersKept, SameIsWider DEF vars
<1>15. QED
  BY <1>1, <1>2, <1>3, <1>4, <1>5, <1>6, <1>7, <1>8, <1>9, <1>10, <1>11, <1>12, <1>13,
     <1>14 DEF Next

-----------------------------------------------------------------------------
(* Tracking: one lemma for each kind of step                                 *)

(* A query whose cache, fetch and reloads a rendering leaves alone, or that  *)
(* is fetched anew, stays tracked.                                           *)
LEMMA RenderTracks ==
  ASSUME TypeOK, FetchesAreShown, ShownIsTracked,
         NEW w, NEW c, NEW f, NEW flight, Render(w, c, f, flight),
         NEW q \in Active', server' = server, Wider(story, story'),
         WillReload(q, call) => WillReload(q, call'),
         q \in failed => q \in f, c[q] = cache[q], flight[q] \in {fetch[q], Sent}
  PROVE  Tracked(q)'
PROOF
<1>1. /\ q \in Query /\ cache' = c /\ failed' = f
      /\ flight[q] # None => fetch'[q] = flight[q]
      /\ q \in Active => fetch'[q] = flight[q]
      /\ q \notin Active /\ flight[q] = None => fetch'[q] = Sent
  BY RenderFetches
<1>2. CASE flight[q] = Sent
  BY <1>1, <1>2, PageAssumption DEF Tracked
<1>3. CASE flight[q] = fetch[q] /\ q \notin Active
  BY <1>1, <1>3 DEF Tracked, FetchesAreShown
<1>4. CASE flight[q] = fetch[q] /\ q \in Active
  <2>1. Tracked(q)
    BY <1>4 DEF ShownIsTracked
  <2>2. fetch'[q] = fetch[q] /\ cache'[q] = cache[q] /\ (q \in failed => q \in failed')
    BY <1>1, <1>4
  <2>3. Coming(fetch', cache', q) = Coming(fetch, cache, q)
    BY <2>2 DEF Coming
  <2>4. \A x : Fresh(server, story, q, x) => Fresh(server', story', q, x)
    <3>1. \A x : Fresh(server, story, q, x) => Fresh(server, story', q, x)
      BY <1>1, FreshWider
    <3>2. QED
      BY <3>1
  <2>5. QED
    BY <2>1, <2>2, <2>3, <2>4 DEF Tracked
<1>5. QED
  BY <1>2, <1>3, <1>4

(* A change on the server leaves a query tracked whose data are still the    *)
(* server's, older than what others changed, or reloaded by the call that    *)
(* made the change.                                                          *)
LEMMA ChangeTracks ==
  ASSUME TypeOK, CopiesTrue, ShownIsTracked, UNCHANGED <<view, cache, fetch, failed>>,
         NEW q \in Active', WillReload(q, call) => WillReload(q, call'),
         ASSUME NEW x \in Answer(q), TrueOf(server, q, x), Fresh(server, story, q, x)
         PROVE  Fresh(server', story', q, x) \/ WillReload(q, call')
  PROVE  Tracked(q)'
PROOF
<1>1. q \in Active /\ q \in Query
  BY ActiveAreQueries DEF Active
<1>2. Tracked(q)
  BY <1>1 DEF ShownIsTracked
<1>3. CASE fetch[q] # Sent /\ Fresh(server, story, q, Coming(fetch, cache, q))
  <2>1. Coming(fetch, cache, q) # None
    BY <1>3 DEF Fresh
  <2>2. PICK x : x = Coming(fetch, cache, q)
    OBVIOUS
  <2>3. x \in Answer(q) /\ TrueOf(server, q, x) /\ Fresh(server, story, q, x)
    BY <1>1, <1>3, <2>1, <2>2, ComingTrue
  <2>4. Fresh(server', story', q, x) \/ WillReload(q, call')
    BY <2>3
  <2>5. Coming(fetch', cache', q) = x
    BY <2>2 DEF Coming
  <2>6. QED
    BY <2>4, <2>5 DEF Tracked
<1>4. CASE ~(fetch[q] # Sent /\ Fresh(server, story, q, Coming(fetch, cache, q)))
  BY <1>2, <1>4 DEF Tracked
<1>5. QED
  BY <1>3, <1>4

(* Going to another view fetches what comes into view.                      *)
LEMMA OpenTracks ==
  ASSUME TypeOK, FetchesAreShown, ShownIsTracked, NEW w \in {"queue", "detail"}, Open(w)
  PROVE  ShownIsTracked'
PROOF
<1>1. /\ Render(w, cache, failed, fetch) /\ server' = server /\ story' = story
      /\ call' = Unmounted(Decision \cup {"comment"})
  BY DEF Open
<1>2. \A q : WillReload(q, call) => WillReload(q, call')
  BY <1>1, UnmountedReloads
<1>3. QED
  BY <1>1, <1>2, RenderTracks, SameIsWider DEF ShownIsTracked

(* A refresh of the list loses no fetch that is needed.                     *)
LEMMA RefreshTracks ==
  ASSUME TypeOK, FetchesAreShown, ShownIsTracked, Refresh
  PROVE  ShownIsTracked'
PROOF
<1> DEFINE flight == Invalidated({"list"}, cache)
<1>1. /\ Render(view, cache, failed, flight) /\ server' = server
      /\ story' = story /\ call' = call
  BY DEF Refresh
<1>2. \A q \in Query : flight[q] \in {fetch[q], Sent}
  BY DEF Invalidated
<1>3. Active' \subseteq Query
  BY <1>1, RenderFetches
<1> HIDE DEF flight
<1>4. QED
  BY <1>1, <1>2, <1>3, RenderTracks, SameIsWider DEF ShownIsTracked

(* An answer read by the server is as good as the fetch that is under way.  *)
LEMMA ServeTracks ==
  ASSUME TypeOK, StoryTrue, FetchesAreShown, ShownIsTracked, NEW q \in Query, ServeFetch(q)
  PROVE  ShownIsTracked'
PROOF
<1> SUFFICES ASSUME NEW o \in Active' PROVE Tracked(o)'
  BY DEF ShownIsTracked
<1>1. /\ UNCHANGED <<view, cache, failed, server, story, call>>
      /\ fetch' = [fetch EXCEPT ![q] = Served(q)]
      /\ DOMAIN fetch = Query
  BY DEF ServeFetch, TypeOK, Fetches
<1>2. o \in Active /\ o \in Query
  BY <1>1, ActiveAreQueries DEF Active
<1>3. CASE o = q
  <2>1. Served(q) \in Answer(q)
    BY ServedTyped
  <2>2. Served(q) # None /\ fetch'[q] = Served(q)
    BY <1>1, <2>1, AnswersAreData, PageAssumption DEF Query
  <2>3. Settled(server, story, q, Served(q)) /\ Missed(story, q, Served(q)) = {}
    BY ServedMissesNothing DEF ServeFetch
  <2>4. Fresh(server', story', o, Coming(fetch', cache', o))
    BY <1>1, <1>3, <2>2, <2>3 DEF Fresh, Settled, Current, Missed, Coming, Proposal
  <2>5. QED
    BY <2>4 DEF Tracked
<1>4. CASE o # q
  <2>1. fetch'[o] = fetch[o]
    BY <1>1, <1>2, <1>4
  <2>2. Coming(fetch', cache', o) = Coming(fetch, cache, o)
    BY <1>1, <2>1 DEF Coming
  <2>3. Tracked(o)
    BY <1>2 DEF ShownIsTracked
  <2>4. QED
    BY <1>1, <2>1, <2>2, <2>3 DEF Tracked
<1>5. QED
  BY <1>3, <1>4

(* What an answer brings is fresh, or a change since is still to be         *)
(* reloaded.                                                                *)
LEMMA ArriveTracks ==
  ASSUME TypeOK, FetchesAreShown, ShownIsTracked, NEW q \in Query, Arrive(q)
  PROVE  ShownIsTracked'
PROOF
<1> SUFFICES ASSUME NEW o \in Active' PROVE Tracked(o)'
  BY DEF ShownIsTracked
<1> DEFINE c == [cache EXCEPT ![q] = fetch[q]]
           flight == [fetch EXCEPT ![q] = None]
<1>1. /\ Render(view, c, failed \ {q}, flight) /\ server' = server /\ story' = story
      /\ fetch[q] \notin {None, Sent}
  BY DEF Arrive
<1>2. \A x : WillReload(x, call) => WillReload(x, call')
  BY UnmountedReloads DEF Arrive
<1>3. /\ DOMAIN cache = Query /\ DOMAIN fetch = Query /\ o \in Query
      /\ c[q] = fetch[q] /\ flight[q] = None
  BY <1>1, RenderFetches DEF TypeOK, Caches, Fetches
<1>4. CASE o = q
  <2>1. q \in Active
    BY <1>1 DEF FetchesAreShown
  <2>2. Tracked(q)
    BY <2>1 DEF ShownIsTracked
  <2>3. fetch'[q] = None /\ cache'[q] = fetch[q]
    BY <1>1, <1>3, <1>4, <2>1, RenderFetches
  <2>4. Coming(fetch', cache', q) = Coming(fetch, cache, q)
    BY <1>1, <2>3 DEF Coming
  <2>5. WillReload(q, call) \/ Fresh(server, story, q, Coming(fetch, cache, q))
    BY <1>1, <2>2 DEF Tracked
  <2>6. QED
    BY <1>1, <1>2, <1>4, <2>4, <2>5 DEF Tracked
<1>5. CASE o # q
  <2>1. c[o] = cache[o] /\ flight[o] = fetch[o]
    BY <1>3, <1>5
  <2> HIDE DEF c, flight
  <2>2. QED
    BY <1>1, <1>2, <1>5, <2>1, RenderTracks, SameIsWider
<1>6. QED
  BY <1>4, <1>5

(* A query whose fetch failed says so.                                      *)
LEMMA FailTracks ==
  ASSUME TypeOK, FetchesAreShown, ShownIsTracked, NEW q \in Query, FailFetch(q)
  PROVE  ShownIsTracked'
PROOF
<1> SUFFICES ASSUME NEW o \in Active' PROVE Tracked(o)'
  BY DEF ShownIsTracked
<1> DEFINE flight == [fetch EXCEPT ![q] = None]
<1>1. /\ Render(view, cache, failed \cup {q}, flight) /\ server' = server
      /\ story' = story /\ fetch[q] = Sent
  BY DEF FailFetch
<1>2. \A x : WillReload(x, call) => WillReload(x, call')
  BY UnmountedReloads DEF FailFetch
<1>3. DOMAIN fetch = Query /\ o \in Query /\ flight[q] = None
  BY <1>1, RenderFetches DEF TypeOK, Fetches
<1>4. CASE o = q
  <2>1. q \in Active
    BY <1>1, PageAssumption DEF FetchesAreShown
  <2> HIDE DEF flight
  <2>2. fetch'[q] = None
    BY <1>1, <1>3, <1>4, <2>1, RenderFetches
  <2>3. q \in failed'
    BY <1>1, RenderFetches
  <2>4. QED
    BY <1>4, <2>2, <2>3 DEF Tracked
<1>5. CASE o # q
  <2>1. flight[o] = fetch[o]
    BY <1>3, <1>5
  <2> HIDE DEF flight
  <2>2. QED
    BY <1>1, <1>2, <1>5, <2>1, RenderTracks, SameIsWider
<1>6. QED
  BY <1>4, <1>5

(* The fetches an edit cancels are those its own reload starts again.       *)
LEMMA EditTracks ==
  ASSUME TypeOK, FetchesAreShown, ShownIsTracked, NEW m \in Call, Edit(m)
  PROVE  ShownIsTracked'
PROOF
<1> SUFFICES ASSUME NEW q \in Active' PROVE Tracked(q)'
  BY DEF ShownIsTracked
<1> DEFINE flight == [o \in Query |-> IF o \in OnTickets THEN None ELSE fetch[o]]
           d == [kind |-> "edit", on |-> cache[Displayed],
                 snapshot |-> [o \in OnTickets |-> cache[o]], since |-> Changes,
                 phase |-> "sent", here |-> TRUE]
<1>1. /\ Render(view, PatchCached(m, None), Unfailed(cache, Copies), flight)
      /\ server' = server /\ story' = story /\ call[m] = None
      /\ call' = [call EXCEPT ![m] = d]
  BY DEF Edit, Send
<1>2. q \in Query
  BY <1>1, RenderFetches
<1>3. call'[m] = d
  BY <1>1 DEF TypeOK
<1>4. d.kind = "edit" /\ d.phase = "sent"
  OBVIOUS
<1> HIDE DEF d
<1>5. CASE q \in OnTickets
  <2>1. d \notin {None, Over}
    <3>1. Asked(d)
      <4>1. /\ Displayed \in {"list", "detail"} /\ Holds(cache, Displayed)
        BY DEF Edit, Controls, Displayed
      <4>2. cache[Displayed] \in TicketCopy
        BY <4>1, AnswersAreData DEF Holds, TypeOK, Caches, Query
      <4>3. /\ [o \in OnTickets |-> cache[o]] \in [OnTickets -> Datum]
            /\ \A o \in OnTickets : [x \in OnTickets |-> cache[x]][o] \in Answer(o) \cup {None}
        BY DEF TypeOK, Caches, OnTickets
      <4>4. PICK s : s = [o \in OnTickets |-> cache[o]]
        OBVIOUS
      <4>5. d = [kind |-> "edit", on |-> cache[Displayed], snapshot |-> s, since |-> Changes,
                 phase |-> "sent", here |-> TRUE]
        BY <4>4 DEF d
      <4>6. s \in [OnTickets -> Datum] /\ \A o \in OnTickets : s[o] \in Answer(o) \cup {None}
        BY <4>3, <4>4
      <4>7. QED
        BY <4>2, <4>5, <4>6, MadeCall, TicketTyped DEF Kind
    <3>2. QED
      BY <3>1, AskedIsCall
  <2>2. WillReload(q, call')
    BY <1>1, <1>4, <1>5, <2>1, SetReloads DEF ReloadsOf
  <2>3. QED
    BY <2>2 DEF Tracked
<1>6. CASE q \notin OnTickets
  <2>1. flight[q] = fetch[q]
    BY <1>2, <1>6
  <2>2. q \notin Copies
    BY <1>6 DEF Copies, OnTickets, Query
  <2>3. PatchCached(m, None)[q] = cache[q]
    BY <1>2, <2>2 DEF PatchCached, Holds
  <2>4. q \in failed => q \in Unfailed(cache, Copies)
    BY <2>2 DEF Unfailed
  <2>5. WillReload(q, call) => WillReload(q, call')
    BY <1>1, SetReloads
  <2> HIDE DEF flight
  <2>6. QED
    BY <1>1, <2>1, <2>3, <2>4, <2>5, RenderTracks, SameIsWider
<1>7. QED
  BY <1>5, <1>6

(* A call that is made carries no reload yet, and takes none away.           *)
LEMMA SendTracks ==
  ASSUME TypeOK, ShownIsTracked, NEW m \in Call, call[m] = None,
         NEW kind, NEW on, Send(m, kind, on, None),
         UNCHANGED <<view, cache, fetch, failed, server, story>>
  PROVE  ShownIsTracked'
PROOF
<1> DEFINE d == [kind |-> kind, on |-> on, snapshot |-> None,
                 since |-> IF kind = "edit" THEN Changes ELSE 0, phase |-> "sent",
                 here |-> TRUE]
<1>1. call' = [call EXCEPT ![m] = d]
  BY DEF Send
<1> HIDE DEF d
<1>2. \A q : WillReload(q, call) => WillReload(q, call')
  BY <1>1, SetReloads
<1>3. Active' = Active
  BY DEF Active
<1>4. QED
  BY <1>2, <1>3 DEF ShownIsTracked, Tracked

(* A call the server accepts: what it changed is reloaded once it is         *)
(* answered, or it was lost and counts as the change of another.             *)
LEMMA AcceptTracks ==
  ASSUME TypeOK, CopiesTrue, StoryTrue, ShownIsTracked, NEW m \in Call,
         NEW lost \in BOOLEAN, Accept(m, lost), TypeOK'
  PROVE  ShownIsTracked'
PROOF
<1> SUFFICES ASSUME NEW q \in Active' PROVE Tracked(q)'
  BY DEF ShownIsTracked
<1>1. /\ UNCHANGED <<view, cache, fetch, failed>> /\ q \in Query
      /\ \A o : Reloading(o, q, call) => Reloading(o, q, call')
  BY AcceptTells, ActiveAreQueries DEF Accept, Active
<1>2. WillReload(q, call) => WillReload(q, call')
  BY <1>1 DEF WillReload, Reloading
<1>3. ASSUME NEW x \in Answer(q), TrueOf(server, q, x), Fresh(server, story, q, x)
      PROVE  Fresh(server', story', q, x) \/ WillReload(q, call')
  <2>1. Settled(server, story, q, x) /\ x # None
    BY <1>3 DEF Fresh
  <2>2. /\ Settled(server', story', q, x)
        /\ \A i \in Missed(story', q, x) :
             \/ i \in Missed(story, q, x) /\ (Excused(story, q, i) => Excused(story', q, i))
             \/ Excused(story', q, i)
             \/ Reloading(m, q, call')
    BY <1>1, <1>3, <2>1, AcceptTells
  <2>3. CASE Reloading(m, q, call')
    BY <2>3 DEF WillReload, Reloading
  <2>4. CASE ~Reloading(m, q, call')
    BY <1>3, <2>1, <2>2, <2>4 DEF Fresh
  <2>5. QED
    BY <2>3, <2>4
<1>4. QED
  BY <1>1, <1>2, <1>3, ChangeTracks

(* What others change is excused wherever it shows.                          *)
LEMMA OtherTracks ==
  ASSUME TypeOK, CopiesTrue, StoryTrue, ShownIsTracked, Other
  PROVE  ShownIsTracked'
PROOF
<1> SUFFICES ASSUME NEW q \in Active' PROVE Tracked(q)'
  BY DEF ShownIsTracked
<1>1. UNCHANGED <<view, cache, fetch, failed, call>> /\ q \in Query
  BY ActiveAreQueries DEF Other, Active
<1>2. WillReload(q, call) => WillReload(q, call')
  BY <1>1
<1>3. ASSUME NEW x \in Answer(q), TrueOf(server, q, x), Fresh(server, story, q, x)
      PROVE  Fresh(server', story', q, x) \/ WillReload(q, call')
  <2>1. Settled(server, story, q, x) /\ x # None
    BY <1>3 DEF Fresh
  <2>2. /\ Settled(server', story', q, x)
        /\ \A i \in Missed(story', q, x) :
             \/ i \in Missed(story, q, x) /\ (Excused(story, q, i) => Excused(story', q, i))
             \/ Excused(story', q, i)
    BY <1>1, <1>3, <2>1, OtherTells
  <2>3. QED
    BY <1>3, <2>1, <2>2 DEF Fresh
<1>4. QED
  BY <1>1, <1>2, <1>3, ChangeTracks

(* Outside of what it reloads, the answer of a call changes nothing shown.   *)
LEMMA AnsweredElsewhere ==
  ASSUME TypeOK, NEW m \in Call, Asked(call[m]), NEW q \in Query,
         q \notin Reloads(m)
  PROVE  /\ Answered(m)[q] = cache[q]
         /\ call[m].kind = "edit" => q \notin OnTickets
PROOF
<1>1. CASE call[m].kind # "edit"
  BY <1>1 DEF Answered
<1>2. CASE call[m].kind = "edit"
  <2>1. q \notin OnTickets
    BY <1>2, ReloadsKnown DEF ReloadsOf
  <2>2. q \notin Copies
    BY <2>1 DEF Copies, OnTickets, Query
  <2>3. \A answer : PatchCached(m, answer)[q] = cache[q]
    BY <2>2 DEF PatchCached, Holds
  <2>4. \A snapshot : Restored(snapshot)[q] = cache[q]
    BY <2>1 DEF Restored
  <2>5. QED
    BY <2>1, <2>3, <2>4 DEF Answered
<1>3. QED
  BY <1>1, <1>2

(* A call that is answered: what it reloads is fetched, or the first fetch   *)
(* that is left to run misses its change, which it then excuses, and changes *)
(* that are excused or whose call is still to reload the query.              *)
LEMMA SettleTracks ==
  ASSUME TypeOK, CopiesTrue, AnswersSound, FetchesAreShown, ShownIsTracked, NEW m \in Call,
         Settle(m)
  PROVE  ShownIsTracked'
PROOF
<1> SUFFICES ASSUME NEW q \in Active' PROVE Tracked(q)'
  BY DEF ShownIsTracked
<1>1. Asked(call[m]) /\ call[m].phase # "reload" /\ server' = server
  BY CallsAsked DEF Settle
<1>2. PICK c : c = Answered(m)
  OBVIOUS
<1>3. PICK f : /\ f = (IF call[m].kind # "edit" THEN failed
                       ELSE IF call[m].phase = "done" THEN Unfailed(c, Copies)
                       ELSE Unfailed(call[m].snapshot, OnTickets))
               /\ Render(view, c, f, Invalidated(Reloads(m), c))
  BY <1>2 DEF Settle
<1>4. PICK flight : flight = Invalidated(Reloads(m), c)
  OBVIOUS
<1>5. Render(view, c, f, flight)
  BY <1>3, <1>4
<1>6. /\ q \in Query
      /\ flight[q] # None => fetch'[q] = flight[q]
  BY <1>5, RenderFetches
<1>7. flight[q] = IF q \in Reloads(m) /\ (fetch[q] = None \/ c[q] # None)
                  THEN Sent ELSE fetch[q]
  BY <1>4, <1>6 DEF Invalidated
<1>8. /\ Wider(story, story')
      /\ q \in Unrestarted(m, c) => m \in story'.left[q]
      /\ \A o : o # m /\ Reloading(o, q, call) => Reloading(o, q, call')
  BY <1>2, <1>6, SettleTells
<1>9. CASE q \in Reloads(m) /\ (fetch[q] = None \/ c[q] # None)
  BY <1>6, <1>7, <1>9, PageAssumption DEF Tracked
<1>10. CASE q \in Reloads(m) /\ fetch[q] # None /\ c[q] = None
  <2>1. fetch'[q] = fetch[q]
    BY <1>6, <1>7, <1>10
  <2>2. m \in story'.left[q]
    BY <1>6, <1>8, <1>10 DEF Unrestarted
  <2>3. CASE fetch[q] = Sent
    BY <2>1, <2>3 DEF Tracked
  <2>4. CASE fetch[q] # Sent
    <3>1. Sound(server, story, call, q, fetch[q])
      BY <1>6, <1>10, <2>4 DEF AnswersSound
    <3>2. PICK x : x = fetch[q]
      OBVIOUS
    <3>3. /\ Missed(story', q, x) = Missed(story, q, x)
          /\ Settled(server', story', q, x)
          /\ \A i : Excused(story, q, i) => Excused(story', q, i)
          /\ story'.changes = story.changes
      BY <1>1, <1>6, <1>8, <3>1, <3>2, WiderKeeps DEF Sound, Wider
    <3>4. ASSUME NEW i \in Missed(story', q, x), ~Excused(story', q, i)
          PROVE  WillReload(q, call')
      <4>1. Reloading(story.changes[i].by, q, call)
        BY <3>1, <3>2, <3>3, <3>4 DEF Sound
      <4>2. story.changes[i].by # m
        BY <2>2, <3>3, <3>4 DEF Excused
      <4>3. QED
        BY <1>8, <4>1, <4>2 DEF WillReload, Reloading
    <3>5. Coming(fetch', cache', q) = x
      BY <1>10, <2>1, <3>2 DEF Coming
    <3>6. QED
      BY <1>10, <3>2, <3>3, <3>4, <3>5 DEF Tracked, Fresh
  <2>5. QED
    BY <2>3, <2>4
<1>11. CASE q \notin Reloads(m)
  <2>1. /\ c[q] = cache[q]
        /\ call[m].kind = "edit" => q \notin OnTickets
    BY <1>1, <1>2, <1>6, <1>11, AnsweredElsewhere
  <2>2. flight[q] = fetch[q]
    BY <1>7, <1>11
  <2>3. q \in failed => q \in f
    BY <1>3, <2>1 DEF Unfailed, Copies, OnTickets, Query
  <2>4. q \notin ReloadsOf(call[m])
    BY <1>1, <1>11, ReloadsKnown
  <2>5. WillReload(q, call) => WillReload(q, call')
    <3>1. PICK d : call' = [call EXCEPT ![m] = d]
      BY DEF Settle
    <3>2. QED
      BY <2>4, <3>1, SetReloads
  <2>6. QED
    BY <1>1, <1>5, <1>8, <2>1, <2>2, <2>3, <2>5, RenderTracks
<1>12. QED
  BY <1>9, <1>10, <1>11

(* No step leaves a shown query out of date with nothing on its way.        *)
LEMMA StaysTracked ==
  /\ TypeOK /\ CopiesTrue /\ StoryTrue /\ AnswersSound /\ FetchesAreShown /\ ShownIsTracked
  /\ [Next]_vars
  => ShownIsTracked'
PROOF
<1> SUFFICES ASSUME TypeOK, CopiesTrue, StoryTrue, AnswersSound, FetchesAreShown,
                    ShownIsTracked, [Next]_vars
             PROVE  ShownIsTracked'
  OBVIOUS
<1>1. ASSUME NEW w \in {"queue", "detail"}, Open(w)
      PROVE  ShownIsTracked'
  BY <1>1, OpenTracks
<1>2. ASSUME Refresh
      PROVE  ShownIsTracked'
  BY <1>2, RefreshTracks
<1>3. ASSUME NEW q \in Query, ServeFetch(q)
      PROVE  ShownIsTracked'
  BY <1>3, ServeTracks
<1>4. ASSUME NEW q \in Query, Arrive(q)
      PROVE  ShownIsTracked'
  BY <1>4, ArriveTracks
<1>5. ASSUME NEW q \in Query, FailFetch(q)
      PROVE  ShownIsTracked'
  BY <1>5, FailTracks
<1>6. ASSUME NEW m \in Call, Edit(m)
      PROVE  ShownIsTracked'
  BY <1>6, EditTracks
<1>7. ASSUME NEW m \in Call, Delete(m)
      PROVE  ShownIsTracked'
  BY <1>7, SendTracks DEF Delete
<1>8. ASSUME NEW m \in Call, Comment(m)
      PROVE  ShownIsTracked'
  BY <1>8, SendTracks DEF Comment
<1>9. ASSUME NEW m \in Call, NEW kind \in Decision, Decide(m, kind)
      PROVE  ShownIsTracked'
  BY <1>9, SendTracks DEF Decide
<1>10. ASSUME NEW m \in Call, NEW lost \in BOOLEAN, Accept(m, lost)
      PROVE  ShownIsTracked'
  <2>1. TypeOK'
    BY TypesKept
  <2>2. QED
    BY <1>10, <2>1, AcceptTracks
<1>11. ASSUME NEW m \in Call, Settle(m)
      PROVE  ShownIsTracked'
  BY <1>11, SettleTracks
<1>12. ASSUME NEW m \in Call, Reloaded(m)
      PROVE  ShownIsTracked'
  <2>1. \A q : WillReload(q, call) => WillReload(q, call')
    BY <1>12, SetReloads DEF Reloaded
  <2>2. UNCHANGED <<view, cache, fetch, failed, server, story>>
    BY <1>12 DEF Reloaded
  <2>3. Active' = Active
    BY <2>2 DEF Active
  <2>4. QED
    BY <2>1, <2>2, <2>3 DEF ShownIsTracked, Tracked
<1>13. ASSUME Other
      PROVE  ShownIsTracked'
  BY <1>13, OtherTracks
<1>14. CASE UNCHANGED vars
  <2>1. Active' = Active
    BY <1>14 DEF vars, Active
  <2>2. QED
    BY <1>14, <2>1 DEF vars, ShownIsTracked, Tracked
<1>15. QED
  BY <1>1, <1>2, <1>3, <1>4, <1>5, <1>6, <1>7, <1>8, <1>9, <1>10, <1>11, <1>12, <1>13,
     <1>14 DEF Next

-----------------------------------------------------------------------------

(* When no fetch and no call is open, the page lacks only the changes that    *)
(* Excused names, one by one, and shows no edit that was not answered,        *)
(* wherever it does not say it failed: whatever the order in which answers,   *)
(* refusals and views came and went, no other change of the page was lost     *)
(* from it and no rolled back copy is left.                                   *)
THEOREM QuietPageIsCurrent == Spec => []QuietShowsServer
PROOF
<1> DEFINE IInv == /\ TypeOK /\ CopiesTrue /\ StoryTrue /\ AnswersSound
                   /\ FetchesAreShown /\ ShownIsTracked
<1>1. Init => IInv
  BY TypesAtFirst, CopiesAtFirst, StoryAtFirst, FetchesAtFirst
<1>2. IInv /\ [Next]_vars => IInv'
  BY TypesKept, CopiesKept, StoryStaysTrue, AnswersStaySound, FetchesStayShown, StaysTracked
<1>3. IInv => QuietShowsServer
  <2> SUFFICES ASSUME IInv, Quiet, NEW q \in Active \ failed
               PROVE  /\ cache[q] # None
                      /\ q \in Copies /\ cache[q] # Absent => cache[q].shows = {}
                      /\ \A i \in Missed(story, q, cache[q]) : Excused(story, q, i)
                      /\ Missed(story, q, cache[q]) = {} => UpToDate(q)
    BY DEF QuietShowsServer
  <2>1. q \in Query
    BY ActiveAreQueries DEF Active
  <2>2. fetch[q] = None
    BY <2>1 DEF Quiet
  <2>3. ~WillReload(q, call)
    BY DEF Quiet, WillReload
  <2>4. Fresh(server, story, q, cache[q])
    BY <2>2, <2>3, PageAssumption DEF ShownIsTracked, Tracked, Coming
  <2>5. Current(server, q, cache[q]) => UpToDate(q)
    <3>1. CASE q = "list"
      BY <3>1 DEF Current, UpToDate, Version
    <3>2. CASE q = "detail"
      BY <3>2 DEF Current, UpToDate, Served, Ticket, Version, Changes
    <3>3. CASE q = "thread"
      BY <3>3 DEF Current, UpToDate, Served
    <3>4. CASE q = "proposal"
      BY <3>4 DEF Current, UpToDate, Served
    <3>5. QED
      BY <2>1, <3>1, <3>2, <3>3, <3>4 DEF Query
  <2>6. QED
    BY <2>4, <2>5 DEF Fresh, Settled
<1>4. QED
  BY <1>1, <1>2, <1>3, PTL DEF Spec

-----------------------------------------------------------------------------
(* Queue, beside the address of TicketFilters. The person turns a page of    *)
(* the list under its own filters, and whatever else changes the filters     *)
(* starts again from the first page.                                         *)

CONSTANTS Entry, FirstStatus, PageSize

VARIABLES text, due, debounced, listFetch, cached, last, listFailed, adding, tickets,
          chosen, missed, acts

Q == INSTANCE Queue WITH Ticket <- Entry, fetch <- listFetch, failed <- listFailed,
                         moves <- acts

SearchText == Word \cup {All}
Creation == [ticket : Entry, filters : Filters, phase : {"sent", "stored", "answered"},
             awaits : BOOLEAN]

(* What the proof needs of the types: the address is one, and so is the one  *)
(* a creation was sent under.                                                *)
AddressTyped ==
  /\ url \in Filters
  /\ text \in SearchText /\ debounced \in SearchText
  /\ adding \in Creation \cup {None}

QueueIInv == AddressTyped /\ PageOfTheseFilters

-----------------------------------------------------------------------------

(* A changed filter, and a page turned to, make an address of an address.    *)
LEMMA FiltersChanged ==
  ASSUME NEW f \in Filters
  PROVE  /\ \A s \in SearchText : /\ [f EXCEPT !["search"] = s, !.page = 1] \in Filters
                                  /\ [f EXCEPT !["search"] = s, !.page = 1].page = 1
         /\ \A s \in Status \cup {All} : /\ [f EXCEPT !["status"] = s, !.page = 1] \in Filters
                                         /\ [f EXCEPT !["status"] = s, !.page = 1].page = 1
         /\ \A p \in 1..MaxPage : Q!SetPage(f, p) \in Filters
         /\ Q!SetPage(f, 1) \in Filters /\ Q!SetPage(f, 1).page = 1
PROOF
<1>1. 1 \in 1..MaxPage
  BY FiltersAssumption DEF Filters
<1>2. \A s \in SearchText : /\ [f EXCEPT !["search"] = s, !.page = 1] \in Filters
                            /\ [f EXCEPT !["search"] = s, !.page = 1].page = 1
  BY <1>1 DEF Filters, SearchText
<1>3. \A s \in Status \cup {All} : /\ [f EXCEPT !["status"] = s, !.page = 1] \in Filters
                                   /\ [f EXCEPT !["status"] = s, !.page = 1].page = 1
  BY <1>1 DEF Filters
<1>4. \A p \in 1..MaxPage : Q!SetPage(f, p) \in Filters /\ Q!SetPage(f, p).page = p
  BY DEF Filters, Q!SetPage
<1>5. QED
  BY <1>1, <1>2, <1>3, <1>4

(* A creation that is waited for, or not any more, is the same creation.     *)
LEMMA CreationKept ==
  ASSUME adding \in Creation \cup {None}
  PROVE  /\ \A f : Q!Unawaited(f) \in Creation \cup {None}
         /\ Q!Arrived \in Creation \cup {None}
         /\ adding # None => /\ [adding EXCEPT !.phase = "stored"] \in Creation
                             /\ [adding EXCEPT !.phase = "answered", !.awaits = TRUE] \in Creation
                             /\ adding.filters \in Filters
PROOF
<1>1. adding \in Creation => /\ [adding EXCEPT !.awaits = FALSE] \in Creation
                             /\ [adding EXCEPT !.phase = "stored"] \in Creation
                             /\ [adding EXCEPT !.phase = "answered", !.awaits = TRUE] \in Creation
                             /\ adding.filters \in Filters
  BY DEF Creation
<1>2. QED
  BY <1>1 DEF Q!Unawaited, Q!Arrived

(* The invariant holds at first.                                            *)
LEMMA QueueAtFirst == Q!Init => QueueIInv
PROOF
<1> SUFFICES ASSUME Q!Init PROVE QueueIInv
  OBVIOUS
<1>1. url \in Filters
  BY FiltersAssumption DEF Q!Init, Filters
<1>2. url.search \in SearchText
  BY <1>1 DEF Filters, SearchText
<1>3. QED
  BY <1>1, <1>2 DEF Q!Init, QueueIInv, AddressTyped, PageOfTheseFilters

(* Every step keeps it.                                                     *)
LEMMA QueueKept == QueueIInv /\ [Q!Next]_(Q!vars) => QueueIInv'
PROOF
<1> SUFFICES ASSUME QueueIInv, [Q!Next]_(Q!vars) PROVE QueueIInv'
  OBVIOUS
<1>0. /\ url \in Filters /\ text \in SearchText /\ debounced \in SearchText
      /\ adding \in Creation \cup {None}
      /\ url.page > 1 => turned = url
  BY DEF QueueIInv, AddressTyped, PageOfTheseFilters
<1>b. \A f : Q!GoTo(f) => url' = f
  BY DEF Q!GoTo
<1>1. ASSUME NEW s \in Word \cup {All}, Q!Type(s)
      PROVE  QueueIInv'
  BY <1>0, <1>1 DEF Q!Type, SearchText, QueueIInv, AddressTyped, PageOfTheseFilters
<1>2. ASSUME Q!Debounce
      PROVE  QueueIInv'
  BY <1>0, <1>2 DEF Q!Debounce, QueueIInv, AddressTyped, PageOfTheseFilters
<1>3. ASSUME Q!ApplySearch
      PROVE  QueueIInv'
  <2>1. url' = [url EXCEPT !["search"] = debounced, !.page = 1]
    BY <1>3, <1>b DEF Q!ApplySearch, Q!SetFilter
  <2>2. url' \in Filters /\ url'.page = 1
    BY <1>0, <2>1, FiltersChanged
  <2>3. adding' \in Creation \cup {None} /\ text' = text /\ debounced' = debounced
    BY <1>0, <1>3, CreationKept DEF Q!ApplySearch
  <2>4. QED
    BY <1>0, <2>2, <2>3 DEF QueueIInv, AddressTyped, PageOfTheseFilters
<1>4. ASSUME NEW s \in Status \cup {All}, Q!Choose(s)
      PROVE  QueueIInv'
  <2>1. url' = [url EXCEPT !["status"] = s, !.page = 1]
    BY <1>4, <1>b DEF Q!Choose, Q!SetFilter
  <2>2. url' \in Filters /\ url'.page = 1
    BY <1>0, <2>1, FiltersChanged
  <2>3. adding' \in Creation \cup {None} /\ text' = text /\ debounced' = debounced
    BY <1>0, <1>4, CreationKept DEF Q!Choose
  <2>4. QED
    BY <1>0, <2>2, <2>3 DEF QueueIInv, AddressTyped, PageOfTheseFilters
<1>5. ASSUME NEW p \in 1..MaxPage, Q!Turn(p)
      PROVE  QueueIInv'
  <2>1. url' = Q!SetPage(url, p) /\ turned' = url'
    BY <1>5, <1>b DEF Q!Turn
  <2>2. url' \in Filters
    BY <1>0, <2>1, FiltersChanged
  <2>3. adding' \in Creation \cup {None} /\ text' = text /\ debounced' = debounced
    BY <1>0, <1>5, CreationKept DEF Q!Turn
  <2>4. QED
    BY <1>0, <2>1, <2>2, <2>3 DEF QueueIInv, AddressTyped, PageOfTheseFilters
<1>6. ASSUME NEW f \in Address, Q!Follow(f)
      PROVE  QueueIInv'
  <2>1. url' = f /\ turned' = f
    BY <1>6, <1>b DEF Q!Follow
  <2>2. f \in Filters
    BY FiltersAssumption DEF Filters
  <2>3. adding' \in Creation \cup {None} /\ text' = text /\ debounced' = debounced
    BY <1>0, <1>6, CreationKept DEF Q!Follow
  <2>4. QED
    BY <1>0, <2>1, <2>2, <2>3 DEF QueueIInv, AddressTyped, PageOfTheseFilters
<1>7. ASSUME Q!Refresh
      PROVE  QueueIInv'
  BY <1>0, <1>7 DEF Q!Refresh, QueueIInv, AddressTyped, PageOfTheseFilters
<1>8. ASSUME Q!ServeList
      PROVE  QueueIInv'
  BY <1>0, <1>8 DEF Q!ServeList, QueueIInv, AddressTyped, PageOfTheseFilters
<1>9. ASSUME Q!ListArrives
      PROVE  QueueIInv'
  <2>1. UNCHANGED <<url, turned, text, debounced>> /\ adding' = Q!Arrived
    BY <1>9 DEF Q!ListArrives
  <2>2. QED
    BY <1>0, <2>1, CreationKept DEF QueueIInv, AddressTyped, PageOfTheseFilters
<1>10. ASSUME Q!ListFails
      PROVE  QueueIInv'
  <2>1. UNCHANGED <<url, turned, text, debounced>> /\ adding' = Q!Arrived
    BY <1>10 DEF Q!ListFails
  <2>2. QED
    BY <1>0, <2>1, CreationKept DEF QueueIInv, AddressTyped, PageOfTheseFilters
<1>11. ASSUME NEW t \in Entry, Q!Submit(t)
      PROVE  QueueIInv'
  <2>1. /\ UNCHANGED <<url, turned, text, debounced>>
        /\ adding' = [ticket |-> t, filters |-> url, phase |-> "sent", awaits |-> FALSE]
    BY <1>11 DEF Q!Submit
  <2>2. adding' \in Creation
    BY <1>0, <2>1 DEF Creation
  <2>3. QED
    BY <1>0, <2>1, <2>2 DEF QueueIInv, AddressTyped, PageOfTheseFilters
<1>12. ASSUME Q!Create
      PROVE  QueueIInv'
  <2>1. /\ UNCHANGED <<url, turned, text, debounced>> /\ adding # None
        /\ adding' = [adding EXCEPT !.phase = "stored"]
    BY <1>12 DEF Q!Create
  <2>2. QED
    BY <1>0, <2>1, CreationKept DEF QueueIInv, AddressTyped, PageOfTheseFilters
<1>13. ASSUME Q!CreateAnswered
      PROVE  QueueIInv'
  <2>1. /\ UNCHANGED <<url, turned, text, debounced>> /\ adding # None
        /\ adding' = [adding EXCEPT !.phase = "answered", !.awaits = TRUE]
    BY <1>13 DEF Q!CreateAnswered
  <2>2. QED
    BY <1>0, <2>1, CreationKept DEF QueueIInv, AddressTyped, PageOfTheseFilters
<1>14. ASSUME Q!ShowFirstPage
      PROVE  QueueIInv'
  <2>1. url' = Q!SetPage(adding.filters, 1) /\ adding # None
    BY <1>14, <1>b DEF Q!ShowFirstPage
  <2>2. adding.filters \in Filters
    BY <1>0, <2>1, CreationKept
  <2>3. url' \in Filters /\ url'.page = 1
    BY <2>1, <2>2, FiltersChanged
  <2>4. adding' = None /\ text' = text /\ debounced' = debounced
    BY <1>14 DEF Q!ShowFirstPage
  <2>5. QED
    BY <1>0, <2>3, <2>4 DEF QueueIInv, AddressTyped, PageOfTheseFilters
<1>15. ASSUME Q!CreateRefused
      PROVE  QueueIInv'
  BY <1>0, <1>15 DEF Q!CreateRefused, QueueIInv, AddressTyped, PageOfTheseFilters
<1>16. ASSUME Q!CreateLost
      PROVE  QueueIInv'
  BY <1>0, <1>16 DEF Q!CreateLost, QueueIInv, AddressTyped, PageOfTheseFilters
<1>17. CASE UNCHANGED Q!vars
  <2>1. UNCHANGED <<url, turned, text, debounced, adding>>
    BY <1>17 DEF Q!vars
  <2>2. QED
    BY <1>0, <2>1 DEF QueueIInv, AddressTyped, PageOfTheseFilters
<1>18. QED
  BY <1>1, <1>2, <1>3, <1>4, <1>5, <1>6, <1>7, <1>8, <1>9, <1>10, <1>11, <1>12, <1>13,
     <1>14, <1>15, <1>16, <1>17 DEF Q!Next

(* A page after the first is one the person turned to under these filters:   *)
(* no search, choice of a filter, link, Back or created ticket carries the   *)
(* page number of one list over to another.                                  *)
THEOREM PagesBelong == Q!Spec => []PageOfTheseFilters
PROOF
<1>1. QueueIInv => PageOfTheseFilters
  BY DEF QueueIInv
<1>2. QED
  BY <1>1, QueueAtFirst, QueueKept, PTL DEF Q!Spec

=============================================================================
