# Formal model of the IT ticketing system

TLA+ modules that model the IT ticketing system, TLC configurations that check them on small
instances, and theorems about them with proofs checked by TLAPS. Paths below are relative to the
repository; `server/` stands for `src/server/`, `client/` for `src/client/`.

- [1. The system](#1-the-system): components, state, operations, how they interact, what is hard
- [2. Modules](#2-modules): what models what, and how state and actions correspond to code
- [3. Runs](#3-runs): what each run checks, its bounds, its fairness
- [4. Findings and notes](#4-findings-and-notes): where the code does not do what the repository
  says, and what a reader may not expect
- [5. Proofs](#5-proofs): the theorems and their arguments
- [6. Not modelled](#6-not-modelled)
- [7. Plan](#7-plan)

## 1. The system

A service desk: an Express API over MongoDB, a React client, a worker process for scheduled
jobs, and an agent that triages tickets and drafts replies through the same API. Several API
processes and workers run at once and share nothing but the database. MongoDB makes a single
document update, and a transaction, atomic; the driver repeats a transaction that conflicts with
another. An offline command evaluates the agent on labelled tickets.

| Component | State | Operations | What makes it correct |
| --- | --- | --- | --- |
| Ticket service (`server/services/ticketService.ts`, `server/repositories/ticketRepository.ts`) | the ticket: status, priority, assignee, deadline, resolution date, SLA markers, agent sub-document, history, `__v` | create, edit (with or without `If-Match`), delete, list | no write over a version that was not read; history and events tell what happened; every writer follows the workflow table, not only edits |
| Ticket rules (`server/domain/`) | none | transitions, timestamps, permissions, triage credit, SLA plan, events | their tables; the resolution date follows the status |
| Comments (`commentService.ts`) | comments; the ticket's status | post, with the resumption of a ticket that waits on its requester; removal with the ticket | comment, entry and event commit together; a resumption happens only from `pending-user` |
| SLA job (`slaService.ts`) | markers and priority of overdue tickets | mark at risk, mark breached and raise the priority | once per ticket, with jobs overlapping |
| Proposals (`proposalService.ts`) | `agent.proposalStatus`, `agent.lastRunId` | load, approve (posts the reply), reject | one decision per proposal |
| Agent's calls (`agentEscalationService.ts`, `agentResolutionService.ts`) | the ticket and its agent sub-document | hand over to a group, answer alone | never answers a finished ticket alone, nor a second time with nothing said in between (section 4 has where it can answer twice) |
| Outbox (`outboxService.ts`, `outboxRepository.ts`) | events: status, attempts, due time, lock | enqueue (in the change's transaction), claim, deliver, retry, give up, revive | every event ends; none is lost; duplicates have a cause |
| Agent worker and runs (`agentWorkerService.ts`, `agentRunRepository.ts`, `domain/agentBreaker.ts`) | runs, the agent's outbox events | claim, begin, record, finish, take over | a version of a ticket is run once; cost and attempts are bounded; a result once recorded stays |
| Agent loop and tools (`server/agent/`) | one run, in memory | turns, budgets, tools, the loop's own hand-over | a run does what its mode allows, concludes once, records what it did, and ends |
| Agent settings (`agentSettingsService.ts`, `domain/agentPolicy.ts`, `client/pages/AdminAgentPage.tsx`) | kill switch, modes, allowlist, limits; each admin's page and form | read over defaults, update a part | nobody starts or stops the agent without meaning to; a form saves what it showed |
| Sessions and users (`sessionService.ts`, `userService.ts`) | refresh tokens by family, roles, the admin guard | sign in, refresh, sign out, change a role | one working token per sign-in; an ended session stays ended; there is always an admin |
| Browser sessions (`client/api.ts`, `client/auth/`) | access token, cookie, a refresh in progress | shared refresh, restore, sign out | the tab's own calls never end its session |
| Ticket page (`client/queries/`, `TicketDetailPage.tsx`) | cached ticket, thread and proposal | optimistic edit and rollback, comment, decide, delete | ends up showing the server's ticket; sends edits only on what was shown |
| Queue page (`DashboardPage.tsx`, `useTicketFilters.ts`) | address, search box, cached lists | filter, search, page, create | box, address and list agree in the end |
| Evaluation (`scripts/eval.ts`, `scripts/eval/`) | a database of its own, scores, the history file | load, run each case, score, gate | a green exit means what it says |

How they interact. Every component that touches a ticket reads the document, computes, and
writes in a transaction whose filter says what must still be true. Filters differ, and that is
the heart of the server:

| Writer | Filter | New version | What it writes |
| --- | --- | --- | --- |
| edit, hand-over, own answer (`updateAtVersion`) | `__v` as read | yes | the edited fields and the whole agent sub-document |
| SLA step (`applySlaStep`) | priority as read, marker unset, clock running | yes | marker, priority |
| requester's reply (`resumeFromPending`) | status is `pending-user` | yes | status |
| decision (`decideProposal`) | proposal pending, status as read | only if the status moves | proposal status, status |
| new proposal (`setProposalPending`) | none | no | proposal status, last run |

History entries travel in the same update; events go into the outbox in the same transaction,
computed partly from the copy that was read. The outbox then connects the ticket to the webhook
and, as a second consumer, to the agent worker, which reads the ticket and calls the API as any
client does. The browser reads the ticket into a cache, shows an edit before the server has
accepted it, and sends the version it showed as `If-Match`.

What is hard: two requests between each other's read and write; writers whose filter is not the
version; a retry that recomputes from a fresh copy; whole-sub-document writes that undo a write
which made no new version; a process dying between two writes that are not one transaction; a
lock that runs out while its holder lives; an answer that is lost or comes after a newer one; a
cached copy used after it went stale; a limit that several runs reach at once. `PROJECT.json`
lists these hazards at their lines with the properties that cover them.

## 2. Modules

| Module | Models | State variables |
| --- | --- | --- |
| `TicketRules` | the domain layer as operators (tables, timestamps, permissions, triage credit, SLA plan, entries, events); used by `Tickets`, `TicketDesk`, `Evaluation` | none |
| `Tickets` | one ticket and everything that reads and writes it at once | `life`, `ticket`, `comments`, `runs`, `call`, `now`, `pushed`, `emitted` |
| `TicketDesk` | abstract: the ticket service with requests served one after another, without versions or races | `life`, `doc` |
| `Delivery` | abstract: the delivery of one event by one worker that never outlives a lock: an attempt after another, up to a limit | `outcome`, `stage`, `attempts`, `received`, `lost`, `crashes`, `astray` |
| `Outbox` | one outbox event and the workers that deliver it | `status`, `attempts`, `due`, `expired`, `holder`, `worker`, counters |
| `AgentRuns` | the agent's events, the record of runs, the workers on them, and edits of the tickets | `version`, `marked`, `event`, `run`, `recent`, `worker`, `turn`, `triaged`, `request`, `erased`, `troubles` |
| `AgentLoop` | one run: the model, its tools, the settings read on the way, people on the same ticket | `settings`, `ticket`, `run`, `effects`, `updates`, `past` |
| `Settings` | the settings document, the routes, and admins' pages on it | `stored`, `spent`, `open`, `view`, `fetch`, `form`, `touched`, `call`, `moves` |
| `Sessions` | refresh tokens, role changes, and the tabs of one browser | `role`, `change`, `tokens`, `ended`, `cookie`, `signedIn`, `request`, `history` |
| `Page` | a browser page on one ticket, while others change it | `view`, `cache`, `fetch`, `failed`, `call`, `server`, `story`, `moves` |
| `TicketFilters` | the queue's filters and page in the address (`useTicketFilters.ts`); used by `Queue` | `url`, `turned` |
| `Queue` | the list of tickets in the browser and the form beside it | `text`, `due`, `debounced`, `fetch`, `cached`, `last`, `failed`, `adding`, `tickets`, what the person last chose (`chosen`, `turned`), `missed` |
| `Evaluation` | one run of the evaluation command | `file`, `args`, `selected`, `tickets`, `events`, `runs`, `step`, `spent`, `paid`, `results`, `exit` |
| `MC...` | the instances for TLC: patches, addresses, golden sets, command lines, symmetry, view | |
| `TicketsProofs`, `OutboxProofs`, `SettingsProofs`, `SessionsProofs`, `AgentRunsProofs`, `AgentLoopProofs`, `PageProofs` (of both pages, `Page` and `Queue`), `EvaluationProofs` | theorems and proofs | |

How they compose. `Tickets` uses `TicketRules` and implements `TicketDesk` (`INSTANCE` with a
refinement mapping); `Outbox` implements `Delivery` in the same way. What one module takes as one
step or as the environment's choice is another module's subject: the agent's writes are free
choices in `Tickets`, which settings and checks allow them is `AgentLoop`, when a run begins and
what is kept of it is `AgentRuns`. `Page` takes from `Tickets` which writes make a new version.
`Evaluation` takes the worker and the tools by what a run leaves behind.

### Tickets

`ticket` is the MongoDB document reduced to what the rules read; `call[c]` is what a handler in
progress has read (`copy`, the time `at`) and is about to do (`op`, `attempt`, what the request
stated). A handler is two or more actions: `Start...` reads, `Commit...` is the transaction with
its filter, `Lose...`/`Miss...` is the filter that did not match, with what the handler then does
(read again, ask for the next batch, or end). `CrashCall` is the death of a process between two
steps. `pushed` and `emitted` are what the latest step appended to the tracked history and
inserted into the outbox, and `ticket.said` is the agent's latest word on the ticket (an answer of
its own, a draft); no action reads them.

| Code | Actions |
| --- | --- |
| `createTicket` | `CreateTicket` |
| `updateTicket` | `StartPatch`, `CommitPatch`, `LosePatch` |
| `addComment` | `StartComment`, `CommitComment` |
| SLA job | `StartSla`, `QuerySla`, `CommitSla`, `MissSla` |
| `deleteTicket` | `DeleteTicket`, `PurgeComments` |
| agent services | `StartAgentWrite`, `CommitEscalate`, `CommitResolve`, `LoseAgentWrite` |
| proposals | `StartDecision`, `LoadProposal`, `CommitApprove`, `CommitReject`, `MissDecision` |
| agent's runs, as a ticket sees them | `BeginRun`, `RecordProposal`, `FinishRun`, `CrashRun` |

Abstracted:

- One ticket: tickets share only the counter that numbers them. The other tickets of an SLA
  batch are the choice between stopping and asking for another batch.
- Titles, descriptions, categories, tags and texts are dropped: no rule about the fields kept
  reads them. A category change counts as triage exactly as a priority change does.
- A request that is refused before it writes leaves no trace and is not an action. A write that
  loses and the read that follows it are one step; what runs between them sees no difference,
  because the handler keeps nothing from before.
- What the agent's settings, confidence and citations allow is the environment's choice here: a
  refusal changes nothing, so every allowed call is possible at any time.
- Time is a clock of a few instants; the hours per priority are scaled down and keep their
  order.
- A run taken over from a worker that lives, and a run begun again at another version, are in
  `AgentRuns`. `setLastRun` is not used by any code and is left out.

### Outbox

Claiming and each way of finishing are one atomic update, and sending is between them. Finishing
is not tied to a claim: it matches whenever the event is `sending`, and the model keeps that.
Time is two flags, `due` and `expired`. `LockRunsOut` under a worker that lives is a stall: the
lock (`LOCK_MS`) is several times the request timeout, so it takes a process that pauses; stalls
are counted, because most guarantees hold only without one. A failure while a failure is being
recorded leaves the event locked, as a crash does, and is `Crash`. `lost` is true once a receipt
may have gone unrecorded.

### AgentRuns

An event per ticket, a run per version of a ticket. `Claim` takes an event and decides from the
record whether to work (mode, `Spent`, `Open`, `RunsRaised`); `Begin` is `beginRun`, whose filter
lets a failed run and one left running too long be begun again, and `Miss` and `Decline` are the two
reads of a run that cannot be; `Ask`, `Triage` and `Conclude` are the run; `RecordProposal` marks the
ticket and `Store` writes the result, two writes with anything between them; `Deliver`, `Wait` and
`Return` settle the event. `Fail`, `RecordFailure` are the `catch` of `handle`. `Crash` is the
worker's death. `Tick` ages runs and locks together, so a stale run is found by the time that really
passed; a lock that runs out under a living worker is counted as a stall. The breaker has no state
in the code and none here: `Open` reads the latest runs.

An edit is two steps of the server: `PersonReads` or the run's own `Triage` reads the ticket,
`CommitEdit` writes over the version read, `LoseEdit` finds another. An edit that changes the agent's
triage writes the whole sub-document back, the mark included, as it was read (`MarkWritten`); a mark
makes no version, so the write may erase a newer one. `erased` records that, and no guard reads it. A
run whose call times out goes on without it (`TimeOut`). A call to the model is made while what is
on record and what the run has spent are below the cap, and costs any number of units up to
`MaxCost`; it is paid for before anybody can look again.

The reads before a run are one step with the claim, one requester raised all tickets, a run makes
one of its edits for each answer of the model's, and neither the day of the cap nor the hour of the
limit ends. A run in auto mode is to its worker what one in assist mode is: what it may answer alone
is in `AgentLoop`, and what an answer does to the mark in `Tickets`.

### AgentLoop

`Begin`, `Ask`, `Respond` and `EndTurn` are the loop of `runAgent` with its order of checks: step
limit, kill switch, daily cap, budget, then the model; kill switch again, and the allowlist, once
before all the tools of a turn. `Look`, `SetTriage`/`CommitTriage`, `Propose`, `Post`, `Escalate`
are the tools as `executeTool` runs them, with every check, dry run, conflict (`StepsBack`) and
failure; `Carries` is a call the API did, whose answer may be lost. `GiveUp` is `escalateBecause`.
`set_triage` is two requests with a person's edit possible between them. An answer to the requester
is three steps of `postResolution`, which it takes again when it loses the ticket's version:
`ReadTicket`, `CheckSettings` with the settings of that moment, and `CommitPost`, whose filter is
the version alone. `past` records the settings there were since the ticket's latest change, and no
guard reads it. A request that outlives the time the agent waits for it (`httpApi.ts`, 15 seconds)
is carried out, or not, before the run goes on, and counts as one whose answer was lost. The model
may answer anything at any turn; tokens are a choice to end a run for its budget. `effects` is what
really happened to the ticket, which the run may not know.

### Settings

`stored` may hold anything an older release left, and `GetSettings` is what the server makes of
it. `Visit`, `Leave`, `ServeSettings`, `SettingsArrive` are the query behind the page,
`EditForm`, `Save` and `ToggleKillSwitch` what an admin does, `WriteSettings`, `ReadBack`,
`UpdateAnswered` the three moments of an update, any of which another update may come between.
`Show` is the `key` that mounts the form anew when what is shown changes. The form's fields are
always saved together and are one value, the policy.

### Sessions

A refresh is `Claim` (the atomic update that marks the token used) and `Issue` (the next token, a
write of its own), or `Refuse`; a sign-out is `EndSession`. The browser's side is the request sent
with the cookie of that moment and the answer applied whenever it comes: `Renewed`, `Expired`,
`SignedOut`, or `Lost`. A tab has at most one refresh under way (`RefreshesShared`), and another tab
may send the same cookie (`SentElsewhere`); only that, or an answer that nobody hears, excuses a
used token that comes back (`history`). `Reload` makes a tab deaf to what it had sent. A role change
is a transaction: `BeginChange` takes the snapshot, `CommitChange` and `RefuseChange` decide on it,
and two that wrote the same document make one start again (`Guarded`, `Conflicts`). Access tokens
expire at any time (`Expire`). Passwords and signatures are left out.

### Page and Queue

Both model the browser's cache as TanStack Query 5 keeps it, as `client/` uses it: a query shown is
fetched when it comes into view, cancelled when it leaves, restarted by an invalidation unless it is
the query's first fetch; a mutation's `onMutate`, `onError`, `onSuccess` and `onSettled` run in that
order. In `Page` a ticket is the number of changes made to it and its version after each, which
tells whether a copy is old and whether the server would accept it. `Edit` shows at once and cancels
fetches, `Accept` is the server, `Settle` the answer with its rollback (`Restored`) or data and
reload. `Comment`, `Decide` and `Delete` show only when reloaded; the panel's decision names the
ticket and not the run it shows. The server's edit may write back the agent's mark as it stood at
any moment since the ticket was read (`MarksRead`). Any edit may, also one that does not touch the
triage and so, in the code, leaves the mark alone: more than the code does, never less. `story`
records who made each change, which queries it shows in (`Touched`), which calls were answered while
a query's first fetch was left to run, and which comments and deletions had their answer lost; no
guard reads it.

In `Queue`, `url` is the address, `text` the search box, `debounced` the box when its timer last
ran out; `ApplySearch` is the effect that writes one into the other, `GoTo` every change of the
address with the fetch it causes, `Listed` what is on the screen (the cached answer, the last one
standing in, or nothing). `Submit` to `ShowFirstPage` is `handleCreate`, which keeps the filters
of the moment it was sent. Its ticket may be stored and its answer lost (`CreateLost`): nothing is
fetched then. `Key` is the key the cached answers are kept under, and `missed` records the created
tickets the list is not fetched again for; no guard reads it. Others' tickets are left out, since
nothing tells the page of them, and so is a creation that the server stores only after the page gave
it up, which is like another's. Finding and counting are one read.

### Evaluation

`Load` parses, selects and checks the golden tickets and the command line; `CreateCase` raises a
case's earlier tickets and the one under test in an emptied database; `Work` is the worker on the
oldest event, with a script (`OracleRun`) or any model (`LiveRuns`); `Collect` finds the run,
judges and scores it; `Finish` is the report, the history and the gate with its exit code.
`ScoreCase`, `Summary` and `GateFailures` are the pure functions of `score.ts` and `gate.ts` over
exact fractions. The default mode, shadow, is assumed.

### Mutants

Each property has a mutant: an alternative form of one definition, placed before it, changed the
way a bug would be (`ResumesStale`, `AtVersionUnchecked`, `ClaimableLocked`, `SettingsOnce`,
`RefreshesAlone`, ...). No action uses them. `PROJECT.json` says which definition each
replaces and which property TLC must then find violated, so that no property passes for lack of
power.

## 3. Runs

| Run | Question | Result |
| --- | --- | --- |
| `people` | admins, technicians, requesters and SLA jobs editing (with and without a version), replying, escalating and deleting one ticket | passes |
| `agent` | two runs of the agent, hand-overs, own answers, proposals and decisions, racing with edits | passes |
| `desk` | does everything at once implement `TicketDesk`, and does every request end? | passes |
| `decided_twice` | can one reply be approved twice? (section 4) | violated |
| `delivery` | three workers, lost answers, failed records, crashes, outlived locks, a revival | passes |
| `runs` | two workers of the agent on one event while its ticket gets new versions from edits that write its mark back; is the event settled? | passes |
| `loop` | one run against any model, an admin and people | passes |
| `settings` | two admins whose pages go out of date | passes |
| `sessions` | two tabs, two calls and two role changes at once | passes |
| `page` | two calls of a page, its fetches and other people's changes in any order | passes |
| `queue` | typing, filtering, paging, links and a creation in any order | passes |
| `evaluation` | every kind of command line on a sound and on mislabelled golden sets, any model | passes |

A configuration is named `MC<module>_<run>.cfg`.

What the passing runs show.

- `people`. `VersionPinsContent`: a version names one content; decisions and proposals write
  without a new version, and the property says precisely what they leave alone. `HistoryIsTrue`:
  the entries computed from a copy tell the change that happened. `StatusAnnounced` (also in
  `agent`): a status event is emitted with each status change, with the right statuses, and never
  otherwise, although a reply and a decision compute it from a copy whose version they do not
  check. `WorkflowHonoured`: no interleaving moves a ticket outside the table; reopening a closed
  ticket stays with admins. `ConditionalNeverStale`: an edit with `If-Match` is written over the
  version it names or not at all. `ResolvedAtIffTerminal`: the date exists exactly while the
  ticket is finished. `BreachedOnce`: one breach per ticket, by one step, which raises the
  priority by one.
- `agent`. `AutoReplyAllowed`: the agent's own answer is never written over a finished ticket, nor
  as its second in a row. It may answer again once it has drafted a reply in between, which is all
  the code's test allows to say. `TriageCredited`: who triaged is not forgotten by a
  whole-sub-document write.
- `desk`. `DeskSpec`: `Tickets` implements `TicketDesk` under `doc <- Content(ticket)`. A commit
  computed from whatever was read has an effect that a request served alone could have on the
  ticket as it is then; every other step is a stutter. `CallsFinish`: retries are bounded and
  nothing waits for another request.
- `delivery`. `OneClaim` while no lock was outlived; `DuplicatesExplained` names the only two
  causes of a duplicate. `DeliverySpec`: `Outbox` implements `Delivery`. Until a worker outlives
  its lock, any number of them make one attempt after another, as one alone would, and give up
  after the last and not before; a death in the middle is the only reason of one attempt more.
  Whatever happens later, delivered is final and was received, and an event that was given up
  starts again only as if it were new. `Settles`: every event ends delivered or dead, again
  after a revival.
- `runs`. `OneRunPerVersion`: every attempt beyond the first at a version has a failure, a death
  or a stall behind it. `SpendBounded`: what the model is paid in a day is at most `RunCap` for each
  worker and each thing that went wrong. `RunCap` is what one run may spend: up to the cap before
  its last call, and that call. No tighter bound holds, since a run in progress, failed or replaced
  is on no record. `ResultKept`: a worker that comes back after it was taken over does not overwrite
  what replaced it.
  `MarkAndProposalAgree`: a ticket points at a proposal that is there, or about to be, or something
  failed in between; and the ticket of a stored proposal points at a run, unless an edit that had
  read the ticket without the latest mark wrote over it (section 4). `EventsSettle`: every event is
  handled or given up. A run that fails between the two reads of `Miss` and `Decline` makes its
  event count as handled; the property allows that.
- `loop`. `ModeHonoured`: what a run does to a ticket its mode allows. An answer is given only where
  the settings let it at some moment since the ticket became what it is: every attempt reads them
  again after it has read the ticket. They are not read at the write, so a switch turned between the
  check and the write comes too late, and nothing stronger holds. `OneConclusion`, `OutcomeTrue`: a
  run concludes once, and what is recorded of it is what it did, unless an answer was lost.
  `OwnerKept`: a triage never takes a ticket from a person. `RunEnds`.
- `settings`. `SwitchIntended`: the switch turns only by an admin who was shown it the other way
  and pressed its button. `FormFollowsPage`: beyond the admin's own changes, the form holds what
  the page shows.
- `sessions`. `OneLivePerFamily`: one sign-in has at most one refresh token that works.
  `EndedIsEnded`: an ended session has none, unless a refresh was between its two writes.
  `SomeAdmin`: role changes at once leave an admin. `ReuseExplained`: a used token comes back
  only once two tabs have sent one token at once or an answer was not heard; until then any calls of
  one tab that expire together share a refresh, and never end their own session.
- `page`. `QuietShowsServer`: when nothing is under way, every query shown holds what the server
  has and no optimistic or refused edit, except for changes `Excused` names one by one: those of
  others; a call answered while the query's first fetch was left to run (section 4); a comment or
  deletion whose answer was lost; an older mark of the agent's that an edit wrote back, since an
  edit's reload leaves the proposal out. Each exempts its own change: a later one of the page must
  show again. `EditSawItsVersion`: an edit the server would accept was made on the fields the server
  has.
- `queue`. `QueueSettles`: once the person stops, search box, chosen filter, address and list agree,
  and the list is the server's answer to the filters of the address. It may lack only a ticket of
  the form's whose answer was lost, or came while the first fetch for these filters was left to run.
  `PageOfTheseFilters`: nobody is left on page two of another list.
- `evaluation`. `CasesApart`: a case is scored on the run of its own ticket in its own history,
  and no other case's failures pause it. `GreenIsEarned`: what exit code 0 and a row of the
  history mean. `OracleIsPerfect`: a green run of the answer key that lets no ticket fail scores
  full marks on every rate.
  `SpendBounded`: the limit is passed by one run at most, beside what it does not count.

Bounds.

- `Tickets`. `MaxVersion`: no request starts once the ticket has that version; those in progress
  still commit. With two callers a stale write needs one commit between a read and a write, and a
  retry one more, which versions up to 2 give. `MaxComments` bounds comments of a kind at which one
  may start; nothing reads the number. `MaxTime` 1 lets the deadlines of the scaled hours that
  matter be met. `MaxAttempts` is 1 or 2, since only the refusal after the last attempt matters (the
  code has 3). `MaxBatches` is 3: a first batch, one more, and the refusal of another (the code
  allows many more). Two callers suffice for safety: every property compares a step with what one
  handler read, and the second caller supplies all that can happen in between, one request after
  another.
- `Outbox`. `MAX_ATTEMPTS` 3: a first, a middle and a last attempt. `MaxCrashes` and `MaxStalls` of
  2 allow a failure during a takeover, and three workers a takeover of a takeover; `received` counts
  to 2, all the properties tell apart.
- `AgentRuns`. One event: events of other tickets meet it only in the cap, the limit and the
  breaker. The versions of one ticket reach the cap and the breaker (`BreakerFailures` 1), not the
  hourly limit (3), whose effect, a run recorded as skipped, is the cap's. The cap is 1 and a call
  costs 1 or 2, so a call made below the cap passes it, and two at once do so twice. Two workers and
  one thing that goes wrong allow a takeover from a worker that lives on and comes back. Three
  versions: the run's own triage, a person's edit, and another run after them. One edit at a time:
  an edit that erases a mark needs only the worker's write between its two steps, and no property
  relates two edits. `STALE_RUN < AGENT_LOCK`, as in the code, so a lock that ran out means a run
  that is stale.
- `AgentLoop`. The three default modes to begin with, changed once by an admin at any moment. Two
  turns of two calls give every pair of tools in one turn and across turns; `MaxEdits` 2 lets both
  attempts of a triage conflict, and an answer lose its version twice.
- `Settings`. Two admins and two updates: a race of an update with an update, and of each with a
  fetch. `MaxMoves` bounds visits, edits of the form and failed fetches.
- `Sessions`. Three tokens and two sign-ins: a family with a successor beside another family. Both
  users are admins at first (`Founding`) and both are to lose the role.
- `Page`. Two calls (so an edit rolled back over another), three states of the ticket, two moves
  between views, refreshes or failed fetches.
- `Queue`. Three tickets on pages of one, two of which only the search finds and one of which only
  the filter: every filter or word changes the list, and both together empty it. Four moves of the
  person while one creation runs.
- `Evaluation`. Three tickets: one to answer with an injection and a history, one to hand over, one
  to cut off by the budget. `FAILURES` 2 is below the number of cases, so a breaker that reads
  across cases would open.

Symmetry and view. `SYMMETRY` permutes callers (and runs) in `people`, `agent` and
`decided_twice`, users, tabs and calls in `sessions`, calls in `page`, admins and calls in
`settings`: nothing names one. It is used in no run with a liveness property (`desk`, `delivery`,
`runs`, `loop`, `queue`). The safety runs of `Tickets` have the `VIEW` `Memory`, which leaves out
`pushed` and `emitted`; no guard reads them, so equal views have equal futures, and TLC evaluates
action properties on every step it generates, before it identifies the state reached.

Fairness.

- `Tickets!FairSpec`: weak fairness of each request's `Progress`, since a handler once admitted
  runs to its end or its process dies (death is allowed, not required). No request is assumed to
  be sent.
- `Outbox!FairSpec`: weak fairness of a claim by somebody (the worker's timer and the scheduled
  job come again and again), of each worker's own steps (a request has a timeout), and of the two
  clocks. No fairness of `Revive`, `Crash` or `FailToRecord`.
- `AgentRuns!FairSpec`: the same, with the same reasons (the model's calls and those of the API
  have timeouts); none of `Fail`, `Crash` or the edits.
- `AgentLoop!FairSpec`: the loop takes its next step; the model's calls have a timeout. None of
  `Throws`, people or admins.
- `Queue!FairSpec`: timers run out, effects are run, fetches and creations are answered, or their
  answer is lost. None of
  the person's moves or of failures.

`Settings`, `Sessions`, `Page` and `Evaluation` are checked for safety and state no fairness.

Deadlock is not checked: a deleted ticket, a delivered event, an ended run and a finished
evaluation are real ends, a browser may stay idle, and the bounds stop the others.

## 4. Findings and notes

One disagreement is a run of its own.

| Run | What the repository says | What the code does |
| --- | --- | --- |
| `decided_twice` | "Only one decision can win" (`docs/adr/011-agent-rollout-shadow-assist-auto.md:22`) | An edit that touches the triage writes the whole agent sub-document of its copy, guarded by `__v`; a decision that does not move the ticket leaves `__v` alone. An edit read before the decision and written after it puts the proposal back to pending, and the same reply can be approved and posted again. |

Other behaviour that the models have and that a reader of the documents may not expect. No
property states any of it; where a property could have been stronger, this is why it is not.

Server:

- A reply that resumes a ticket compares its stale copy with the written document and announces,
  again, an assignment made in between (`commentService.ts:83`;
  `docs/adr/006-transactional-outbox.md:11`: "if and only if the change committed").
- Ticket and comments are removed by two writes outside a transaction (`ticketService.ts:256`;
  `docs/API.md:50`: "Delete a ticket (and its comments)"): a process that dies between them, or a
  comment committed after the second, leaves comments without a ticket.
- An abandoned event is claimed whatever its attempts (`outboxRepository.ts:51`;
  `domain/outbox.ts:118`: "Six tries in all"): a worker that dies during the sixth is followed by a
  seventh.
- The counter of ticket numbers is advanced before the transaction that creates the ticket:
  numbers are unique, and gap-free (`ticketRepository.ts:283`) only while every creation succeeds.
- Approving an unchanged draft posts what the run has at that moment (`proposalService.ts:114`),
  which a later run may have replaced since the reviewer read "exactly as written"
  (`AgentProposalPanel.tsx:148`). A changed draft is posted as sent.
- The daily cap is passed by what runs in progress, failed or replaced have spent, and by a call
  that was made just below it.
- A takeover erases the failure of the attempt it replaces (`agentRunRepository.ts:85`), so the
  breaker (`docs/adr/014-auto-mode-and-the-circuit-breaker.md:21`: "five failed runs in a row")
  does not see it until that attempt fails too.
- "The answer can only be given once" (`agentResolutionService.ts:23`) holds until the agent drafts a
  reply: the test is that the proposal's status is not `posted`, and `setProposalPending` replaces
  that status whatever it is (`ticketRepository.ts:373`). Once a run has drafted a reply on a ticket
  already answered alone (by an earlier run, or by itself when the confirmation was lost), the agent
  may answer alone again. `AutoReplyAllowed` therefore lets a second answer follow a draft.
- "A proposal is never left on a run that no ticket points to" (`agentWorkerService.ts:332`) fails
  without any failure: an edit that touches the agent's triage, read before the mark and written
  after it, writes the sub-document back without the mark, which made no version. The proposal is
  stored, and nobody is shown it. `erased` is that case, and `MarkAndProposalAgree` exempts it.
- The kill switch is read once before the tools of a turn (`loop.ts:193`: "so nothing is done after
  someone has stopped the agent") and not between them, nor before the loop's own hand-over (a
  refusal of the model's, a spent budget). A triage or hand-over that follows a stop is carried out;
  of the server's handlers only an answer alone reads the switch, in a step before its write: one
  that an admin turns off in between is still given.
- `beginRun` finds out in a read of its own whether a run it could not begin is in progress
  (`agentRunRepository.ts:99`): if it fails between the two, its event is settled as handled.
- A run that hands over by itself is recorded as escalated even if the hand-over failed; an answer
  whose confirmation is lost and that is posted again meets the conflict of its own first success
  and is recorded as `ticket_changed`.

Browser:

- Two tabs whose tokens expire together present the same refresh token, and the second ends the
  session: tabs share the cookie and not the refresh in progress.
- An answer to a refresh that arrives after the tab signed out sets its token and the cookie again
  (the server has ended the family, unless the refresh slipped between); a refused answer clears a
  newer cookie.
- Two optimistic edits at once are sent with the same version, so one is refused; its rollback
  removes the other from the screen until the reload.
- "Success or failure, the server is the source of truth: fetch it again" (`queries/tickets.ts:126`),
  but `invalidateQueries` does not restart a query's first fetch. An edit made in the queue, settled
  while the ticket's own page is being fetched for the first time and was served before the edit,
  leaves that page with the old ticket and nothing under way (`Excused`, `story.left`).
- A page past the end of a filtered list shows "No tickets found" without saying so.
- A first fetch that runs while a ticket is created is not restarted and may lack it; a ticket that
  was created and whose answer is lost is not fetched either.
- The settings form has no version: a save from a page that went out of date while its admin was
  editing overwrites what another saved. A fetch that changes what is shown (an agent's run is
  enough) resets a form that is being edited. A Resume sent before and written after another
  admin's Stop starts the agent.

Evaluation:

- `--max-cost` is compared with what recorded runs cost, before a case (`run.ts:256`): failed runs
  and the judging count nothing, and the last run may pass it.
- The row of the history is written before the gate decides, so a run that fails its thresholds
  can be in it.

## 5. Proofs

TLAPS checks every theorem below for all values of the constants that meet the module's
assumption (`RulesAssumption`, `TicketsAssumption`, `OutboxAssumption`, `SettingsAssumption`,
`SessionsAssumption`, `AgentRunsAssumption`, `AgentLoopAssumption`, `PageAssumption`,
`FiltersAssumption`, `QueueAssumption`, `EvaluationAssumption`): any number of callers, tickets,
runs, workers, admins, tabs, calls and tokens, any patches, policies, addresses, golden sets,
command lines and bounds. The assumptions are of four kinds: bounds are numbers, a constant that
stands for "nothing" is none of the values beside it, what the code's own constants say (a lock
outlives a stale run, there is an admin at first, tickets and workers are finite in number), and
the shape of what is read: a golden file is a list of records with the fields `validateGolden`
insists on, and the numbers of a command line are natural ones (`parseArgs`, `number`). TLC
evaluates each on every run.

| Theorem | States |
| --- | --- |
| `TicketsProofs!TypeCorrect` | `Spec => []TypeOK` |
| `TicketsProofs!VersionPinned` | `Spec => []VersionPinsContent` |
| `TicketsProofs!ResolvedWhenTerminal` | `Spec => []ResolvedAtIffTerminal` |
| `TicketsProofs!HistoryTrue` | `Spec => HistoryIsTrue` |
| `TicketsProofs!NeverOverAnother` | `Spec => ConditionalNeverStale` |
| `TicketsProofs!AnswersOnce` | `Spec => AutoReplyAllowed` |
| `TicketsProofs!ChangesAnnounced` | `Spec => StatusAnnounced` |
| `TicketsProofs!MovesAlongTheTable` | `Spec => WorkflowHonoured` |
| `TicketsProofs!MissedOnce` | `Spec => BreachedOnce` |
| `TicketsProofs!TriageIsCredited` | `Spec => TriageCredited` |
| `TicketsProofs!ServedOneByOne` | `Spec => DeskSpec` (refinement of `TicketDesk`) |
| `OutboxProofs!TypeCorrect` | `Spec => []TypeOK` |
| `OutboxProofs!OneClaimAtATime` | `Spec => []OneClaim` |
| `OutboxProofs!NotGivenUpEarly` | `Spec => []DeadMeansExhausted` |
| `OutboxProofs!TriesAreBounded` | `Spec => []AttemptsBounded` |
| `OutboxProofs!DuplicatesHaveCauses` | `Spec => []DuplicatesExplained` |
| `OutboxProofs!DeliveredReceived` | `Spec => []DeliveredMeansReceived` |
| `OutboxProofs!DeliversAsOne` | `Spec => DeliverySpec` (refinement of `Delivery`) |
| `SettingsProofs!TypeCorrect` | `Spec => []TypeOK` |
| `SettingsProofs!SwitchTurnedOnPurpose` | `Spec => SwitchIntended` |
| `SettingsProofs!FormsFollow` | `Spec => []FormFollowsPage` |
| `SessionsProofs!TypesHold` | `Spec => []TypeOK` |
| `SessionsProofs!Rotation` | `Spec => []OneLivePerFamily` |
| `SessionsProofs!EndedStaysEnded` | `Spec => []EndedIsEnded` |
| `SessionsProofs!AdminRemains` | `Spec => []SomeAdmin` |
| `SessionsProofs!ReuseIsExplained` | `Spec => []ReuseExplained` |
| `AgentRunsProofs!RecordsStayTyped` | `Spec => [](RecordsTyped /\ EditsTyped)` |
| `AgentRunsProofs!AttemptsBounded` | `Spec => []OneRunPerVersion` |
| `AgentRunsProofs!MarksAgree` | `Spec => []MarkAndProposalAgree` |
| `AgentRunsProofs!ResultsKept` | `Spec => ResultKept` |
| `AgentRunsProofs!SpendingBounded` | `Spec => []SpendBounded` |
| `AgentRunsProofs!LossesHaveCauses` | `Spec => [](troubles.lost <= RunCap * Causes)` |
| `AgentLoopProofs!TypesHold` | `Spec => []TypeOK` |
| `AgentLoopProofs!ConcludesOnce` | `Spec => []OneConclusion` |
| `AgentLoopProofs!RecordTrue` | `Spec => []OutcomeTrue` |
| `AgentLoopProofs!ModesHonoured` | `Spec => ModeHonoured` |
| `AgentLoopProofs!OwnersKept` | `Spec => OwnerKept` |
| `PageProofs!EditIsInformed` | `Spec => []EditSawItsVersion` |
| `PageProofs!QuietPageIsCurrent` | `Spec => []QuietShowsServer` |
| `PageProofs!PagesBelong` | `Q!Spec => []PageOfTheseFilters`, `Q` an instance of `Queue` |
| `EvaluationProofs!CasesStayApart` | `Spec => []CasesApart` |
| `EvaluationProofs!GreenEarned` | `Spec => []GreenIsEarned` |
| `EvaluationProofs!OracleStaysPerfect` | `Spec => []OracleIsPerfect` |
| `EvaluationProofs!SpendingBounded` | `Spec => []SpendBounded` |

Tickets. A lemma per document transformer (`PatchedType`, `AnsweredType`, ...) says what it
returns; `TypeStep` splits on the actions. `VersionPinsContent` is inductive with `TypeOK` and
`UnbornQuiet` (nobody holds a copy of a ticket that does not exist yet; without it creation
would change the content under version 0). Its step follows from two facts proved action by
action: `Steady`, the version never falls and the content changes only with it, and
`FreshCopies`, a caller that edits either keeps its copy or has just read the ticket.
`ResolvedAtIffTerminal` is then inductive with it: an edit derives the date from its copy's
status, and the version filter together with `VersionPinsContent` makes that the ticket's own.
`HistoryIsTrue` is an action property that follows from the same invariant: for a versioned
writer the entries computed from the copy are those of the ticket; the other writers' filters
pin the field they change.

The other properties of `Tickets` are about what a request was checked for and does later. Their
invariant is `Grounds`: the above, `AllAdmitted` (a request in progress was accepted for the copy it
still holds: its role may send the patch, the move is in the table, the version it names is the
copy's, the ticket may be answered), and `AnswerStands` (while an answer is the last thing the agent
said, the ticket's status says `posted`, and so does every copy that a versioned write could still
write back). The last is needed because where the proposal stands is no part of what a version pins;
it holds because what makes the status anything else without a version is a draft, or a decision,
which needs a pending one. `AnswersOnce` follows: an answer computed from a current copy was
computed from one that did not say `posted`. With them each commit is a step on a ticket the request
was checked for, and `WritersWrite` leaves one case per writer. `ServedOneByOne` maps each commit to
the step of `TicketDesk` that serves the same request on the ticket as it is, and everything else to
a stutter. What `TicketDesk` cannot see (`__v`, copies, attempts, where the proposal stands) must
not be what decides its step: `ContentFields` and `SameDoc` reduce that to the eight fields it has,
writer by writer. `StatusAnnounced` and `WorkflowHonoured` hold for replies and decisions without a
version because their filters name the status.

Outbox. The guarantees that need no stall rest on one inductive invariant, `Calm`: while no lock
was outlived, a busy worker is the holder of an event that is `sending` and its attempts are the
event's (`Claims`), an expired lock means the holder is gone (`Expiry`), attempts stay within
the limit and the crashes that allow one more (`Tries`), and a receipt is either about to be
recorded, recorded or lost (`Receipt`). `DeliveredMeansReceived` holds with stalls too, from
`SentIsReceived`: a worker about to record a delivery has had its request received.
`DeliveredMeansReceived`, `DeadMeansExhausted` and `AttemptsBounded` are proved and are in no run
of their own; `DeliverySpec` implies them. Its proof, `DeliversAsOne`, forgets claims, locks and
waits: how far the attempt under way has come (`Stage`) is the step of the holder. By `Calm` the
worker that takes a step is that holder, the others rest, and the attempts it read are the
event's, so each update that finishes is one that a worker alone would make, although nothing in
its filter ties it to its claim. A step after a lock was outlived is only held to `Settled`
(`SettledStays`).

Settings. `TypeOK` is not inductive alone: an answer becomes what the page shows, so it must be
well formed while it is on its way, and what is written must be what a button sends. `CallsSound`
adds both: an update under way has the part its button sends, the switch the other way round from
what was shown or a valid policy without the switch, and one that was read back has an answer.
Every action changes updates in one of three ways (unchanged, over, or `here` withdrawn), which
`SameCallsSound` treats once. `SwitchIntended` then follows for `WriteSettings`, the only action
that changes what is stored: a policy leaves the switch alone, and a switch that changes
something was shown as it was. `FormFollowsPage` is inductive with the same invariant, since
`Show` resets the form whenever it changes the view (`ShowFollows`).

Sessions. `OneLivePerFamily` needs the gap of a refresh: between claiming a token and issuing the
next, a refresh is alone in its family, which has no token that works (`ClaimedAlone`); if the
family was ended meanwhile, it is among those it slipped out of, which makes `EndedIsEnded`
inductive as well. `OneUserPerFamily` carries both over a role change, which revokes by user.
`SomeAdmin` follows from `SnapshotCurrent`: the snapshot of an open role change is the roles as they
are, because all changes write the same guard, and one that commits makes every open one start
again. `ReuseExplained` needs `PlainSound`: until something excuses it, no two refreshes sent the
same token, a token that is sent was not used, the next one in an answer is known to nobody else,
and the cookie holds a used token only until the answer is heard.

AgentRuns. `OneRunPerVersion` is a count of attempts against one of causes, and not inductive: a
worker that has claimed the event but not begun may still add one. `AttemptsPaid` counts those as
well (`Holding`): attempts, begun or in hand, are at most the causes, and one more while the event
is not free for the next claim. A lock that runs out makes the event free only as a stall, if its
worker lives, or after a crash, if not, and both are causes. `AttemptsApart` gives each worker an
attempt of its own, which is what the filter of `finishRun` tests: from it `ResultKept`.
`MarkAndProposalAgree` has two halves and is inductive with four more facts (`MarksInv`). A mark
must point at a proposal also after an edit has written an old one back, so what an edit has read
must do so too (`RequestsSound`); the run's own edit would put its own number there, which is no
proposal yet, so while nothing went wrong it must have read no mark: its ticket has none until its
run is at its end (`Unmarked`), because no other worker is on it (`Alone`). For the other half,
whoever is about to store a proposal marked it, and that mark stands or was written over
(`MarkedSound`); a mark is lost only to an edit that read none, which is what `erased` says. That
the store after the mark matches is `WorkersCurrent`: while nothing went wrong, who works on a run
has the attempt that is running.

`SpendBounded` bounds a sum over runs, workers and losses. No fold is needed to say a sum: `Total`
counts the calls, each a pair of its run and a number (`Calls`), and the lemmas `TotalApart` and
`OneMoves` say what one changed cost does to it. A call is made only while what is recorded, and
what its run has spent, is below the cap (`Ask`), and costs at most `MaxCost`; but others' runs are
on no record yet, so the invariant has to say where each cost is: with a worker that has not
recorded it, at most `RunCap` each (`CostsKept`), on the record, or lost. A loss must have a cause,
and the cause comes first: after a stall or a crash, two workers, or a worker and a free event,
stand where one did, and only one of them can still be stored without a loss (`InPlay`). `Debt`
counts the others, and `LossesPaid` says that what was lost is at most `RunCap` for each cause that
is not owed to one of them. Each action moves one cost or one debt; `MoneyKept` treats a move once,
and each action has a lemma that names its move (`ClaimMoney`, `AskMoney`, ...). Debt is never
negative (`DebtPositive`), which gives `LossesHaveCauses`.

AgentLoop. `DoneAsDecided` relates what really happened to what the run knows: unless an answer
was lost, the ticket was answered exactly if the run decided so, and handed over if it decided so
and its mode writes, or gave up. `DecidedLast` says that a decision is made in a turn's tools and
ends the run with that turn, so nothing concludes twice. `OneConclusion` and `OutcomeTrue` are
read off these. `OwnerKept` needs `SeenTrue`: while the version a triage saw is current, it saw
the ticket as it is. `ModeHonoured` needs `ModeSet` (only a run that may write is in the middle of a
triage, and only one in auto mode that has read something in the middle of an answer), `SeenTrue` for
the ticket an answer saw, and `PastSound`: an answer about to be written was allowed by settings that
are still among `past`, if the ticket is still the one it saw. `past` is emptied only when the ticket
changes, so a write at the version seen finds them there.

Page. `CopiesTrue` says that every copy of the ticket, cached, on its way, put aside for a rollback
or carried by an edit, is one the server gave: the fields of its change with the version of that
change, and what is shown on top of it before the server accepted it apart from it. So an edit at
the server's version was made on the server's fields (`EditIsInformed`). It stays true because the
server only adds changes (`Later`). `QuietShowsServer` is about lost reloads and rests on
`ShownIsTracked`: whatever is shown has failed and says so, or is being fetched, or will be reloaded
by a call that is open, or is fresh: its copy, or the answer on its way, misses only changes that
are excused, and is the server's if it misses none (`Fresh`). Which changes a copy misses is read
from the history, so `StoryTrue` ties it to the server: one entry a change, and a query that a
change does not show in answers the same before and after it (`TellingMisses`). An answer on its way
may also miss the change of a call that is still open and is to reload the query (`AnswersSound`):
if the call then leaves a first fetch to run, that excuses this one change and no other
(`SettleTells`). `FetchesAreShown` says that what leaves the page takes its fetch along, so what
comes into view is fetched again. When nothing is under way only failed and fresh are left.

Queue. `PageOfTheseFilters` is inductive with the types of the address and of a creation: every
action that changes a filter goes to page one, and only `turned` follows a page. The proof is at
the end of `PageProofs`, about an instance of `Queue` whose address is that of `TicketFilters`.

Evaluation. Its invariant follows the command step by step. The selected tickets are the ones
asked for, and the results are scored answers to them in their order (`CasesScored`, `Underway`).
While a case is worked on, the database holds its tickets and its event and no run; afterwards it
holds one run of that ticket, with an answer the model could give and the history the case asks
for (`CaseAlone`): with no earlier run the breaker is closed (`BreakerClosed`), and the run
collected is the one of this case (`CollectsTheRun`). `CasesApart` is read off. What counts
against the limit is recorded, but for the run not yet collected, and a case is started only
below the limit (`Recorded`), which gives `SpendBounded`. An exit code of 0 stands for a full run
that passed its gate (`ExitEarned`); that the gate's counts are those of the runs themselves is
`VerdictsCounted` and `LimitsKept`. `OracleIsPerfect` is about a mislabelled set as well: an
oracle whose script is refused fails its ticket, and where no ticket failed each score is full
(`OracleScores`), so each count is (`FullCount`). It is stated for `--max-errors 0`, the default,
since a failed ticket scores badly and the command line may allow it. `Chosen` is a filter written
without `SelectSeq`, of which the prover knows nothing: the ticket at place `k` is the one with `k`
chosen places up to it (`Placed`, by a least counterexample).

Only model-checked, and why:

- Liveness (`CallsFinish`, `Settles`, `EventsSettle`, `RunEnds`, `QueueSettles`), which is beyond
  the prover.
- The type of `AgentRuns!recent`: it is made by `SelectSeq`, of which the prover knows nothing,
  not even that it gives a sequence. No theorem rests on `recent`: what it decides, whether a
  claimed event is worked on, may be either way in every proof about `AgentRuns`.
- `decided_twice` is a violation; there is nothing to prove.

Every safety property of a passing run has its theorem.

## 6. Not modelled

- Agent pricing: arithmetic on reported token counts. In the models a call, or a run, costs any
  number of units up to a bound.
- Statistics, trends and the CSV export; the list of runs on the settings page: reads that no
  state depends on.
- Ranking of the knowledge base's articles: MongoDB's text index. Which articles a run has read
  is in `AgentLoop`. `scripts/eval-retrieval.ts` measures that ranking only.
- Audit log, metrics and request limits: written, and not read back to decide anything modelled.
- Trends, users, audit and login pages, notices: forms and tables over calls that are modelled on
  the server's side.
- The length of the worker's timers: jobs start at any time and overlap.
- `Support-Ops-Automation`: a separate reporting tool without access to the service's state.
- Seeds, configuration, tests.

Taken from outside the repository, and modelled from how it is used: MongoDB's single-document
atomicity, snapshots and conflicts; TanStack Query's fetching, cancelling and invalidation; React
mounting by `key`; one cookie for all tabs of a browser.

Left out of modelled components: a worker's branch for a ticket that no longer exists (it settles
the event), the lookup of a removed user at a refresh, listing outbox events, texts of messages,
prompts and reports, redaction.

## 7. Plan

Done: `TicketRules`, `Tickets`, `TicketDesk`; `Outbox`, `Delivery`; `AgentRuns`; `AgentLoop`;
`Settings`; `Sessions`; `Page`; `TicketFilters`, `Queue`; `Evaluation`; theorems on all of them,
for every safety property of a passing run, two of them refinements.

What would come next:

1. `Sessions` and `AgentRuns`: an abstract specification of each (a sign-in that rotates one
   token; a register of runs), in the way of `TicketDesk` and `Delivery`.
2. Shorter proofs: lemmas that the actions of `Page` share.
