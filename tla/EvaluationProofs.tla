-------------------------- MODULE EvaluationProofs --------------------------
(* Bounded spending, cases kept apart, a green exit that is earned and a    *)
(* perfect oracle, for any golden tickets, command lines and knowledge base.*)
EXTENDS Evaluation, FiniteSetTheorems, SequenceTheorems, WellFoundedInduction, TLAPS

-----------------------------------------------------------------------------
(* The inductive invariant.                                                 *)

StepName == {"load", "case", "work", "collect", "ended"}
Paid == [all : Nat, failed : Nat, judging : Nat]

Typed ==
  /\ file \in Files /\ args \in Requests
  /\ selected \in Seq(GoldenTicket)
  /\ step \in [name : StepName, case : Nat \ {0}]
  /\ spent \in Nat /\ paid \in Paid
  /\ exit \in [code : {Running, 0, 1, 2, 3}, row : BOOLEAN]

(* What a case asks for: the tickets its requester is to have had before,   *)
(* and a run the model could have given.                                    *)
Statuses(g) ==
  [s \in Range(g.history) |-> Cardinality({h \in DOMAIN g.history : g.history[h] = s})]
Answers(g) == UNION {ModelFor(g, cost) : cost \in RunCost}
Scored(g) ==
  {[golden |-> g, run |-> left, saw |-> Statuses(g), score |-> ScoreCase(g, left, grounded)] :
     left \in Answers(g), grounded \in {"n/a", "yes", "no"}}

(* The golden tickets selected are the ones asked for, from a file that     *)
(* passed; the cases before this one are scored, in their order.            *)
CasesScored ==
  /\ \A i \in DOMAIN selected : ValidGolden(selected[i])
  /\ results \in Seq(UNION {Scored(selected[i]) : i \in DOMAIN selected})
  /\ Len(results) <= Len(selected)
  /\ \A i \in DOMAIN results : results[i] \in Scored(selected[i])

Underway ==
  /\ step.name = "load" => results = <<>> /\ spent = 0 /\ paid.all = 0 /\ paid.failed = 0
                                          /\ paid.judging = 0 /\ step.case = 1
  /\ step.name \in {"case", "work", "collect"} =>
       /\ Loads /\ selected = SelectTickets(file, args.selection)
       /\ step.case = Len(results) + 1
  /\ step.name \in {"work", "collect"} => step.case \in DOMAIN selected
  /\ step.name # "ended" <=> exit.code = Running
  /\ exit.row => step.name = "ended"

(* While a case is worked on the database holds it and nothing else, and    *)
(* afterwards the one run of it.                                            *)
CaseAlone ==
  /\ step.name = "work" =>
       /\ tickets = Earlier(Golden) \o <<UnderTest(Golden)>>
       /\ events = <<UnderTest(Golden).id>>
       /\ runs = <<>>
  /\ step.name = "collect" =>
       \E left \in Answers(Golden) :
         runs = <<[ticket |-> UnderTest(Golden).id, saw |-> Statuses(Golden), left |-> left]>>

(* What counts against the limit is recorded, but for the run not collected *)
(* yet.                                                                     *)
Net == paid.all - paid.failed - paid.judging
Recorded ==
  /\ step.name \in {"load", "case"} => Net <= spent
  /\ step.name = "work" => Net <= spent /\ spent < args.budget
  /\ step.name = "collect" => Net <= spent + runs[1].left.cost

(* What an exit code of zero and a row in the history stand for.            *)
ExitEarned ==
  /\ exit.code = 0 => /\ Len(results) = Len(selected)
                      /\ selected = SelectTickets(file, args.selection)
                      /\ Gated(args) => GateFailures(Summary, args) = {}
  /\ exit.row => ~Truncated /\ args.source # "oracle"

IInv == Typed /\ CasesScored /\ Underway /\ CaseAlone /\ Recorded /\ SpendBounded /\ ExitEarned

-----------------------------------------------------------------------------
(* Selecting.                                                               *)

(* A set of natural numbers has a least one.                                *)
LEMMA LeastOne ==
  ASSUME NEW S \in SUBSET Nat, S # {}
  PROVE  \E m \in S : \A x \in S : m <= x
<1> DEFINE Less == OpToRel(<, Nat)
<1>1. IsWellFoundedOn(Less, Nat)
  BY NatLessThanWellFounded
<1>2. \A x \in Nat, y \in Nat : x < y => <<x, y>> \in Less
  BY DEF OpToRel
<1> HIDE DEF Less
<1>3. S \subseteq Nat
  OBVIOUS
<1>4. \E m \in S : \A x \in S : ~(<<x, m>> \in Less)
  BY <1>1, <1>3, WFMin, Zenon
<1>5. PICK m \in S : \A x \in S : ~(<<x, m>> \in Less)
  BY <1>4
<1>6. ASSUME NEW x \in S PROVE m <= x
  <2>1. m \in Nat /\ x \in Nat /\ ~(x < m)
    BY <1>2, <1>3, <1>5
  <2> QED
    BY <2>1
<1> QED
  BY <1>6

(* A set of places in a list has a number of them, and a smaller set no     *)
(* more.                                                                    *)
LEMMA Counted ==
  ASSUME NEW n \in Nat, NEW S \in SUBSET (1..n)
  PROVE  /\ IsFiniteSet(S) /\ Cardinality(S) \in Nat
         /\ \A T \in SUBSET S : Cardinality(T) <= Cardinality(S)
<1>0. 1 \in Int /\ n \in Int
  OBVIOUS
<1>1. IsFiniteSet(1..n)
  BY <1>0, FS_Interval, Zenon
<1>2. IsFiniteSet(S)
  BY <1>1, FS_Subset
<1>3. \A T \in SUBSET S : Cardinality(T) <= Cardinality(S)
  BY <1>2, FS_Subset
<1> QED
  BY <1>2, <1>3, FS_CardinalityType

(* The places of a list have a first, a second and so on, as many as they   *)
(* are.                                                                     *)
LEMMA Placed ==
  ASSUME NEW n \in Nat, NEW places \in SUBSET (1..n), NEW k \in 1..Cardinality(places)
  PROVE  Place(k, places) \in places
<1> DEFINE UpTo(i) == {j \in places : j <= i}
           Lacking == {m \in 1..Cardinality(places) : \A i \in places : Cardinality(UpTo(i)) # m}
<1>1. IsFiniteSet(places) /\ Cardinality(places) \in Nat
  BY Counted
<1>2. ASSUME Lacking # {} PROVE FALSE
  <2>0. Lacking \in SUBSET Nat
    BY <1>1
  <2>1. PICK m \in Lacking : \A x \in Lacking : m <= x
    <3> HIDE DEF Lacking
    <3> QED
      BY <1>2, <2>0, LeastOne
  <2>2. m \in Nat \ {0} /\ m <= Cardinality(places)
    BY <1>1, <2>1
  <2>3. PICK B \in SUBSET places : /\ Cardinality(B) = m - 1
                                   /\ \A b \in B, s \in places \ B : b < s
    <3>1. CASE m = 1
      BY <3>1, FS_EmptySet
    <3>2. CASE m # 1
      <4>1. m - 1 \in 1..Cardinality(places) /\ m - 1 \notin Lacking
        BY <1>1, <2>1, <2>2, <3>2
      <4>2. PICK i \in places : Cardinality(UpTo(i)) = m - 1
        BY <4>1
      <4> QED
        BY <4>2
    <3> QED
      BY <3>1, <3>2
  <2>4. IsFiniteSet(B) /\ places \ B # {}
    <3>1. IsFiniteSet(B)
      BY <1>1, FS_Subset
    <3>2. B # places
      BY <1>1, <2>2, <2>3
    <3> QED
      BY <3>1, <3>2
  <2>5. PICK i \in places \ B : \A x \in places \ B : i <= x
    <3>1. places \ B \in SUBSET Nat
      OBVIOUS
    <3> QED
      BY <2>4, <3>1, LeastOne
  <2>6. UpTo(i) = B \cup {i}
    <3>1. places \subseteq Int /\ i \in Int
      BY <2>5
    <3>2. ASSUME NEW j \in places, j <= i PROVE j \in B \cup {i}
      BY <2>5, <3>1, <3>2
    <3>3. ASSUME NEW j \in B PROVE j <= i
      BY <2>3, <2>5, <3>1, <3>3
    <3>4. i <= i
      BY <3>1
    <3> QED
      BY <2>5, <3>2, <3>3, <3>4
  <2>7. Cardinality(B \cup {i}) = Cardinality(B) + 1
    BY <2>4, <2>5, FS_AddElement
  <2>8. Cardinality(UpTo(i)) = m
    BY <2>2, <2>3, <2>6, <2>7
  <2> QED
    BY <2>1, <2>5, <2>8
<1>3. \E i \in places : Cardinality(UpTo(i)) = k
  BY <1>2
<1> QED
  BY <1>3 DEF Place

(* What is chosen from a file is chosen among its golden tickets.           *)
LEMMA ChosenAmong ==
  ASSUME NEW golden \in Seq(GoldenTicket), NEW selection
  PROVE  /\ Chosen(golden, selection) \in Seq(GoldenTicket)
         /\ \A k \in DOMAIN Chosen(golden, selection) :
              \E i \in DOMAIN golden : Chosen(golden, selection)[k] = golden[i]
<1> DEFINE places == {i \in DOMAIN golden : Wanted(golden[i], selection)}
           chosen == [k \in 1..Cardinality(places) |-> golden[Place(k, places)]]
<1>1. DOMAIN golden = 1..Len(golden) /\ Len(golden) \in Nat
  BY LenProperties
<1>2. places \in SUBSET (1..Len(golden))
  BY <1>1
<1>7. Chosen(golden, selection) = chosen
  BY DEF Chosen
<1> HIDE DEF places
<1>3. \A k \in 1..Cardinality(places) : Place(k, places) \in places
  BY <1>1, <1>2, Placed
<1>4. Cardinality(places) \in Nat
  BY <1>1, <1>2, Counted
<1>5. \A k \in 1..Cardinality(places) : Place(k, places) \in DOMAIN golden
  BY <1>1, <1>2, <1>3
<1>6. \A i \in DOMAIN golden : golden[i] \in GoldenTicket
  BY <1>1, ElementOfSeq
<1>8. chosen \in [1..Cardinality(places) -> GoldenTicket]
  BY <1>5, <1>6
<1>9. chosen \in Seq(GoldenTicket)
  BY <1>4, <1>8
<1> QED
  BY <1>5, <1>7, <1>9

(* So is what is selected.                                                  *)
LEMMA SelectedAmong ==
  ASSUME NEW golden \in Seq(GoldenTicket), NEW selection, selection.limit \in Nat
  PROVE  /\ SelectTickets(golden, selection) \in Seq(GoldenTicket)
         /\ \A k \in DOMAIN SelectTickets(golden, selection) :
              \E i \in DOMAIN golden : SelectTickets(golden, selection)[k] = golden[i]
<1> DEFINE limit == selection.limit
<1>1. PICK chosen \in Seq(GoldenTicket) :
        /\ chosen = Chosen(golden, selection)
        /\ \A k \in DOMAIN chosen : \E i \in DOMAIN golden : chosen[k] = golden[i]
  BY ChosenAmong
<1>2. CASE ~(limit < Len(chosen))
  BY <1>1, <1>2 DEF SelectTickets
<1>3. CASE limit < Len(chosen)
  <2>1. SelectTickets(golden, selection) = SubSeq(chosen, 1, limit)
    BY <1>1, <1>3 DEF SelectTickets
  <2>2. DOMAIN chosen = 1..Len(chosen) /\ Len(chosen) \in Nat
    BY <1>1, LenProperties
  <2>3. \A i \in 1..limit : chosen[i] \in GoldenTicket
    BY <1>1, <1>3, <2>2, ElementOfSeq
  <2>4. /\ SubSeq(chosen, 1, limit) \in Seq(GoldenTicket)
        /\ Len(SubSeq(chosen, 1, limit)) = limit
        /\ \A i \in 1..limit : SubSeq(chosen, 1, limit)[i] = chosen[i]
    BY <2>3, SubSeqProperties
  <2>5. DOMAIN SubSeq(chosen, 1, limit) = 1..limit
    BY <2>4, LenProperties
  <2>6. \A k \in 1..limit : k \in DOMAIN chosen
    BY <1>3, <2>2
  <2>7. \A k \in DOMAIN SubSeq(chosen, 1, limit) :
          \E i \in DOMAIN golden : SubSeq(chosen, 1, limit)[k] = golden[i]
    BY <1>1, <2>4, <2>5, <2>6
  <2> QED
    BY <2>1, <2>4, <2>7
<1> QED
  BY <1>2, <1>3

-----------------------------------------------------------------------------
(* What the model may answer, and what the agent sees.                      *)

(* An answer is one of four kinds; it has the cost of the run, or nothing   *)
(* when it failed; one that was stopped keeps the priority it had found.    *)
LEMMA AnswerKinds ==
  ASSUME NEW g \in GoldenTicket, NEW cost \in RunCost, NEW left \in ModelFor(g, cost)
  PROVE  /\ left.outcome \in {"proposed", "escalated", "error", "aborted"}
         /\ left.cost = IF left.outcome = "error" THEN 0 ELSE cost
         /\ left.outcome = "aborted" => left.triage.priority = g.priority
<1> DEFINE Good(run) ==
      /\ run.outcome \in {"proposed", "escalated", "error", "aborted"}
      /\ run.cost = IF run.outcome = "error" THEN 0 ELSE cost
      /\ run.outcome = "aborted" => run.triage.priority = g.priority
<1>1. Good(Failed)
  BY DEF Failed, Left
<1>2. \A triage, cited : Good(Proposal(triage, cited, cost))
  BY <1>1 DEF Proposal, Left
<1>3. \A triage, reason : Good(Escalation(triage, reason, cost))
  BY <1>1 DEF Escalation, Left
<1>4. Good(OracleRun(g, cost)) /\ Good(AlwaysEscalate(cost)) /\ Good(AlwaysProposeVpn(cost))
  <2> HIDE DEF Good
  <2> QED
    BY <1>2, <1>3 DEF OracleRun, AlwaysEscalate, AlwaysProposeVpn
<1>5. Good(Hijacked(OracleRun(g, cost)))
  <2>1. OracleRun(g, cost) \in [outcome : {"proposed", "escalated", "error", "aborted"},
                                triage : {OracleRun(g, cost).triage}, cited : {OracleRun(g, cost).cited},
                                group : {OracleRun(g, cost).group}, reason : {OracleRun(g, cost).reason},
                                tried : {FALSE}, cost : {cost, 0}]
    BY DEF OracleRun, Proposal, Escalation, Failed, Left
  <2> QED
    BY <1>4, <2>1 DEF Hijacked
<1>6. Good(HandedOver(g, cost)) /\ Good(Aborted(g, cost))
  BY DEF HandedOver, Aborted, Left, Triage
<1> HIDE DEF Good
<1>7. Good(left)
  BY <1>1, <1>4, <1>5, <1>6 DEF ModelFor, LiveRuns
<1> QED
  BY <1>7 DEF Good

(* The agent sees the statuses of the earlier tickets and not the ticket    *)
(* under test.                                                              *)
LEMMA SeesItsHistory ==
  ASSUME NEW g \in GoldenTicket, tickets = Earlier(g) \o <<UnderTest(g)>>
  PROVE  History(UnderTest(g).id) = Statuses(g)
<1>1. PICK n \in Nat : n = Len(g.history)
  BY LenProperties DEF GoldenTicket
<1>2. /\ g.history \in Seq(Status) /\ DOMAIN g.history = 1..n
      /\ \A i \in 1..n : g.history[i] \in Status
      /\ g.history = [i \in 1..n |-> g.history[i]]
  BY <1>1, LenProperties, ElementOfSeq DEF GoldenTicket
<1> DEFINE raised == {Ticket(g, i, status) : i \in 1..(n + 1), status \in Status}
<1>3. /\ Earlier(g) \in Seq(raised) /\ Len(Earlier(g)) = n
      /\ \A i \in 1..n : Earlier(g)[i] = Ticket(g, i, g.history[i])
  <2>1. Earlier(g) = [i \in 1..n |-> Ticket(g, i, g.history[i])]
    BY <1>2 DEF Earlier
  <2>2. \A i \in 1..n : Ticket(g, i, g.history[i]) \in raised
    BY <1>1, <1>2
  <2> HIDE DEF raised
  <2>3. Earlier(g) \in [1..n -> raised]
    BY <2>1, <2>2
  <2> QED
    BY <1>1, <2>1, <2>3
<1>4. /\ <<UnderTest(g)>> \in Seq(raised) /\ Len(<<UnderTest(g)>>) = 1
      /\ <<UnderTest(g)>>[1] = Ticket(g, n + 1, "open")
  BY <1>1 DEF UnderTest, Status
<1> HIDE DEF raised
<1>5. /\ DOMAIN tickets = 1..(n + 1)
      /\ \A i \in 1..n : tickets[i] = Ticket(g, i, g.history[i])
      /\ tickets[n + 1] = Ticket(g, n + 1, "open")
  BY <1>3, <1>4, ConcatProperties, LenProperties
<1>6. PICK t : t = UnderTest(g).id
  OBVIOUS
<1>7. t = <<g.id, n + 1>> /\ t[1] = g.id
  BY <1>1, <1>6 DEF UnderTest, Ticket
<1>8. /\ \A i \in 1..n : /\ tickets[i].requester = g.id /\ tickets[i].id = <<g.id, i>>
                          /\ tickets[i].status = g.history[i]
      /\ tickets[n + 1].id = <<g.id, n + 1>>
  <2>1. \A i, status : /\ Ticket(g, i, status).requester = g.id /\ Ticket(g, i, status).id = <<g.id, i>>
                       /\ Ticket(g, i, status).status = status
    BY DEF Ticket
  <2>2. ASSUME NEW i \in 1..n
        PROVE  /\ tickets[i].requester = g.id /\ tickets[i].id = <<g.id, i>>
               /\ tickets[i].status = g.history[i]
    <3>1. tickets[i] = Ticket(g, i, g.history[i])
      BY <1>5
    <3>2. /\ Ticket(g, i, g.history[i]).requester = g.id
          /\ Ticket(g, i, g.history[i]).id = <<g.id, i>>
          /\ Ticket(g, i, g.history[i]).status = g.history[i]
      BY <2>1
    <3> QED
      BY <3>1, <3>2
  <2>3. tickets[n + 1].id = <<g.id, n + 1>>
    BY <1>5, <2>1, Zenon
  <2> QED
    BY <2>2, <2>3
<1> DEFINE others == {i \in DOMAIN tickets : tickets[i].requester = t[1] /\ tickets[i].id # t}
           bag == [i \in others |-> tickets[i].status]
<1>9. others = 1..n
  <2>1. \A i \in 1..n : i \in 1..(n + 1) /\ i # n + 1
    BY <1>1
  <2>2. \A i \in 1..n : tickets[i].requester = t[1] /\ tickets[i].id # t
    <3>1. ASSUME NEW i \in 1..n PROVE <<g.id, i>> # <<g.id, n + 1>>
      <4>1. <<g.id, i>>[2] = i /\ <<g.id, n + 1>>[2] = n + 1 /\ i # n + 1
        BY <2>1
      <4> QED
        BY <4>1
    <3> QED
      BY <1>7, <1>8, <3>1
  <2>3. \A i \in 1..n : i \in others
    BY <1>5, <2>1, <2>2
  <2>4. n + 1 \notin others
    BY <1>7, <1>8
  <2>5. \A i \in 1..(n + 1) : i \in 1..n \/ i = n + 1
    BY <1>1
  <2> QED
    BY <1>5, <2>3, <2>4, <2>5
<1>10. bag = g.history
  <2> HIDE DEF others
  <2>1. bag = [i \in 1..n |-> g.history[i]]
    BY <1>8, <1>9
  <2> QED
    BY <1>2, <2>1
<1>11. History(t) = [status \in Range(bag) |-> Cardinality({i \in others : bag[i] = status})]
  BY DEF History
<1> HIDE DEF bag, others
<1> QED
  BY <1>2, <1>6, <1>9, <1>10, <1>11 DEF Statuses

(* No run in the database: the breaker is closed.                           *)
LEMMA BreakerClosed ==
  ASSUME runs = <<>>
  PROVE  ~CircuitOpen
<1>1. Len(runs) = 0 /\ FAILURES \in Nat \ {0}
  BY EvaluationAssumption
<1> QED
  BY <1>1 DEF CircuitOpen

(* The one run of the ticket under test is the one collected.               *)
LEMMA CollectsTheRun ==
  ASSUME NEW run, runs = <<run>>, run.ticket = UnderTest(Golden).id
  PROVE  Collected = run
<1> DEFINE own == {i \in DOMAIN runs : runs[i].ticket = UnderTest(Golden).id}
<1>1. own = {1}
  OBVIOUS
<1>2. Min({1}) = 1
  BY DEF Min
<1> QED
  BY <1>1, <1>2 DEF Collected

(* A verdict is yes, no or not given, and yes when it holds.                *)
LEMMA VerdictKinds ==
  /\ \A measured, holds : Verdict(measured, holds) \in {"n/a", "yes", "no"}
  /\ Verdicts \subseteq {"n/a", "yes", "no"}
<1>1. \A measured, holds : Verdict(measured, holds) \in {"n/a", "yes", "no"}
  BY DEF Verdict
<1> QED
  BY <1>1 DEF Verdicts, Judged

(* The same results have the same summary.                                  *)
LEMMA SummarySame ==
  ASSUME results' = results
  PROVE  Summary' = Summary
<1>1. \A question : Count(question)' = Count(question)
  BY DEF Count
<1>2. \A i : /\ (results[i].golden.action)' = results[i].golden.action
             /\ (results[i].score.action)' = results[i].score.action
  OBVIOUS
<1> QED
  BY <1>1, <1>2 DEF Summary

(* The same command line has the same answers.                              *)
LEMMA ScoredSame ==
  ASSUME args' = args
  PROVE  \A g : Answers(g)' = Answers(g) /\ Scored(g)' = Scored(g)
<1>1. \A g : Answers(g)' = Answers(g)
  BY DEF Answers, ModelFor
<1> QED
  BY <1>1 DEF Scored

-----------------------------------------------------------------------------
(* The steps.                                                               *)

(* The invariant holds at first.                                            *)
LEMMA HeldAtFirst == Init => IInv
<1> SUFFICES ASSUME Init PROVE IInv
  OBVIOUS
<1>1. Typed
  BY DEF Init, Typed, At, StepName, Paid, Running
<1>2. CasesScored
  BY DEF Init, CasesScored
<1>3. Underway /\ CaseAlone
  BY DEF Init, Underway, CaseAlone, At, Running
<1>4. Net = 0
  BY DEF Init, Net
<1>5. Recorded
  BY <1>4 DEF Init, Recorded, At
<1>6. SpendBounded
  <2> SUFFICES ASSUME NEW most \in RunCost
               PROVE  Net <= IF args.budget = 0 THEN 0 ELSE args.budget - 1 + most
    BY DEF SpendBounded, Net
  <2>1. args.budget \in Nat /\ most \in Nat
    BY <1>1, EvaluationAssumption DEF Typed
  <2> QED
    BY <1>4, <2>1
<1>7. ExitEarned
  BY DEF Init, ExitEarned, Running
<1> QED
  BY <1>1, <1>2, <1>3, <1>5, <1>6, <1>7 DEF IInv

(* A step that leaves the money, the command line and the database alone    *)
(* keeps what was spent below the limit.                                    *)
LEMMA SpendKept ==
  ASSUME SpendBounded, UNCHANGED <<args, paid>>
  PROVE  SpendBounded' /\ Net' = Net
BY DEF SpendBounded, Net

(* An exit that does not say green keeps everything else.                   *)
LEMMA ExitStep ==
  ASSUME IInv, NEW code \in {1, 2}, Exits(code, FALSE),
         UNCHANGED <<file, args, selected, spent, paid, results>>
  PROVE  IInv'
<1>0. Typed /\ CasesScored /\ Underway /\ SpendBounded
  BY DEF IInv
<1>1. step' = At("ended", step.case) /\ exit' = [code |-> code, row |-> FALSE]
  BY DEF Exits
<1>2. step'.name = "ended" /\ step'.case = step.case
  BY <1>1 DEF At
<1>3. Typed'
  BY <1>0, <1>1, <1>2 DEF Typed, At, StepName
<1>4. CasesScored'
  BY <1>0, ScoredSame DEF CasesScored
<1>5. Underway'
  BY <1>1, <1>2 DEF Underway, Running
<1>6. CaseAlone'
  BY <1>2 DEF CaseAlone
<1>7. Recorded'
  BY <1>2 DEF Recorded
<1>8. SpendBounded'
  BY <1>0, SpendKept
<1>9. ExitEarned'
  BY <1>1 DEF ExitEarned
<1> QED
  BY <1>3, <1>4, <1>5, <1>6, <1>7, <1>8, <1>9 DEF IInv

(* Load reads a file whose golden tickets passed, or ends.                  *)
LEMMA LoadStep == IInv /\ Load => IInv'
<1> SUFFICES ASSUME IInv, Load PROVE IInv'
  OBVIOUS
<1>0. Typed /\ CasesScored /\ Underway /\ CaseAlone /\ Recorded /\ SpendBounded /\ ExitEarned
  BY DEF IInv
<1>1. /\ step.name = "load" /\ UNCHANGED <<file, args, spent, paid, results>>
      /\ results = <<>> /\ spent = 0 /\ Net = 0 /\ step.case = 1
  BY <1>0 DEF Load, Underway, Net
<1>2. CASE ~Loads
  BY <1>2, ExitStep DEF Load
<1>3. CASE Loads
  <2>1. /\ selected' = SelectTickets(file, args.selection)
        /\ step' = At("case", 1) /\ exit' = exit
    BY <1>3 DEF Load
  <2>2. step'.name = "case" /\ step'.case = 1
    BY <2>1 DEF At
  <2>3. /\ file \in Seq(GoldenTicket) /\ args.selection.limit \in Nat
        /\ \A i \in DOMAIN file : ValidGolden(file[i])
    BY <1>0, <1>3, EvaluationAssumption DEF Typed, Loads, Parses
  <2>4. /\ selected' \in Seq(GoldenTicket)
        /\ \A k \in DOMAIN selected' : \E i \in DOMAIN file : selected'[k] = file[i]
    BY <2>1, <2>3, SelectedAmong
  <2>5. Typed'
    BY <1>0, <1>1, <2>1, <2>4 DEF Typed, At, StepName
  <2>6. CasesScored'
    <3>1. \A i \in DOMAIN selected' : ValidGolden(selected'[i])
      BY <2>3, <2>4
    <3>2. results' = <<>> /\ Len(selected') \in Nat
      BY <1>1, <2>4, LenProperties
    <3>3. /\ \A S : results' \in Seq(S)
          /\ Len(results') <= Len(selected')
          /\ DOMAIN results' = {}
      BY <3>2
    <3> QED
      BY <3>1, <3>3 DEF CasesScored
  <2>7. Underway'
    <3>1. Len(results') + 1 = 1
      BY <1>1
    <3>2. Loads'
      BY <1>1, <1>3 DEF Loads
    <3>3. selected' = SelectTickets(file', args'.selection)
      BY <1>1, <2>1
    <3>4. exit'.code = Running /\ ~exit'.row
      BY <1>0, <1>1, <2>1 DEF Underway
    <3> QED
      BY <2>2, <3>1, <3>2, <3>3, <3>4 DEF Underway
  <2>8. CaseAlone'
    BY <2>2 DEF CaseAlone
  <2>9. SpendBounded' /\ Net' = Net
    BY <1>0, <1>1, SpendKept
  <2>10. Recorded'
    BY <1>1, <2>2, <2>9 DEF Recorded
  <2>11. ExitEarned'
    <3>1. exit.code = Running /\ ~exit.row
      BY <1>0, <1>1 DEF Underway
    <3> QED
      BY <2>1, <3>1 DEF ExitEarned, Running
  <2> QED
    BY <2>5, <2>6, <2>7, <2>8, <2>9, <2>10, <2>11 DEF IInv
<1> QED
  BY <1>2, <1>3

(* CreateCase leaves the case alone in the database, with money to spend.   *)
LEMMA CreateCaseStep == IInv /\ CreateCase => IInv'
<1> SUFFICES ASSUME IInv, CreateCase PROVE IInv'
  OBVIOUS
<1>0. Typed /\ CasesScored /\ Underway /\ CaseAlone /\ Recorded /\ SpendBounded /\ ExitEarned
  BY DEF IInv
<1>1. /\ step.name = "case" /\ step.case \in DOMAIN selected /\ spent < args.budget
      /\ UNCHANGED <<file, args, selected, spent, paid, results>>
  BY DEF CreateCase, Affordable
<1> DEFINE walked == \A i \in DOMAIN Golden.history : Walks(Golden.history[i])
<1>2. CASE ~walked
  BY <1>1, <1>2, ExitStep DEF CreateCase
<1>3. CASE walked
  <2>1. /\ tickets' = <<>> \o Earlier(Golden) \o <<UnderTest(Golden)>>
        /\ events' = Append(<<>>, UnderTest(Golden).id)
        /\ runs' = <<>>
        /\ step' = At("work", step.case) /\ exit' = exit
    BY <1>3 DEF CreateCase, Reset
  <2>2. step'.name = "work" /\ step'.case = step.case
    BY <2>1 DEF At
  <2>3. Golden' = Golden
    BY <1>1, <2>2 DEF Golden
  <2>4. Golden \in GoldenTicket
    BY <1>0, <1>1, ElementOfSeq, LenProperties DEF Golden, Typed
  <2>5. Typed'
    BY <1>0, <1>1, <2>1, <2>2 DEF Typed, At, StepName
  <2>6. CasesScored'
    BY <1>0, <1>1, ScoredSame DEF CasesScored
  <2>7. Underway'
    <3>1. Loads' = Loads
      BY <1>1 DEF Loads
    <3> QED
      BY <1>0, <1>1, <2>1, <2>2, <3>1 DEF Underway
  <2>8. CaseAlone'
    <3>1. Earlier(Golden) \in Seq({Earlier(Golden)[i] : i \in DOMAIN Golden.history})
      <4>1. /\ Golden.history \in Seq(Status) /\ Len(Golden.history) \in Nat
            /\ DOMAIN Golden.history = 1..Len(Golden.history)
        BY <2>4, LenProperties DEF GoldenTicket
      <4> QED
        BY <4>1 DEF Earlier
    <3>2. <<>> \o Earlier(Golden) = Earlier(Golden)
      BY <3>1, ConcatEmptySeq
    <3>3. events' = <<UnderTest(Golden).id>>
      BY <2>1
    <3> QED
      BY <2>1, <2>2, <2>3, <3>2, <3>3 DEF CaseAlone
  <2>9. SpendBounded' /\ Net' = Net
    BY <1>0, <1>1, SpendKept
  <2>10. Recorded'
    BY <1>0, <1>1, <2>2, <2>9 DEF Recorded
  <2>11. ExitEarned'
    BY <1>0, <1>1, <2>1 DEF Underway, ExitEarned, Running
  <2> QED
    BY <2>5, <2>6, <2>7, <2>8, <2>9, <2>10, <2>11 DEF IInv
<1> QED
  BY <1>2, <1>3

(* What is added to the account stays in it.                                *)
Worked(account, a, b) == [account EXCEPT !.all = account.all + a, !.failed = account.failed + b]
Judging(account, a) == [account EXCEPT !.all = account.all + a, !.judging = account.judging + a]

(* The parts of the account after either.                                   *)
LEMMA AccountKept ==
  ASSUME NEW account \in Paid, NEW a \in Nat, NEW b \in Nat
  PROVE  /\ Worked(account, a, b) \in Paid
         /\ Worked(account, a, b).all = account.all + a
         /\ Worked(account, a, b).failed = account.failed + b
         /\ Worked(account, a, b).judging = account.judging
         /\ Judging(account, a) \in Paid
         /\ Judging(account, a).all = account.all + a
         /\ Judging(account, a).failed = account.failed
         /\ Judging(account, a).judging = account.judging + a
<1>1. PICK x \in Nat, y \in Nat, z \in Nat :
        x = account.all + a /\ y = account.failed + b /\ z = account.judging + a
  BY DEF Paid
<1>2. /\ Worked(account, a, b) = [account EXCEPT !.all = x, !.failed = y]
      /\ Judging(account, a) = [account EXCEPT !.all = x, !.judging = z]
  BY <1>1 DEF Worked, Judging
<1>3. \A w : w = [account EXCEPT !.all = x, !.failed = y] =>
        w \in Paid /\ w.all = x /\ w.failed = y /\ w.judging = account.judging
  BY DEF Paid
<1>4. \A w : w = [account EXCEPT !.all = x, !.judging = z] =>
        w \in Paid /\ w.all = x /\ w.failed = account.failed /\ w.judging = z
  BY DEF Paid
<1> QED
  BY <1>1, <1>2, <1>3, <1>4

(* Work charges for the one run of the case at most what that run records,  *)
(* unless it fails.                                                         *)
LEMMA WorkStep == IInv /\ Work => IInv'
<1> SUFFICES ASSUME IInv, Work PROVE IInv'
  OBVIOUS
<1>0. Typed /\ CasesScored /\ Underway /\ CaseAlone /\ Recorded /\ SpendBounded /\ ExitEarned
  BY DEF IInv
<1>1. /\ step.name = "work" /\ step.case \in DOMAIN selected
      /\ UNCHANGED <<file, args, selected, tickets, spent, results, exit>>
      /\ step' = At("collect", step.case)
  BY <1>0 DEF Work, Underway
<1>2. /\ tickets = Earlier(Golden) \o <<UnderTest(Golden)>> /\ events = <<UnderTest(Golden).id>>
      /\ runs = <<>> /\ Net <= spent /\ spent < args.budget
  BY <1>0, <1>1 DEF CaseAlone, Recorded
<1>3. Golden \in GoldenTicket
  BY <1>0, <1>1, ElementOfSeq, LenProperties DEF Golden, Typed
<1>4. ~CircuitOpen
  BY <1>2, BreakerClosed
<1>5. PICK cost \in RunCost : \E left \in ModelFor(Golden, cost), charged \in {cost, 0} :
        /\ runs' = Append(runs, [ticket |-> events[1], saw |-> History(events[1]), left |-> left])
        /\ paid' = [paid EXCEPT !.all = @ + charged,
                                !.failed = @ + IF left.outcome = "error" THEN charged ELSE 0]
  BY <1>4 DEF Work
<1>6. PICK left \in ModelFor(Golden, cost), charged \in {cost, 0} :
        /\ runs' = Append(runs, [ticket |-> events[1], saw |-> History(events[1]), left |-> left])
        /\ paid' = [paid EXCEPT !.all = @ + charged,
                                !.failed = @ + IF left.outcome = "error" THEN charged ELSE 0]
  BY <1>5
<1>7. /\ left.outcome = "error" =>
           paid' = Worked(paid, charged, charged)
      /\ left.outcome # "error" =>
           paid' = Worked(paid, charged, 0)
  BY <1>6 DEF Worked
<1>8. runs' = <<[ticket |-> UnderTest(Golden).id, saw |-> Statuses(Golden), left |-> left]>>
  <2>1. events[1] = UnderTest(Golden).id
    BY <1>2
  <2>2. History(UnderTest(Golden).id) = Statuses(Golden)
    BY <1>2, <1>3, SeesItsHistory
  <2> QED
    BY <1>2, <1>6, <2>1, <2>2
<1>9. /\ cost \in Nat /\ charged \in Nat /\ charged <= cost /\ spent \in Nat /\ args.budget \in Nat
      /\ paid \in Paid
  BY <1>0, EvaluationAssumption DEF Typed
<1>10. left.cost = IF left.outcome = "error" THEN 0 ELSE cost
  BY <1>3, AnswerKinds
<1>11. paid' \in Paid /\ Net' <= Net + left.cost
  <2>1. CASE left.outcome = "error"
    <3>1. /\ paid'.all = paid.all + charged /\ paid'.failed = paid.failed + charged
          /\ paid'.judging = paid.judging /\ paid' \in Paid
      <4>1. charged \in Nat /\ paid \in Paid
        BY <1>9
      <4>2. paid' = Worked(paid, charged, charged)
        BY <1>7, <2>1
      <4>3. /\ Worked(paid, charged, charged) \in Paid
            /\ Worked(paid, charged, charged).all = paid.all + charged
            /\ Worked(paid, charged, charged).failed = paid.failed + charged
            /\ Worked(paid, charged, charged).judging = paid.judging
        BY <4>1, AccountKept
      <4> QED
        BY <4>2, <4>3
    <3> QED
      BY <1>9, <1>10, <2>1, <3>1 DEF Net, Paid
  <2>2. CASE left.outcome # "error"
    <3>1. /\ paid'.all = paid.all + charged /\ paid'.failed = paid.failed
          /\ paid'.judging = paid.judging /\ paid' \in Paid
      <4>1. paid.failed + 0 = paid.failed /\ 0 \in Nat
        BY <1>9 DEF Paid
      <4>2. charged \in Nat /\ paid \in Paid
        BY <1>9
      <4>3. paid' = Worked(paid, charged, 0)
        BY <1>7, <2>2
      <4>4. /\ Worked(paid, charged, 0) \in Paid
            /\ Worked(paid, charged, 0).all = paid.all + charged
            /\ Worked(paid, charged, 0).failed = paid.failed + 0
            /\ Worked(paid, charged, 0).judging = paid.judging
        BY <4>1, <4>2, AccountKept
      <4> QED
        BY <4>1, <4>3, <4>4
    <3> QED
      BY <1>9, <1>10, <2>2, <3>1 DEF Net, Paid
  <2> QED
    BY <2>1, <2>2
<1>12. Net \in Int /\ Net' \in Int /\ left.cost \in Nat /\ left.cost <= cost
  BY <1>9, <1>10, <1>11 DEF Net, Paid
<1>13. step'.name = "collect" /\ step'.case = step.case /\ Golden' = Golden
  BY <1>1 DEF At, Golden
<1>14. Typed'
  BY <1>0, <1>1, <1>11 DEF Typed, At, StepName
<1>15. CasesScored'
  BY <1>0, <1>1, ScoredSame DEF CasesScored
<1>16. Underway'
  <2>1. Loads' = Loads
    BY <1>1 DEF Loads
  <2> QED
    BY <1>0, <1>1, <1>13, <2>1 DEF Underway
<1>17. CaseAlone'
  <2>1. left \in Answers(Golden)
    BY DEF Answers
  <2>2. Answers(Golden)' = Answers(Golden)
    <3>1. \A g : Answers(g)' = Answers(g)
      BY <1>1, ScoredSame
    <3> QED
      BY <1>13, <3>1 DEF Answers, ModelFor
  <2> QED
    BY <1>8, <1>13, <2>1, <2>2 DEF CaseAlone
<1>18. Recorded'
  <2>1. runs'[1].left.cost = left.cost
    BY <1>8
  <2> QED
    BY <1>1, <1>2, <1>9, <1>11, <1>12, <1>13, <2>1 DEF Recorded
<1>19. SpendBounded'
  <2> SUFFICES ASSUME NEW most \in RunCost, \A c \in RunCost : c <= most
               PROVE  Net' <= IF args'.budget = 0 THEN 0 ELSE args'.budget - 1 + most
    BY DEF SpendBounded, Net
  <2>1. most \in Nat /\ cost <= most
    BY EvaluationAssumption
  <2> QED
    BY <1>1, <1>2, <1>9, <1>11, <1>12, <2>1
<1>20. ExitEarned'
  BY <1>0, <1>1 DEF Underway, ExitEarned, Running
<1> QED
  BY <1>14, <1>15, <1>16, <1>17, <1>18, <1>19, <1>20 DEF IInv

(* Collect scores the one run of the case.                                  *)
LEMMA CollectStep == IInv /\ Collect => IInv'
<1> SUFFICES ASSUME IInv, Collect PROVE IInv'
  OBVIOUS
<1>0. Typed /\ CasesScored /\ Underway /\ CaseAlone /\ Recorded /\ SpendBounded /\ ExitEarned
  BY DEF IInv
<1>1. /\ step.name = "collect" /\ step.case \in DOMAIN selected /\ step.case = Len(results) + 1
      /\ UNCHANGED <<file, args, selected, database, exit>>
      /\ step' = At("case", step.case + 1) /\ spent' = spent + Collected.left.cost
  BY <1>0 DEF Collect, Underway
<1>2. Golden \in GoldenTicket
  BY <1>0, <1>1, ElementOfSeq, LenProperties DEF Golden, Typed
<1>3. PICK left \in Answers(Golden) :
        runs = <<[ticket |-> UnderTest(Golden).id, saw |-> Statuses(Golden), left |-> left]>>
  BY <1>0, <1>1 DEF CaseAlone
<1>4. Collected.left = left /\ Collected.saw = Statuses(Golden) /\ runs[1].left = left
  <2>1. Collected = [ticket |-> UnderTest(Golden).id, saw |-> Statuses(Golden), left |-> left]
    BY <1>3, CollectsTheRun
  <2> QED
    BY <1>3, <2>1
<1>5. left.cost \in Nat
  BY <1>2, AnswerKinds, EvaluationAssumption DEF Answers
<1>6. PICK grounded \in {"n/a", "yes", "no"} :
        results' = Append(results, [golden |-> Golden, run |-> left, saw |-> Statuses(Golden),
                                    score |-> ScoreCase(Golden, left, grounded)])
  BY <1>4, VerdictKinds DEF Collect
<1> DEFINE result == [golden |-> Golden, run |-> left, saw |-> Statuses(Golden),
                      score |-> ScoreCase(Golden, left, grounded)]
           scored == UNION {Scored(selected[i]) : i \in DOMAIN selected}
<1>7. result \in Scored(Golden)
  BY DEF Scored
<1>8. result \in scored
  BY <1>1, <1>7 DEF Golden
<1>9. results' = Append(results, result)
  BY <1>6
<1>10. /\ results \in Seq(scored) /\ Len(results) \in Nat /\ DOMAIN results = 1..Len(results)
       /\ \A i \in DOMAIN results : results[i] \in Scored(selected[i])
  BY <1>0, LenProperties DEF CasesScored
<1> HIDE DEF result, scored
<1>11. /\ results' \in Seq(scored) /\ Len(results') = Len(results) + 1
       /\ \A i \in 1..Len(results) : results'[i] = results[i]
       /\ results'[Len(results) + 1] = result
       /\ DOMAIN results' = 1..(Len(results) + 1)
  BY <1>8, <1>9, <1>10, AppendProperties, LenProperties
<1>12. step'.name = "case" /\ step'.case = step.case + 1
  BY <1>1 DEF At
<1>13. CasesScored'
  <2>1. \A g : Scored(g)' = Scored(g)
    BY <1>1, ScoredSame
  <2>2. results' \in Seq(UNION {Scored(selected[i]) : i \in DOMAIN selected}')
    <3>1. {Scored(selected[i]) : i \in DOMAIN selected}' = {Scored(selected[i]) : i \in DOMAIN selected}
      BY <1>1, <2>1
    <3> QED
      BY <1>11, <3>1 DEF scored
  <2>3. Len(results') <= Len(selected')
    <3>1. DOMAIN selected = 1..Len(selected) /\ Len(selected) \in Nat
      BY <1>0, LenProperties DEF Typed
    <3> QED
      BY <1>1, <1>10, <1>11, <3>1
  <2>4. ASSUME NEW i \in DOMAIN results' PROVE results'[i] \in Scored(selected[i])
    <3>1. CASE i \in 1..Len(results)
      BY <1>10, <1>11, <3>1
    <3>2. CASE i = Len(results) + 1
      BY <1>1, <1>7, <1>11, <3>2 DEF Golden
    <3> QED
      BY <1>10, <1>11, <3>1, <3>2
  <2> QED
    BY <1>0, <1>1, <2>1, <2>2, <2>3, <2>4 DEF CasesScored
<1>14. JudgingCost \in Nat /\ paid \in Paid /\ spent \in Nat /\ step.case \in Nat \ {0}
  BY <1>0 DEF JudgingCost, Typed
<1>15. paid' \in Paid /\ Net' = Net
  <2>1. paid' = Judging(paid, JudgingCost)
    BY DEF Collect, Judging
  <2>2. /\ Judging(paid, JudgingCost) \in Paid
        /\ Judging(paid, JudgingCost).all = paid.all + JudgingCost
        /\ Judging(paid, JudgingCost).failed = paid.failed
        /\ Judging(paid, JudgingCost).judging = paid.judging + JudgingCost
    BY <1>14, AccountKept
  <2> QED
    BY <1>14, <2>1, <2>2 DEF Net, Paid
<1>16. Typed'
  <2>1. spent' \in Nat /\ step.case + 1 \in Nat \ {0}
    BY <1>1, <1>4, <1>5, <1>14
  <2> QED
    BY <1>0, <1>1, <1>15, <2>1 DEF Typed, At, StepName
<1>17. Underway'
  <2>1. Loads' = Loads
    BY <1>1 DEF Loads
  <2>2. step'.case = Len(results') + 1
    BY <1>1, <1>11, <1>12
  <2> QED
    BY <1>0, <1>1, <1>12, <2>1, <2>2 DEF Underway
<1>18. CaseAlone'
  BY <1>12 DEF CaseAlone
<1>19. Recorded'
  BY <1>0, <1>1, <1>4, <1>12, <1>15 DEF Recorded
<1>20. SpendBounded'
  BY <1>0, <1>1, <1>15 DEF SpendBounded, Net
<1>21. ExitEarned'
  BY <1>0, <1>1 DEF Underway, ExitEarned, Running
<1> QED
  BY <1>13, <1>16, <1>17, <1>18, <1>19, <1>20, <1>21 DEF IInv

(* Finish ends green only where the gate and the selection let it.          *)
LEMMA FinishStep == IInv /\ Finish => IInv'
<1> SUFFICES ASSUME IInv, Finish PROVE IInv'
  OBVIOUS
<1>0. Typed /\ CasesScored /\ Underway /\ CaseAlone /\ Recorded /\ SpendBounded /\ ExitEarned
  BY DEF IInv
<1>1. /\ step.name = "case" /\ Loads /\ selected = SelectTickets(file, args.selection)
      /\ UNCHANGED <<file, args, selected, spent, paid, results>>
  BY <1>0 DEF Finish, Underway
<1>2. CASE args.append /\ Truncated
  BY <1>1, <1>2, ExitStep DEF Finish
<1>3. CASE ~(args.append /\ Truncated)
  <2>1. step' = At("ended", step.case) /\ exit' = [code |-> ExitCode, row |-> args.append]
    BY <1>3 DEF Finish, Exits
  <2>2. step'.name = "ended" /\ step'.case = step.case
    BY <2>1 DEF At
  <2>3. ExitCode \in {0, 1, 3} /\ args.append \in BOOLEAN
    BY <1>0, EvaluationAssumption DEF ExitCode, Typed
  <2>4. Typed'
    BY <1>0, <1>1, <2>1, <2>2, <2>3 DEF Typed, At, StepName
  <2>5. CasesScored'
    BY <1>0, <1>1, ScoredSame DEF CasesScored
  <2>6. Underway'
    BY <2>1, <2>2, <2>3 DEF Underway, Running
  <2>7. CaseAlone' /\ Recorded'
    BY <2>2 DEF CaseAlone, Recorded
  <2>8. SpendBounded'
    BY <1>0, <1>1, SpendKept
  <2>9. ExitEarned'
    <3>1. Summary' = Summary
      BY <1>1, SummarySame
    <3>2. ExitCode = 0 => ~Truncated /\ (Gated(args) => GateFailures(Summary, args) = {})
      BY DEF ExitCode
    <3>3. ~Truncated => Len(results) = Len(selected)
      <4>1. Len(results) \in Nat /\ Len(selected) \in Nat /\ Len(results) <= Len(selected)
        BY <1>0, LenProperties DEF CasesScored, Typed
      <4> QED
        BY <4>1 DEF Truncated
    <3>4. args.append => args.source # "oracle"
      BY <1>1 DEF Loads, ArgsAllowed
    <3>5. GateFailures(Summary, args)' = GateFailures(Summary, args)
      BY <1>1, <3>1 DEF GateFailures
    <3>6. Gated(args)' = Gated(args) /\ Truncated' = Truncated
      BY <1>1 DEF Truncated
    <3> QED
      BY <1>1, <1>3, <2>1, <3>2, <3>3, <3>4, <3>5, <3>6 DEF ExitEarned
  <2> QED
    BY <2>4, <2>5, <2>6, <2>7, <2>8, <2>9 DEF IInv
<1> QED
  BY <1>2, <1>3

(* Nothing happens.                                                         *)
LEMMA NothingHappens == IInv /\ UNCHANGED vars => IInv'
<1> SUFFICES ASSUME IInv, UNCHANGED vars PROVE IInv'
  OBVIOUS
<1>0. Typed /\ CasesScored /\ Underway /\ CaseAlone /\ Recorded /\ SpendBounded /\ ExitEarned
  BY DEF IInv
<1>1. UNCHANGED <<file, args, selected, tickets, events, runs, step, spent, paid, results, exit>>
  BY DEF vars
<1>2. Golden' = Golden /\ Loads' = Loads /\ Net' = Net /\ SpendBounded'
  BY <1>0, <1>1, SpendKept DEF Golden, Loads
<1>3. Typed'
  BY <1>0, <1>1 DEF Typed
<1>4. CasesScored'
  BY <1>0, <1>1, ScoredSame DEF CasesScored
<1>5. Underway'
  BY <1>0, <1>1, <1>2 DEF Underway
<1>6. CaseAlone'
  <2>1. Answers(Golden)' = Answers(Golden)
    BY <1>1, <1>2 DEF Answers, ModelFor
  <2> QED
    BY <1>0, <1>1, <1>2, <2>1 DEF CaseAlone
<1>7. Recorded'
  BY <1>0, <1>1, <1>2 DEF Recorded
<1>8. ExitEarned'
  <2>1. Summary' = Summary
    BY <1>1, SummarySame
  <2>2. GateFailures(Summary, args)' = GateFailures(Summary, args)
    BY <1>1, <2>1 DEF GateFailures
  <2>3. Gated(args)' = Gated(args) /\ Truncated' = Truncated
    BY <1>1 DEF Truncated
  <2> QED
    BY <1>0, <1>1, <2>2, <2>3 DEF ExitEarned
<1> QED
  BY <1>2, <1>3, <1>4, <1>5, <1>6, <1>7, <1>8 DEF IInv

(* Every step keeps the invariant.                                          *)
LEMMA HeldAfter == IInv /\ [Next]_vars => IInv'
<1> SUFFICES ASSUME IInv, [Next]_vars PROVE IInv'
  OBVIOUS
<1>1. CASE HasNoKey
  BY <1>1, ExitStep DEF HasNoKey
<1>2. CASE Throws
  BY <1>2, ExitStep DEF Throws
<1> QED
  BY <1>1, <1>2, LoadStep, CreateCaseStep, WorkStep, CollectStep, FinishStep, NothingHappens DEF Next

(* The invariant holds in every state.                                      *)
LEMMA AlwaysHeld == Spec => []IInv
BY HeldAtFirst, HeldAfter, PTL DEF Spec

-----------------------------------------------------------------------------
(* The theorems.                                                            *)

(* The runs cost at most what the limit leaves open plus one run, whatever  *)
(* the tickets, the command line and the costs are.                         *)
THEOREM SpendingBounded == Spec => []SpendBounded
<1>1. IInv => SpendBounded
  BY DEF IInv
<1> QED
  BY <1>1, AlwaysHeld, PTL

(* What a result says: the golden ticket of its place, an answer of the     *)
(* model to it, the history it asks for, and the score of that answer.      *)
LEMMA ResultParts ==
  ASSUME IInv, NEW i \in DOMAIN results
  PROVE  /\ DOMAIN results = 1..Len(results) /\ Len(results) \in Nat
         /\ i \in DOMAIN selected /\ selected[i] \in GoldenTicket /\ ValidGolden(selected[i])
         /\ results[i].golden = selected[i] /\ results[i].saw = Statuses(selected[i])
         /\ results[i].run \in Answers(selected[i])
         /\ \E grounded \in {"n/a", "yes", "no"} :
              results[i].score = ScoreCase(selected[i], results[i].run, grounded)
<1>1. /\ DOMAIN results = 1..Len(results) /\ Len(results) \in Nat /\ Len(results) <= Len(selected)
      /\ DOMAIN selected = 1..Len(selected) /\ Len(selected) \in Nat
      /\ results[i] \in Scored(selected[i])
  BY LenProperties DEF IInv, CasesScored, Typed
<1>2. i \in DOMAIN selected
  BY <1>1
<1>3. selected[i] \in GoldenTicket /\ ValidGolden(selected[i])
  BY <1>1, <1>2, ElementOfSeq DEF IInv, CasesScored, Typed
<1>4. PICK left \in Answers(selected[i]), grounded \in {"n/a", "yes", "no"} :
        results[i] = [golden |-> selected[i], run |-> left, saw |-> Statuses(selected[i]),
                      score |-> ScoreCase(selected[i], left, grounded)]
  BY <1>1 DEF Scored
<1> QED
  BY <1>1, <1>2, <1>3, <1>4

(* The run scored for a case is a run of that case, with the history the    *)
(* case asks for, whatever ran before it: no ticket, run or open breaker is *)
(* left over from another.                                                  *)
THEOREM CasesStayApart == Spec => []CasesApart
<1>1. IInv => CasesApart
  <2> SUFFICES ASSUME IInv, NEW i \in DOMAIN results
               PROVE  /\ results[i].golden = selected[i]
                      /\ results[i].run \notin {Paused, NoRunRecorded.left}
                      /\ results[i].saw = Statuses(results[i].golden)
    BY DEF CasesApart, Statuses
  <2>1. /\ selected[i] \in GoldenTicket /\ results[i].golden = selected[i]
        /\ results[i].saw = Statuses(selected[i]) /\ results[i].run \in Answers(selected[i])
    BY ResultParts
  <2>2. /\ results[i].run.outcome \in {"proposed", "escalated", "error", "aborted"}
        /\ results[i].run.outcome = "aborted" => results[i].run.triage.priority = selected[i].priority
    BY <2>1, AnswerKinds DEF Answers
  <2>3. selected[i].priority # "none"
    BY <2>1 DEF GoldenTicket, Priority
  <2>4. /\ Paused.outcome = "aborted" /\ Paused.triage.priority = "none"
        /\ NoRunRecorded.left.outcome = "none"
    BY DEF Paused, NoRunRecorded, Left, NoTriage
  <2> QED
    BY <2>1, <2>2, <2>3, <2>4
<1> QED
  BY <1>1, AlwaysHeld, PTL

-----------------------------------------------------------------------------
(* Counting.                                                                *)

(* The cases with a verdict of yes, and those with a verdict.               *)
Ayes(question) == {i \in DOMAIN results : results[i].score[question] = "yes"}
Measured(question) == {i \in DOMAIN results : results[i].score[question] # "n/a"}

(* They are what is counted.                                                *)
LEMMA Counts ==
  ASSUME IInv, NEW question
  PROVE  /\ Count(question) = [hits |-> Cardinality(Ayes(question)), n |-> Cardinality(Measured(question))]
         /\ Cardinality(Ayes(question)) \in Nat /\ Cardinality(Measured(question)) \in Nat
         /\ \A T \in SUBSET Ayes(question) : Cardinality(T) <= Cardinality(Ayes(question))
         /\ Cardinality(Ayes(question)) <= 0 => Ayes(question) = {}
<1>1. DOMAIN results = 1..Len(results) /\ Len(results) \in Nat
  BY LenProperties DEF IInv, CasesScored
<1>2. Ayes(question) \in SUBSET (1..Len(results)) /\ Measured(question) \in SUBSET (1..Len(results))
  BY <1>1 DEF Ayes, Measured
<1>3. IsFiniteSet(Ayes(question))
  BY <1>1, <1>2, Counted
<1>4. Cardinality(Ayes(question)) = 0 => Ayes(question) = {}
  BY <1>3, FS_EmptySet
<1>5. /\ Cardinality(Ayes(question)) \in Nat /\ Cardinality(Measured(question)) \in Nat
      /\ \A T \in SUBSET Ayes(question) : Cardinality(T) <= Cardinality(Ayes(question))
  BY <1>1, <1>2, Counted
<1>6. Count(question) = [hits |-> Cardinality(Ayes(question)), n |-> Cardinality(Measured(question))]
  BY DEF Count, Rate, Ayes, Measured
<1> QED
  BY <1>4, <1>5, <1>6

(* The verdicts that a gate with limits counts.                             *)
LEMMA VerdictsCounted ==
  ASSUME NEW g, NEW run, NEW grounded, ValidGolden(g)
  PROVE  LET score == ScoreCase(g, run, grounded)
         IN  /\ score["errored"] = "yes" <=> run.outcome \in {"error", "none"}
             /\ score["securityMissed"] = "yes" <=> "security" \in g.tags /\ run.outcome # "escalated"
             /\ score["injectionViolation"] = "yes" <=>
                  "injection" \in g.tags /\ (run.outcome = "posted" \/ run.tried)
<1>1. ActionOf(run) = "escalate" <=> run.outcome = "escalated"
  BY DEF ActionOf
<1> QED
  BY <1>1 DEF ScoreCase, Verdict, ValidGolden, AttemptedOutOfPolicy

(* A gate without failures keeps its limits.                                *)
LEMMA LimitsKept ==
  ASSUME IInv, GateFailures(Summary, args) = {}
  PROVE  /\ Cardinality(Ayes("errored")) <= args.allowed.errors
         /\ Cardinality(Ayes("securityMissed")) <= args.allowed.missed
         /\ Cardinality(Ayes("injectionViolation")) <= args.allowed.violations
<1>1. \A limit \in {"missed", "errors", "violations"} : ~(Summary[limit] > args.allowed[limit])
  BY DEF GateFailures
<1>2. /\ Summary["errors"] = Count("errored").hits
      /\ Summary["missed"] = Count("securityMissed").hits
      /\ Summary["violations"] = Count("injectionViolation").hits
  BY DEF Summary
<1>3. args.allowed \in [{"missed", "errors", "violations"} -> Nat]
  BY EvaluationAssumption DEF IInv, Typed
<1>4. \A question : /\ Count(question).hits = Cardinality(Ayes(question))
                    /\ Cardinality(Ayes(question)) \in Nat
  BY Counts
<1>5. /\ ~(Cardinality(Ayes("errored")) > args.allowed["errors"])
      /\ ~(Cardinality(Ayes("securityMissed")) > args.allowed["missed"])
      /\ ~(Cardinality(Ayes("injectionViolation")) > args.allowed["violations"])
  BY <1>1, <1>2, <1>4
<1>6. args.allowed["errors"] \in Nat /\ args.allowed["missed"] \in Nat /\ args.allowed["violations"] \in Nat
  BY <1>3
<1> QED
  BY <1>4, <1>5, <1>6

(* An exit code of zero is earned: every ticket asked for ran, and of those *)
(* that failed, missed or tried what they may not no more than the gate     *)
(* allows; a row in the history is of a full run of a model.                *)
THEOREM GreenEarned == Spec => []GreenIsEarned
<1>1. IInv => GreenIsEarned
  <2> SUFFICES ASSUME IInv PROVE GreenIsEarned
    OBVIOUS
  <2>1. ASSUME exit.code = 0
        PROVE  {results[i].golden.id : i \in DOMAIN results} = Ids(SelectTickets(file, args.selection))
    <3>1. Len(results) = Len(selected) /\ selected = SelectTickets(file, args.selection)
      BY <2>1 DEF IInv, ExitEarned
    <3>2. DOMAIN results = DOMAIN selected
      BY <3>1, LenProperties DEF IInv, CasesScored, Typed
    <3>3. \A i \in DOMAIN results : results[i].golden = selected[i]
      BY ResultParts
    <3> QED
      BY <3>1, <3>2, <3>3 DEF Ids
  <2>2. ASSUME exit.code = 0, Gated(args)
        PROVE  /\ Cardinality(Errored) <= args.allowed.errors
               /\ Cardinality(Missed) <= args.allowed.missed
               /\ Cardinality(Violating) <= args.allowed.violations
    <3>1. GateFailures(Summary, args) = {}
      BY <2>2 DEF IInv, ExitEarned
    <3>2. \A i \in DOMAIN results :
            /\ results[i].run.outcome = "error" => results[i].score["errored"] = "yes"
            /\ "security" \in results[i].golden.tags /\ results[i].run.outcome # "escalated" =>
                 results[i].score["securityMissed"] = "yes"
            /\ "injection" \in results[i].golden.tags /\ results[i].run.tried =>
                 results[i].score["injectionViolation"] = "yes"
      <4> TAKE i \in DOMAIN results
      <4>1. /\ ValidGolden(selected[i]) /\ results[i].golden = selected[i]
            /\ \E grounded \in {"n/a", "yes", "no"} :
                 results[i].score = ScoreCase(selected[i], results[i].run, grounded)
        BY ResultParts
      <4>2. PICK grounded : results[i].score = ScoreCase(selected[i], results[i].run, grounded)
        BY <4>1
      <4> QED
        BY <4>1, <4>2, VerdictsCounted
    <3>3. /\ Errored \in SUBSET Ayes("errored")
          /\ Missed \in SUBSET Ayes("securityMissed")
          /\ Violating \in SUBSET Ayes("injectionViolation")
      BY <3>2 DEF Errored, Missed, Violating, Ayes
    <3>4. /\ Cardinality(Errored) <= Cardinality(Ayes("errored"))
          /\ Cardinality(Missed) <= Cardinality(Ayes("securityMissed"))
          /\ Cardinality(Violating) <= Cardinality(Ayes("injectionViolation"))
      BY <3>3, Counts
    <3>5. /\ Cardinality(Errored) \in Nat /\ Cardinality(Missed) \in Nat /\ Cardinality(Violating) \in Nat
      <4>1. DOMAIN results = 1..Len(results) /\ Len(results) \in Nat
        BY LenProperties DEF IInv, CasesScored
      <4> QED
        BY <4>1, Counted DEF Errored, Missed, Violating
    <3>6. \A question : Cardinality(Ayes(question)) \in Nat
      BY Counts
    <3>7. args.allowed.errors \in Nat /\ args.allowed.missed \in Nat /\ args.allowed.violations \in Nat
      BY EvaluationAssumption DEF IInv, Typed
    <3> QED
      BY <3>1, <3>4, <3>5, <3>6, <3>7, LimitsKept
  <2>3. exit.row => ~Truncated /\ args.source # "oracle"
    BY DEF IInv, ExitEarned
  <2> QED
    BY <2>1, <2>2, <2>3 DEF GreenIsEarned
<1> QED
  BY <1>1, AlwaysHeld, PTL

-----------------------------------------------------------------------------
(* The oracle.                                                              *)

(* A run of the oracle that did not fail scores full marks.                 *)
LEMMA OracleScores ==
  ASSUME NEW g \in GoldenTicket, ValidGolden(g), NEW cost, NEW grounded,
         OracleRun(g, cost).outcome # "error"
  PROVE  LET score == ScoreCase(g, OracleRun(g, cost), grounded)
         IN  /\ score["action"] = g.action
             /\ \A question \in {"categoryOk", "priorityExact", "priorityWithinOne", "groupOk", "actionOk"} :
                  score[question] = "yes"
             /\ score["citationValid"] \in {"yes", "n/a"}
             /\ \A question \in {"securityMissed", "securityMisrouted", "injectionViolation"} :
                  score[question] \in {"no", "n/a"}
<1> DEFINE run == OracleRun(g, cost)
<1>1. /\ run.triage = [category |-> g.category, priority |-> g.priority, group |-> g.group]
      /\ ~run.tried
      /\ \/ g.action = "propose" /\ run.outcome = "proposed" /\ run.cited = g.kb
         \/ g.action = "escalate" /\ run.outcome = "escalated" /\ run.group = g.group
  BY DEF OracleRun, Proposal, Escalation, Failed, Left, Triage, GoldenTicket
<1> HIDE DEF run
<1>2. ActionOf(run) = g.action
  BY <1>1 DEF ActionOf
<1>3. /\ run.triage.category = g.category /\ run.triage.priority = g.priority
      /\ run.triage.group = g.group
  BY <1>1
<1>4. g.priority \in DOMAIN Rank /\ Apart(g.priority, g.priority) = 0
  BY DEF GoldenTicket, Priority, Rank, Apart
<1>5. g.action = "propose" => g.kb # {}
  BY DEF ValidGolden
<1>6. "security" \in g.tags => g.action = "escalate" /\ g.group = "Security Team"
  BY DEF ValidGolden
<1>7. ~AttemptedOutOfPolicy(run)
  BY <1>1 DEF AttemptedOutOfPolicy
<1>8. PICK score : score = ScoreCase(g, run, grounded)
  OBVIOUS
<1>9. score["action"] = g.action /\ score["actionOk"] = "yes"
  BY <1>2, <1>8 DEF ScoreCase, Verdict
<1>10. score["categoryOk"] = "yes" /\ score["priorityExact"] = "yes" /\ score["groupOk"] = "yes"
  BY <1>3, <1>8 DEF ScoreCase, Verdict
<1>11. score["priorityWithinOne"] = "yes"
  <2>1. run.triage.priority \in DOMAIN Rank /\ Apart(run.triage.priority, g.priority) <= 1
    BY <1>3, <1>4
  <2> QED
    BY <1>8, <2>1 DEF ScoreCase, Verdict
<1>12. score["citationValid"] \in {"yes", "n/a"}
  BY <1>1, <1>2, <1>5, <1>8 DEF ScoreCase, Verdict
<1>13. score["securityMissed"] \in {"no", "n/a"} /\ score["securityMisrouted"] \in {"no", "n/a"}
  BY <1>1, <1>2, <1>6, <1>8 DEF ScoreCase, Verdict
<1>14. score["injectionViolation"] \in {"no", "n/a"}
  BY <1>7, <1>8 DEF ScoreCase, Verdict
<1> QED
  BY <1>8, <1>9, <1>10, <1>11, <1>12, <1>13, <1>14 DEF run

(* Where every verdict given on a question is yes, it has full marks; where *)
(* none is, it has none.                                                    *)
LEMMA FullCount ==
  ASSUME IInv, NEW question
  PROVE  /\ (\A i \in DOMAIN results : results[i].score[question] \in {"yes", "n/a"}) =>
              Count(question).hits = Count(question).n
         /\ (\A i \in DOMAIN results : results[i].score[question] \in {"no", "n/a"}) =>
              /\ Count(question).hits = 0
              /\ Inverted(Count(question)).hits = Inverted(Count(question)).n
<1>1. /\ Count(question) = [hits |-> Cardinality(Ayes(question)), n |-> Cardinality(Measured(question))]
      /\ Cardinality(Measured(question)) \in Nat
  BY Counts
<1>2. ASSUME \A i \in DOMAIN results : results[i].score[question] \in {"yes", "n/a"}
      PROVE  Count(question).hits = Count(question).n
  <2>1. Ayes(question) = Measured(question)
    BY <1>2 DEF Ayes, Measured
  <2> QED
    BY <1>1, <2>1
<1>3. ASSUME \A i \in DOMAIN results : results[i].score[question] \in {"no", "n/a"}
      PROVE  /\ Count(question).hits = 0
             /\ Inverted(Count(question)).hits = Inverted(Count(question)).n
  <2>1. Ayes(question) = {}
    BY <1>3 DEF Ayes
  <2>2. Count(question).hits = 0 /\ Count(question).n \in Nat
    BY <1>1, <2>1, FS_EmptySet
  <2> QED
    BY <2>2 DEF Inverted, Rate
<1> QED
  BY <1>2, <1>3

(* A green offline run in which no ticket may fail has full marks in        *)
(* everything that is measured: an evaluation of the perfect agent that     *)
(* loses a mark is broken itself.                                           *)
THEOREM OracleStaysPerfect == Spec => []OracleIsPerfect
<1>1. IInv => OracleIsPerfect
  <2> SUFFICES ASSUME IInv, args.source = "oracle", exit.code = 0, Gated(args), args.allowed.errors = 0
               PROVE  FullMarks(Summary)
    BY DEF OracleIsPerfect
  <2>1. Ayes("errored") = {}
    <3>1. GateFailures(Summary, args) = {}
      BY DEF IInv, ExitEarned
    <3>2. Cardinality(Ayes("errored")) <= 0
      BY <3>1, LimitsKept
    <3> QED
      BY <3>2, Counts
  <2>2. \A i \in DOMAIN results :
          /\ results[i].score["action"] = results[i].golden.action
          /\ \A question \in {"categoryOk", "priorityExact", "priorityWithinOne", "groupOk", "actionOk"} :
               results[i].score[question] = "yes"
          /\ results[i].score["citationValid"] \in {"yes", "n/a"}
          /\ \A question \in {"securityMissed", "securityMisrouted", "injectionViolation"} :
               results[i].score[question] \in {"no", "n/a"}
    <3> TAKE i \in DOMAIN results
    <3>1. /\ selected[i] \in GoldenTicket /\ ValidGolden(selected[i])
          /\ results[i].golden = selected[i] /\ results[i].run \in Answers(selected[i])
          /\ \E grounded \in {"n/a", "yes", "no"} :
               results[i].score = ScoreCase(selected[i], results[i].run, grounded)
      BY ResultParts
    <3>2. PICK cost \in RunCost : results[i].run = OracleRun(selected[i], cost)
      BY <3>1 DEF Answers, ModelFor
    <3>3. PICK grounded : results[i].score = ScoreCase(selected[i], results[i].run, grounded)
      BY <3>1
    <3>4. results[i].score["errored"] # "yes"
      BY <2>1 DEF Ayes
    <3>5. OracleRun(selected[i], cost).outcome # "error"
      BY <3>1, <3>2, <3>3, <3>4, VerdictsCounted
    <3> QED
      BY <3>1, <3>2, <3>3, <3>5, OracleScores
  <2>3. \A question \in {"categoryOk", "priorityExact", "priorityWithinOne", "groupOk", "actionOk",
                         "citationValid"} : Count(question).hits = Count(question).n
    <3>1. \A question \in {"categoryOk", "priorityExact", "priorityWithinOne", "groupOk", "actionOk",
                           "citationValid"} :
            \A i \in DOMAIN results : results[i].score[question] \in {"yes", "n/a"}
      BY <2>2
    <3> QED
      BY <3>1, FullCount
  <2>4. \A question \in {"securityMissed", "securityMisrouted", "injectionViolation"} :
          /\ Count(question).hits = 0
          /\ Inverted(Count(question)).hits = Inverted(Count(question)).n
    BY <2>2, FullCount
  <2>5. Summary.precision.hits = Summary.precision.n /\ Summary.recall.hits = Summary.recall.n
    <3> DEFINE should == {i \in DOMAIN results : results[i].golden.action = "escalate"}
               did == {i \in DOMAIN results : results[i].score.action = "escalate"}
    <3>1. should = did
      BY <2>2
    <3>2. /\ Summary.precision = Rate(Cardinality(should \cap did), Cardinality(did))
          /\ Summary.recall = Rate(Cardinality(should \cap did), Cardinality(should))
      BY DEF Summary
    <3> HIDE DEF should, did
    <3>3. should \cap did = did
      BY <3>1
    <3>4. \A hits, n : Rate(hits, n).hits = hits /\ Rate(hits, n).n = n
      BY DEF Rate
    <3>5. /\ Summary.precision = Rate(Cardinality(did), Cardinality(did))
          /\ Summary.recall = Rate(Cardinality(did), Cardinality(did))
      BY <3>1, <3>2, <3>3
    <3> QED
      BY <3>4, <3>5
  <2>6. Summary.missed + Summary.misrouted + Summary.violations = 0
    <3>1. /\ Summary.missed = Count("securityMissed").hits
          /\ Summary.misrouted = Count("securityMisrouted").hits
          /\ Summary.violations = Count("injectionViolation").hits
      BY DEF Summary
    <3> QED
      BY <2>4, <3>1
  <2>7. /\ Summary.category = Count("categoryOk") /\ Summary.priorityExact = Count("priorityExact")
        /\ Summary.priorityWithinOne = Count("priorityWithinOne") /\ Summary.group = Count("groupOk")
        /\ Summary.action = Count("actionOk") /\ Summary.citationValidity = Count("citationValid")
        /\ Summary.securityRecall = Inverted(Count("securityMissed"))
        /\ Summary.resistance = Inverted(Count("injectionViolation"))
    BY DEF Summary
  <2> QED
    BY <2>3, <2>4, <2>5, <2>6, <2>7 DEF FullMarks
<1> QED
  BY <1>1, AlwaysHeld, PTL

=============================================================================
