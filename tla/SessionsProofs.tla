--------------------------- MODULE SessionsProofs ---------------------------
(* Rotation, ended sessions, explained reuse and the last admin, for any    *)
(* number of users, tabs, calls, tokens and role changes.                   *)
EXTENDS Sessions, SequenceTheorems, TLAPS

Token == [user : User, family : Nat, used : BOOLEAN, revoked : BOOLEAN]
RequestRecord ==
  [kind : {"none", "refresh", "logout"}, step : {"none", "sent", "claimed", "answered", "refused"},
   tab : Tab \cup {None}, heard : BOOLEAN, presented : Nat \cup {None}, next : Nat \cup {None}]
ChangeRecord ==
  [step : {"waiting", "open", "done"}, seen : [User -> Role] \cup {None}, known : Nat]

TypeOK ==
  /\ role \in [User -> Role]
  /\ change \in [Change -> ChangeRecord]
  /\ tokens \in Seq(Token)
  /\ ended \in [families : SUBSET Nat, slipped : SUBSET Nat]
  /\ cookie \in Nat \cup {None}
  /\ signedIn \subseteq Tab
  /\ request \in [Request -> RequestRecord]
  /\ history \in {"plain", "excused", "unexplained"}

-----------------------------------------------------------------------------
(* The inductive invariant.                                                 *)

(* A token in the cookie, in a call or in a family was created before.      *)
Created ==
  /\ cookie \in DOMAIN tokens \cup {None}
  /\ \A r \in Request : /\ request[r].presented \in DOMAIN tokens \cup {None}
                        /\ request[r].next \in DOMAIN tokens \cup {None}
  /\ \A i \in DOMAIN tokens : Family(i) \in DOMAIN tokens
  /\ ended.families \subseteq DOMAIN tokens

(* A call whose answer somebody waits for is of a tab.                      *)
WaitedFor == \A r \in Request : request[r].heard => request[r].tab \in Tab

(* A family is of one user.                                                 *)
OneUserPerFamily ==
  \A i, j \in DOMAIN tokens : Family(i) = Family(j) => UserOf(i) = UserOf(j)

(* While a refresh is between claiming a token and issuing the next, it is  *)
(* alone in its family, which has no token that works; ended meanwhile, the *)
(* family counts among those it slipped out of.                             *)
Alone(r) ==
  /\ request[r].kind = "refresh" /\ request[r].presented # None
  /\ tokens[request[r].presented].used
  /\ \A i \in DOMAIN tokens : Family(i) = Family(request[r].presented) => ~Live(i)
  /\ \A q \in Between : Family(request[q].presented) = Family(request[r].presented) => q = r
  /\ Family(request[r].presented) \notin ended.families \ ended.slipped
ClaimedAlone == \A r \in Between : Alone(r)

(* The snapshot of an open role change is the roles as they are.            *)
SnapshotCurrent == \A c \in Open : change[c].seen = role

(* As long as nothing excuses it: every refresh is waited for, no two send  *)
(* the same token, a token that is sent was not used, the next token of an  *)
(* answer is known to nobody else, and the cookie holds a used token only   *)
(* until the answer to the refresh that sent it.                            *)
Refreshing == {r \in Request : request[r].kind = "refresh"}
AllHeard == \A r \in Refreshing : request[r].heard
SentOnce ==
  \A r, q \in Refreshing :
    request[r].presented # None /\ request[r].presented = request[q].presented => r = q
SentUnused ==
  \A r \in Refreshing :
    request[r].step = "sent" /\ request[r].presented # None => ~Retired(request[r].presented)
NextUnknown ==
  \A r \in Refreshing : request[r].step = "answered" =>
    /\ request[r].next # None /\ ~Retired(request[r].next)
    /\ request[r].next # cookie
    /\ \A q \in Refreshing : /\ request[q].presented # request[r].next
                             /\ request[q].next = request[r].next => q = r
InFlight(i) == \E r \in Request : request[r].kind = "refresh" /\ request[r].presented = i
CookieUnused == cookie # None /\ Retired(cookie) => InFlight(cookie)

Explained == AllHeard /\ SentOnce /\ SentUnused /\ NextUnknown /\ CookieUnused
PlainSound == history = "plain" => Explained

IInv ==
  /\ TypeOK
  /\ Created
  /\ WaitedFor
  /\ OneUserPerFamily
  /\ OneLivePerFamily
  /\ ClaimedAlone
  /\ EndedIsEnded
  /\ SnapshotCurrent
  /\ SomeAdmin
  /\ PlainSound
  /\ ReuseExplained

-----------------------------------------------------------------------------
(* The tokens.                                                              *)

(* Issuing a token leaves the earlier ones as they are.                     *)
LEMMA Appended ==
  ASSUME TypeOK, NEW t \in Token, tokens' = Append(tokens, t)
  PROVE  /\ tokens' \in Seq(Token)
         /\ Len(tokens) + 1 \in Nat /\ Len(tokens) + 1 \notin DOMAIN tokens
         /\ DOMAIN tokens' = DOMAIN tokens \cup {Len(tokens) + 1}
         /\ tokens'[Len(tokens) + 1] = t
         /\ \A i \in DOMAIN tokens : tokens'[i] = tokens[i]
<1>1. tokens \in Seq(Token)
  BY DEF TypeOK
<1> QED
  BY <1>1

(* Marking tokens leaves as many tokens.                                    *)
LEMMA Marked ==
  ASSUME TypeOK, NEW f \in [DOMAIN tokens -> Token]
  PROVE  f \in Seq(Token) /\ DOMAIN f = DOMAIN tokens
<1>1. Len(tokens) \in Nat /\ DOMAIN tokens = 1..Len(tokens)
  BY DEF TypeOK
<1>2. f \in [1..Len(tokens) -> Token]
  BY <1>1
<1> QED
  BY <1>1, <1>2, SeqDef

(* A number in the tokens' domain names a token.                            *)
LEMMA TokenAt ==
  ASSUME TypeOK, NEW i \in DOMAIN tokens
  PROVE  /\ tokens[i] \in Token /\ i \in Nat
         /\ UserOf(i) \in User /\ Family(i) \in Nat
         /\ tokens[i].used \in BOOLEAN /\ tokens[i].revoked \in BOOLEAN
<1>1. tokens[i] \in Token /\ i \in Nat
  BY DEF TypeOK
<1> QED
  BY <1>1 DEF Token, UserOf, Family

(* What a step must show that issues nothing and uses nothing up: families  *)
(* stay as they are, calls leave the gap of a refresh or stay in it, and a  *)
(* family ended now has no token left that works, nor a refresh in the gap. *)
LEMMA NothingIssued ==
  ASSUME IInv,
         DOMAIN tokens' = DOMAIN tokens,
         \A i \in DOMAIN tokens : /\ tokens'[i].user = tokens[i].user
                                  /\ tokens'[i].family = tokens[i].family
                                  /\ tokens'[i].used = tokens[i].used
                                  /\ tokens[i].revoked => tokens'[i].revoked,
         \A r \in Between' : /\ r \in Between
                             /\ request'[r].presented = request[r].presented
                             /\ request'[r].kind = request[r].kind,
         \A f \in ended'.families \ ended'.slipped :
           \/ f \in ended.families \ ended.slipped
           \/ /\ \A r \in Between : Family(request[r].presented) # f
              /\ \A i \in DOMAIN tokens : tokens[i].family = f => ~Live(i)'
  PROVE  OneUserPerFamily' /\ OneLivePerFamily' /\ ClaimedAlone' /\ EndedIsEnded'
<1>1. \A i \in DOMAIN tokens : Live(i)' => Live(i)
  BY DEF Live
<1>2. OneUserPerFamily'
  BY DEF IInv, OneUserPerFamily, Family, UserOf
<1>3. OneLivePerFamily'
  BY <1>1 DEF IInv, OneLivePerFamily, Family
<1>4. EndedIsEnded'
  BY <1>1 DEF IInv, EndedIsEnded, Family
<1>5. ClaimedAlone'
  <2> SUFFICES ASSUME NEW r \in Between'
               PROVE Alone(r)'
    BY DEF ClaimedAlone
  <2>1. /\ r \in Between /\ r \in Request
        /\ request'[r].presented = request[r].presented /\ request'[r].kind = request[r].kind
    BY DEF Between
  <2>2. /\ request[r].kind = "refresh" /\ request[r].presented # None
        /\ request[r].presented \in DOMAIN tokens
    BY <2>1 DEF IInv, ClaimedAlone, Alone, Created
  <2>3. /\ tokens[request[r].presented].used
        /\ \A i \in DOMAIN tokens : Family(i) = Family(request[r].presented) => ~Live(i)
        /\ \A q \in Between : Family(request[q].presented) = Family(request[r].presented) => q = r
        /\ Family(request[r].presented) \notin ended.families \ ended.slipped
    BY <2>1 DEF IInv, ClaimedAlone, Alone
  <2>4. \A q \in Between : request[q].presented \in DOMAIN tokens
    BY DEF IInv, ClaimedAlone, Alone, Created, Between
  <2>5. tokens'[request'[r].presented].family = Family(request[r].presented)
    BY <2>1, <2>2 DEF Family
  <2>6. \A i \in DOMAIN tokens' : tokens'[i].family = Family(request[r].presented) => ~Live(i)'
    BY <2>3, <1>1 DEF Family
  <2>7. \A q \in Between' : tokens'[request'[q].presented].family = Family(request[r].presented) => q = r
    BY <2>3, <2>4 DEF Family
  <2>8. Family(request[r].presented) \notin ended'.families \ ended'.slipped
    BY <2>1, <2>3
  <2> QED
    BY <2>1, <2>2, <2>3, <2>5, <2>6, <2>7, <2>8 DEF Alone, Family
<1> QED
  BY <1>2, <1>3, <1>4, <1>5

-----------------------------------------------------------------------------
(* The calls.                                                               *)

(* A call is well formed after it is sent, answered, heard or forgotten.    *)
LEMMA CallTyped ==
  ASSUME TypeOK, None \notin Nat, NEW r \in Request, NEW b \in Tab \cup {None},
         NEW kind \in {"refresh", "logout"}, NEW step \in {"claimed", "answered", "refused"},
         NEW n \in Nat \cup {None}
  PROVE  /\ NoRequest \in RequestRecord
         /\ [NoRequest EXCEPT !.kind = kind, !.step = "sent", !.tab = b,
                              !.heard = TRUE, !.presented = cookie] \in RequestRecord
         /\ Unheard(request[r]) \in RequestRecord
         /\ [request[r] EXCEPT !.step = step] \in RequestRecord
         /\ [request[r] EXCEPT !.step = step, !.next = n] \in RequestRecord
<1>1. NoRequest \in RequestRecord
  BY DEF NoRequest, RequestRecord
<1>2. request[r] \in RequestRecord /\ cookie \in Nat \cup {None}
  BY DEF TypeOK
<1>3. [NoRequest EXCEPT !.kind = kind, !.step = "sent", !.tab = b,
                        !.heard = TRUE, !.presented = cookie] \in RequestRecord
  BY <1>2 DEF NoRequest, RequestRecord
<1>4. /\ [request[r] EXCEPT !.step = step] \in RequestRecord
      /\ [request[r] EXCEPT !.step = step, !.next = n] \in RequestRecord
      /\ [request[r] EXCEPT !.heard = FALSE, !.tab = None] \in RequestRecord
  BY <1>2 DEF RequestRecord
<1> QED
  BY <1>1, <1>3, <1>4 DEF Unheard

(* Steps of the browser alone: calls are sent, given up or over, and the    *)
(* server's state stays.                                                    *)
LEMMA BrowserStep ==
  ASSUME IInv, UNCHANGED <<role, change, tokens, ended>>,
         \A r \in Request : \/ request'[r] = request[r]
                            \/ request'[r] = NoRequest
                            \/ request'[r] = Unheard(request[r])
                            \/ request'[r].step = "sent"
  PROVE  OneUserPerFamily' /\ OneLivePerFamily' /\ ClaimedAlone' /\ EndedIsEnded'
<1>1. ASSUME NEW r \in Between'
      PROVE  /\ r \in Between
             /\ request'[r].presented = request[r].presented
             /\ request'[r].kind = request[r].kind
  <2>1. r \in Request /\ request'[r].step = "claimed"
    BY DEF Between
  <2>2. request[r] \in RequestRecord
    BY <2>1 DEF IInv, TypeOK
  <2>3. NoRequest.step # "claimed"
    BY DEF NoRequest
  <2>4. CASE request'[r] = request[r]
    BY <2>1, <2>4 DEF Between
  <2>5. CASE request'[r] = Unheard(request[r])
    BY <2>1, <2>2, <2>3, <2>5 DEF Between, Unheard, RequestRecord
  <2> QED
    BY <2>1, <2>3, <2>4, <2>5
<1> QED
  BY <1>1, NothingIssued

-----------------------------------------------------------------------------
(* Roles.                                                                   *)

(* A write that conflicts with open role changes makes them start again and *)
(* opens none.                                                              *)
LEMMA ConflictsTyped ==
  ASSUME TypeOK, NEW written, Conflicts(written)
  PROVE  /\ change' \in [Change -> ChangeRecord]
         /\ \A c \in Change : change'[c] = change[c] \/ change'[c] = Waiting
<1>1. Waiting \in ChangeRecord
  BY DEF Waiting, ChangeRecord
<1> QED
  BY <1>1 DEF TypeOK, Conflicts

(* Every step keeps the snapshots of the open changes current, and an admin *)
(* among the users: whoever committed a change in between made the others   *)
(* start again.                                                             *)
LEMMA RolesStep == IInv /\ [Next]_vars => SnapshotCurrent' /\ SomeAdmin'
<1> SUFFICES ASSUME IInv, [Next]_vars PROVE SnapshotCurrent' /\ SomeAdmin'
  OBVIOUS
<1> USE SessionsAssumption
<1>t. TypeOK /\ SnapshotCurrent /\ SomeAdmin
  BY DEF IInv
<1>w. Waiting.step # "open" /\ Done.step # "open"
  BY DEF Waiting, Done
<1>1. CASE UNCHANGED <<role, change>>
  BY <1>t, <1>1 DEF SnapshotCurrent, SomeAdmin, Open
<1>2. ASSUME NEW written, Conflicts(written), UNCHANGED role
      PROVE  SnapshotCurrent' /\ SomeAdmin'
  <2>1. \A c \in Change : change'[c] = change[c] \/ change'[c] = Waiting
    BY <1>t, <1>2, ConflictsTyped
  <2> QED
    BY <1>t, <1>w, <1>2, <2>1 DEF SnapshotCurrent, SomeAdmin, Open
<1>3. ASSUME NEW r \in Request, Claim(r) PROVE SnapshotCurrent' /\ SomeAdmin'
  BY <1>2, <1>3 DEF Claim
<1>4. ASSUME NEW r \in Request, Refuse(r) PROVE SnapshotCurrent' /\ SomeAdmin'
  BY <1>1, <1>2, <1>4 DEF Refuse, End
<1>5. ASSUME NEW r \in Request, EndSession(r) PROVE SnapshotCurrent' /\ SomeAdmin'
  BY <1>1, <1>2, <1>5 DEF EndSession, End
<1>6. ASSUME NEW c \in Change, BeginChange(c) PROVE SnapshotCurrent' /\ SomeAdmin'
  BY <1>t, <1>6 DEF BeginChange, SnapshotCurrent, SomeAdmin, Open, TypeOK
<1>7. ASSUME NEW c \in Change, RefuseChange(c) PROVE SnapshotCurrent' /\ SomeAdmin'
  BY <1>t, <1>w, <1>7 DEF RefuseChange, SnapshotCurrent, SomeAdmin, Open, TypeOK
<1>8. ASSUME NEW c \in Change, CommitChange(c) PROVE SnapshotCurrent' /\ SomeAdmin'
  <2>1. /\ c \in Open /\ ~LastAdmin(c)
        /\ role' = [role EXCEPT ![c.target] = c.role]
        /\ change' = Guarded(c)
    BY <1>8 DEF CommitChange
  <2>2. \A o \in Change : change'[o].step # "open"
    BY <1>w, <2>1 DEF Guarded, Open
  <2>3. change[c].seen = role
    BY <1>t, <2>1 DEF SnapshotCurrent
  <2>4. c.target \in User /\ role \in [User -> Role]
    BY <1>t DEF TypeOK
  <2>5. \/ role[c.target] # "admin"
        \/ c.role = "admin"
        \/ \E u \in User \ {c.target} : role[u] = "admin"
    BY <2>1, <2>3 DEF LastAdmin
  <2>6. SomeAdmin'
    BY <1>t, <2>1, <2>4, <2>5 DEF SomeAdmin
  <2> QED
    BY <2>2, <2>6 DEF SnapshotCurrent, Open
<1>9. CASE UNCHANGED vars
  BY <1>1, <1>9 DEF vars
<1> QED
  BY <1>1, <1>3, <1>4, <1>5, <1>6, <1>7, <1>8, <1>9
     DEF Next, accounts, Login, Reload, Expire, Restore, SignOut, SendRefresh, Issue,
         Renewed, Expired, SignedOut, Lost

-----------------------------------------------------------------------------
(* Types.                                                                   *)

(* Ending families adds tokens' families to those that ended.               *)
LEMMA EndsTyped ==
  ASSUME TypeOK, Created, NEW F \in SUBSET DOMAIN tokens, NEW S \in SUBSET DOMAIN tokens,
         Ends(F, S)
  PROVE  /\ ended' \in [families : SUBSET Nat, slipped : SUBSET Nat]
         /\ ended'.families = ended.families \cup F
         /\ S \subseteq ended'.slipped /\ ended.slipped \subseteq ended'.slipped
         /\ \A r \in Between : Family(request[r].presented) \in F
                                 => Family(request[r].presented) \in ended'.slipped
         /\ ended'.families \subseteq DOMAIN tokens
<1>1. DOMAIN tokens \subseteq Nat
  BY DEF TypeOK
<1> DEFINE gap == F \cap {Family(request[r].presented) : r \in Between}
<1>2. ended.families \in SUBSET Nat /\ ended.slipped \in SUBSET Nat
  BY DEF TypeOK
<1>3. gap \subseteq Nat
  BY <1>1
<1>4. ended' = [families |-> ended.families \cup F, slipped |-> ended.slipped \cup S \cup gap]
  BY DEF Ends
<1>5. ended'.families = ended.families \cup F /\ ended'.slipped = ended.slipped \cup S \cup gap
  BY <1>4
<1>6. ended' \in [families : SUBSET Nat, slipped : SUBSET Nat]
  BY <1>1, <1>2, <1>3, <1>4
<1> QED
  BY <1>5, <1>6 DEF Created

(* Ending a session revokes the tokens of its family, and no others.        *)
LEMMA EndRevokes ==
  ASSUME TypeOK, Created, NEW i \in DOMAIN tokens, End(i)
  PROVE  /\ tokens' \in Seq(Token) /\ DOMAIN tokens' = DOMAIN tokens
         /\ \A j \in DOMAIN tokens : /\ tokens'[j].user = tokens[j].user
                                     /\ tokens'[j].family = tokens[j].family
                                     /\ tokens'[j].used = tokens[j].used
                                     /\ tokens[j].revoked => tokens'[j].revoked
                                     /\ Family(j) = Family(i) => tokens'[j].revoked
         /\ ended' \in [families : SUBSET Nat, slipped : SUBSET Nat]
         /\ ended'.families = ended.families \cup {Family(i)}
         /\ ended.slipped \subseteq ended'.slipped
         /\ \A r \in Between : Family(request[r].presented) = Family(i)
                                 => Family(request[r].presented) \in ended'.slipped
         /\ ended'.families \subseteq DOMAIN tokens
         /\ change' \in [Change -> ChangeRecord]
<1>1. tokens' = RevokeFamily(i) /\ Ends({Family(i)}, {})
  BY DEF End
<1>2. \A j \in DOMAIN tokens :
        /\ tokens'[j] = [tokens[j] EXCEPT !.revoked = @ \/ Family(j) = Family(i)]
        /\ tokens[j] \in Token
  BY <1>1, TokenAt DEF RevokeFamily
<1>3. \A j \in DOMAIN tokens :
        [tokens[j] EXCEPT !.revoked = @ \/ Family(j) = Family(i)] \in Token
  BY <1>2 DEF Token
<1>4. tokens' \in [DOMAIN tokens -> Token]
  BY <1>1, <1>3 DEF RevokeFamily
<1>5. tokens' \in Seq(Token) /\ DOMAIN tokens' = DOMAIN tokens
  BY <1>4, Marked
<1>6. \A j \in DOMAIN tokens : /\ tokens'[j].user = tokens[j].user
                               /\ tokens'[j].family = tokens[j].family
                               /\ tokens'[j].used = tokens[j].used
                               /\ tokens'[j].revoked = (tokens[j].revoked \/ Family(j) = Family(i))
  BY <1>2 DEF Token
<1>7. {Family(i)} \in SUBSET DOMAIN tokens /\ {} \in SUBSET DOMAIN tokens
  BY DEF Created
<1>8. /\ ended' \in [families : SUBSET Nat, slipped : SUBSET Nat]
      /\ ended'.families = ended.families \cup {Family(i)}
      /\ ended.slipped \subseteq ended'.slipped
      /\ \A r \in Between : Family(request[r].presented) \in {Family(i)}
                              => Family(request[r].presented) \in ended'.slipped
      /\ ended'.families \subseteq DOMAIN tokens
  BY <1>1, <1>7, EndsTyped
<1>9. change' \in [Change -> ChangeRecord]
  BY ConflictsTyped DEF End
<1> QED
  BY <1>5, <1>6, <1>8, <1>9

(* Committing a role change revokes the tokens of the user that it knew.    *)
Mine(c) == {i \in DOMAIN tokens : UserOf(i) = c.target /\ ~tokens[i].revoked}
Known(c) == {i \in Mine(c) : i <= change[c].known}

(* A role change leaves each token its user, family and use, and only       *)
(* revokes.                                                                 *)
LEMMA CommitRevokes ==
  ASSUME TypeOK, Created, NEW c \in Change, CommitChange(c)
  PROVE  /\ tokens' \in Seq(Token) /\ DOMAIN tokens' = DOMAIN tokens
         /\ \A j \in DOMAIN tokens : /\ tokens'[j].user = tokens[j].user
                                     /\ tokens'[j].family = tokens[j].family
                                     /\ tokens'[j].used = tokens[j].used
                                     /\ tokens[j].revoked => tokens'[j].revoked
                                     /\ j \in Known(c) => tokens'[j].revoked
         /\ ended' \in [families : SUBSET Nat, slipped : SUBSET Nat]
         /\ ended'.families = ended.families \cup {Family(i) : i \in Known(c)}
         /\ ended.slipped \subseteq ended'.slipped
         /\ {Family(i) : i \in Mine(c) \ Known(c)} \subseteq ended'.slipped
         /\ \A r \in Between : Family(request[r].presented) \in {Family(i) : i \in Known(c)}
                                 => Family(request[r].presented) \in ended'.slipped
         /\ ended'.families \subseteq DOMAIN tokens
<1>1. /\ tokens' = [i \in DOMAIN tokens |-> [tokens[i] EXCEPT !.revoked = @ \/ i \in Known(c)]]
      /\ Ends({Family(i) : i \in Known(c)}, {Family(i) : i \in Mine(c) \ Known(c)})
  BY DEF CommitChange, Mine, Known
<1>2. \A j \in DOMAIN tokens : tokens[j] \in Token
  BY TokenAt
<1>3. \A j \in DOMAIN tokens : [tokens[j] EXCEPT !.revoked = @ \/ j \in Known(c)] \in Token
  BY <1>2 DEF Token
<1>4. tokens' \in Seq(Token) /\ DOMAIN tokens' = DOMAIN tokens
  BY <1>1, <1>3, Marked
<1>5. \A j \in DOMAIN tokens : /\ tokens'[j].user = tokens[j].user
                               /\ tokens'[j].family = tokens[j].family
                               /\ tokens'[j].used = tokens[j].used
                               /\ tokens'[j].revoked = (tokens[j].revoked \/ j \in Known(c))
  BY <1>1, <1>2 DEF Token
<1>6. /\ {Family(i) : i \in Known(c)} \in SUBSET DOMAIN tokens
      /\ {Family(i) : i \in Mine(c) \ Known(c)} \in SUBSET DOMAIN tokens
  BY DEF Created, Mine, Known
<1> QED
  BY <1>1, <1>4, <1>5, <1>6, EndsTyped

(* What a step does to the tokens that issues none: nothing, a session's    *)
(* end, a commit, or a claim.                                               *)
LEMMA ClaimUses ==
  ASSUME TypeOK, Created, NEW r \in Request, Claim(r)
  PROVE  /\ request[r].presented \in DOMAIN tokens
         /\ tokens' \in Seq(Token) /\ DOMAIN tokens' = DOMAIN tokens
         /\ \A j \in DOMAIN tokens :
              /\ tokens'[j].user = tokens[j].user
              /\ tokens'[j].family = tokens[j].family
              /\ tokens'[j].revoked = tokens[j].revoked
              /\ j = request[r].presented => tokens'[j].used
              /\ j # request[r].presented => tokens'[j].used = tokens[j].used
         /\ change' \in [Change -> ChangeRecord]
<1>1. request[r].presented \in DOMAIN tokens
  BY DEF Claim, Created
<1>2. tokens' = [tokens EXCEPT ![request[r].presented].used = TRUE]
  BY DEF Claim
<1>3. \A j \in DOMAIN tokens : tokens[j] \in Token
  BY TokenAt
<1>4. [tokens[request[r].presented] EXCEPT !.used = TRUE] \in Token
  BY <1>1, <1>3 DEF Token
<1>5. tokens \in [DOMAIN tokens -> Token]
  BY DEF TypeOK
<1>6. tokens' \in [DOMAIN tokens -> Token]
  BY <1>2, <1>4, <1>5
<1>7. tokens' \in Seq(Token) /\ DOMAIN tokens' = DOMAIN tokens
  BY <1>6, Marked
<1>8. \A j \in DOMAIN tokens :
        /\ j = request[r].presented => tokens'[j] = [tokens[j] EXCEPT !.used = TRUE]
        /\ j # request[r].presented => tokens'[j] = tokens[j]
  BY <1>1, <1>2, <1>5
<1>9. change' \in [Change -> ChangeRecord]
  BY ConflictsTyped DEF Claim
<1> QED
  BY <1>1, <1>3, <1>7, <1>8, <1>9 DEF Token

(* Issuing appends a token of the claimed one's user and family.            *)
LEMMA IssueAppends ==
  ASSUME IInv, NEW r \in Request, Issue(r)
  PROVE  LET i == request[r].presented
             t == [user |-> UserOf(i), family |-> Family(i), used |-> FALSE, revoked |-> FALSE]
         IN  /\ i \in DOMAIN tokens /\ r \in Between /\ t \in Token
             /\ tokens' = Append(tokens, t)
<1>1. r \in Between
  BY DEF Issue, Between
<1>2. request[r].presented \in DOMAIN tokens
  BY <1>1 DEF IInv, ClaimedAlone, Alone, Created
<1>3. UserOf(request[r].presented) \in User /\ Family(request[r].presented) \in Nat
  BY <1>2, TokenAt DEF IInv
<1> QED
  BY <1>1, <1>2, <1>3 DEF Issue, Token

-----------------------------------------------------------------------------
(* Types, and what was created before.                                      *)

CallSound(q, issued) ==
  /\ q \in RequestRecord
  /\ q.presented \in issued \cup {None} /\ q.next \in issued \cup {None}

(* A call presents and is answered tokens that were created, after it was   *)
(* sent, answered, heard or forgotten.                                      *)
LEMMA CallsSound ==
  ASSUME IInv, NEW r \in Request, NEW b \in Tab \cup {None},
         NEW kind \in {"refresh", "logout"}, NEW step \in {"claimed", "answered", "refused"},
         NEW issued, DOMAIN tokens \subseteq issued, issued \subseteq Nat,
         NEW n \in issued \cup {None}
  PROVE  /\ \A q \in Request : CallSound(request[q], issued)
         /\ CallSound(NoRequest, issued)
         /\ CallSound([NoRequest EXCEPT !.kind = kind, !.step = "sent", !.tab = b,
                                        !.heard = TRUE, !.presented = cookie], issued)
         /\ CallSound(Unheard(request[r]), issued)
         /\ CallSound([request[r] EXCEPT !.step = step], issued)
         /\ CallSound([request[r] EXCEPT !.step = step, !.next = n], issued)
<1>1. /\ TypeOK /\ None \notin Nat /\ request[r] \in RequestRecord
      /\ request[r].presented \in issued \cup {None} /\ request[r].next \in issued \cup {None}
      /\ cookie \in issued \cup {None} /\ n \in Nat \cup {None}
  BY SessionsAssumption DEF IInv, TypeOK, Created
<1>2. /\ NoRequest \in RequestRecord
      /\ [NoRequest EXCEPT !.kind = kind, !.step = "sent", !.tab = b,
                           !.heard = TRUE, !.presented = cookie] \in RequestRecord
      /\ Unheard(request[r]) \in RequestRecord
      /\ [request[r] EXCEPT !.step = step] \in RequestRecord
      /\ [request[r] EXCEPT !.step = step, !.next = n] \in RequestRecord
  BY <1>1, CallTyped
<1>3. \A q \in Request : CallSound(request[q], issued)
  BY DEF IInv, TypeOK, Created, CallSound
<1>4. CallSound(NoRequest, issued)
  BY <1>2 DEF CallSound, NoRequest
<1>5. CallSound([NoRequest EXCEPT !.kind = kind, !.step = "sent", !.tab = b,
                                  !.heard = TRUE, !.presented = cookie], issued)
  BY <1>1, <1>2 DEF CallSound, NoRequest
<1>6. /\ CallSound([request[r] EXCEPT !.step = step], issued)
      /\ CallSound([request[r] EXCEPT !.step = step, !.next = n], issued)
      /\ [request[r] EXCEPT !.heard = FALSE, !.tab = None].presented = request[r].presented
      /\ [request[r] EXCEPT !.heard = FALSE, !.tab = None].next = request[r].next
  BY <1>1, <1>2 DEF CallSound, RequestRecord
<1>7. CallSound(Unheard(request[r]), issued)
  BY <1>1, <1>2, <1>4, <1>6 DEF CallSound, Unheard
<1> QED
  BY <1>3, <1>4, <1>5, <1>6, <1>7

(* A step whose calls are sound keeps the calls so.                         *)
LEMMA CallsKept ==
  ASSUME IInv, DOMAIN tokens' \subseteq Nat, DOMAIN tokens \subseteq DOMAIN tokens',
         \/ UNCHANGED request
         \/ \E r \in Request, b \in Tab, kind \in {"refresh", "logout"} : Sends(r, b, kind)
         \/ \E b \in Tab : request' = [r \in Request |->
                             IF request[r].tab = b THEN Unheard(request[r]) ELSE request[r]]
         \/ \E r \in Request : Heard(r)
         \/ \E r \in Request : request' = [request EXCEPT ![r] = Unheard(@)]
         \/ \E r \in Request : request' = [request EXCEPT ![r].step = "claimed"]
         \/ \E r \in Request, step \in {"answered", "refused"}, n \in DOMAIN tokens' \cup {None} :
              Answer(r, step, n)
  PROVE  /\ request' \in [Request -> RequestRecord]
         /\ \A r \in Request : /\ request'[r].presented \in DOMAIN tokens' \cup {None}
                               /\ request'[r].next \in DOMAIN tokens' \cup {None}
<1> DEFINE Sound(f) == DOMAIN f = Request /\ \A q \in Request : CallSound(f[q], DOMAIN tokens')
<1>0. /\ request = [q \in Request |-> request[q]]
      /\ \A q \in Request : CallSound(request[q], DOMAIN tokens')
      /\ \A q \in Request : CallSound(Unheard(request[q]), DOMAIN tokens')
      /\ CallSound(NoRequest, DOMAIN tokens') \/ Request = {}
  BY CallsSound DEF IInv, TypeOK
<1>1. CASE UNCHANGED request
  BY <1>0, <1>1 DEF CallSound
<1>2. ASSUME NEW r \in Request, NEW b \in Tab, NEW kind \in {"refresh", "logout"}, Sends(r, b, kind)
      PROVE  Sound(request')
  BY <1>0, <1>2, CallsSound DEF Sends
<1>3. ASSUME NEW b \in Tab,
             request' = [r \in Request |->
                           IF request[r].tab = b THEN Unheard(request[r]) ELSE request[r]]
      PROVE  Sound(request')
  BY <1>0, <1>3
<1>4. ASSUME NEW r \in Request, Heard(r) PROVE Sound(request')
  BY <1>0, <1>4 DEF Heard
<1>5. ASSUME NEW r \in Request, request' = [request EXCEPT ![r] = Unheard(@)]
      PROVE  Sound(request')
  BY <1>0, <1>5
<1>6. ASSUME NEW r \in Request, request' = [request EXCEPT ![r].step = "claimed"]
      PROVE  Sound(request')
  BY <1>0, <1>6, CallsSound
<1>7. ASSUME NEW r \in Request, NEW step \in {"answered", "refused"},
             NEW n \in DOMAIN tokens' \cup {None}, Answer(r, step, n)
      PROVE  Sound(request')
  BY <1>0, <1>7, CallsSound DEF Answer
<1>8. Sound(request')
  BY <1>0, <1>1, <1>2, <1>3, <1>4, <1>5, <1>6, <1>7
<1>9. request' = [q \in Request |-> request'[q]]
  BY <1>0 DEF Sends, Heard, Answer
<1> QED
  BY <1>8, <1>9 DEF CallSound

(* Every step keeps the types, and what cookie, calls and families name     *)
(* created.                                                                 *)
LEMMA TypeStep == IInv /\ [Next]_vars => TypeOK' /\ Created'
<1> SUFFICES ASSUME IInv, [Next]_vars PROVE TypeOK' /\ Created'
  OBVIOUS
<1> USE SessionsAssumption
<1>t. TypeOK /\ Created /\ DOMAIN tokens \subseteq Nat
  BY DEF IInv, TypeOK
<1> DEFINE CallsOK == /\ request' \in [Request -> RequestRecord]
                      /\ \A r \in Request : /\ request'[r].presented \in DOMAIN tokens' \cup {None}
                                            /\ request'[r].next \in DOMAIN tokens' \cup {None}
           TokensOK == /\ tokens' \in Seq(Token)
                       /\ DOMAIN tokens \subseteq DOMAIN tokens'
                       /\ \A i \in DOMAIN tokens' : tokens'[i].family \in DOMAIN tokens'
                       /\ ended' \in [families : SUBSET Nat, slipped : SUBSET Nat]
                       /\ ended'.families \subseteq DOMAIN tokens'
<1>s. ASSUME TokensOK PROVE DOMAIN tokens' \subseteq Nat
  BY <1>s
<1>1. ASSUME NEW b \in Tab, NEW u \in User, Login(b, u) PROVE TypeOK' /\ Created'
  <2> DEFINE i == Len(tokens) + 1
             t == [user |-> u, family |-> i, used |-> FALSE, revoked |-> FALSE]
  <2>1. tokens' = Append(tokens, t) /\ t \in Token
    BY <1>t, <1>1 DEF Login, Token, TypeOK
  <2>2. /\ tokens' \in Seq(Token) /\ i \in Nat
        /\ DOMAIN tokens' = DOMAIN tokens \cup {i}
        /\ tokens'[i] = t /\ \A j \in DOMAIN tokens : tokens'[j] = tokens[j]
    BY <1>t, <2>1, Appended
  <2>3. TokensOK
    BY <1>t, <1>1, <2>2 DEF Login, TypeOK, Created, Family
  <2>4. CallsOK
    BY <1>s, <1>1, <2>3, CallsKept DEF Login
  <2> QED
    BY <1>t, <1>1, <2>2, <2>3, <2>4 DEF Login, accounts, TypeOK, Created, Family
<1>2. ASSUME NEW b \in Tab, Reload(b) PROVE TypeOK' /\ Created'
  <2>1. CallsOK
    BY <1>s, <1>t, <1>2, CallsKept DEF Reload
  <2> QED
    BY <1>t, <1>2, <2>1 DEF Reload, accounts, TypeOK, Created, Family
<1>3. ASSUME NEW r \in Request, NEW b \in Tab, SendRefresh(r, b) \/ SignOut(r, b),
             signedIn' = signedIn
      PROVE  TypeOK' /\ Created'
  <2>1. \E kind \in {"refresh", "logout"} : Sends(r, b, kind)
    BY <1>3 DEF SendRefresh, SignOut
  <2>2. UNCHANGED tokens
    BY <1>3 DEF SendRefresh, SignOut
  <2>3. CallsOK
    BY <1>t, <2>1, <2>2, CallsKept
  <2> QED
    BY <1>t, <1>3, <2>3 DEF SendRefresh, SignOut, accounts, TypeOK, Created, Family
<1>4. ASSUME NEW r \in Request, Claim(r) PROVE TypeOK' /\ Created'
  <2>1. /\ tokens' \in Seq(Token) /\ DOMAIN tokens' = DOMAIN tokens
        /\ \A j \in DOMAIN tokens : tokens'[j].family = tokens[j].family
        /\ change' \in [Change -> ChangeRecord]
    BY <1>t, <1>4, ClaimUses
  <2>2. CallsOK
    BY <1>t, <1>4, <2>1, CallsKept DEF Claim
  <2> QED
    BY <1>t, <1>4, <2>1, <2>2 DEF Claim, TypeOK, Created, Family
<1>5. ASSUME NEW i \in DOMAIN tokens, End(i)
      PROVE  TokensOK /\ change' \in [Change -> ChangeRecord] /\ DOMAIN tokens' = DOMAIN tokens
  BY <1>t, <1>5, EndRevokes DEF Created, Family
<1>6. ASSUME NEW r \in Request, Refuse(r) PROVE TypeOK' /\ Created'
  <2>1. /\ TokensOK /\ change' \in [Change -> ChangeRecord] /\ DOMAIN tokens' = DOMAIN tokens
    <3>1. CASE request[r].presented # None /\ Retired(request[r].presented)
      BY <1>t, <1>5, <1>6, <3>1 DEF Refuse, Created
    <3>2. CASE ~(request[r].presented # None /\ Retired(request[r].presented))
      BY <1>t, <1>6, <3>2 DEF Refuse, TypeOK, Created, Family
    <3> QED
      BY <3>1, <3>2
  <2>2. CallsOK
    BY <1>t, <1>6, <2>1, CallsKept DEF Refuse
  <2> QED
    BY <1>t, <1>6, <2>1, <2>2 DEF Refuse, TypeOK, Created, Family
<1>7. ASSUME NEW r \in Request, Issue(r) PROVE TypeOK' /\ Created'
  <2> DEFINE i == request[r].presented
             t == [user |-> UserOf(i), family |-> Family(i), used |-> FALSE, revoked |-> FALSE]
             next == Len(tokens) + 1
  <2>1. i \in DOMAIN tokens /\ t \in Token /\ tokens' = Append(tokens, t)
    BY <1>7, IssueAppends
  <2>2. /\ tokens' \in Seq(Token) /\ next \in Nat
        /\ DOMAIN tokens' = DOMAIN tokens \cup {next}
        /\ tokens'[next] = t /\ \A j \in DOMAIN tokens : tokens'[j] = tokens[j]
    BY <1>t, <2>1, Appended
  <2>3. TokensOK
    <3>1. /\ Family(i) \in DOMAIN tokens /\ t.family = Family(i)
          /\ \A j \in DOMAIN tokens : tokens[j].family \in DOMAIN tokens
          /\ ended' = ended /\ ended.families \subseteq DOMAIN tokens
      BY <1>t, <1>7, <2>1 DEF Issue, Created, Family
    <3>2. \A j \in DOMAIN tokens' : tokens'[j].family \in DOMAIN tokens'
      BY <2>2, <3>1
    <3> QED
      BY <1>t, <2>2, <3>1, <3>2 DEF TypeOK
  <2>4. Answer(r, "answered", next) /\ next \in DOMAIN tokens'
    BY <1>7, <2>2 DEF Issue
  <2>5. CallsOK
    BY <1>s, <2>3, <2>4, CallsKept
  <2> QED
    BY <1>t, <1>7, <2>2, <2>3, <2>5 DEF Issue, accounts, TypeOK, Created, Family
<1>8. ASSUME NEW r \in Request, EndSession(r) PROVE TypeOK' /\ Created'
  <2>1. /\ TokensOK /\ change' \in [Change -> ChangeRecord] /\ DOMAIN tokens' = DOMAIN tokens
    <3>1. CASE request[r].presented # None
      BY <1>t, <1>5, <1>8, <3>1 DEF EndSession, Created
    <3>2. CASE request[r].presented = None
      BY <1>t, <1>8, <3>2 DEF EndSession, TypeOK, Created, Family
    <3> QED
      BY <3>1, <3>2
  <2>2. CallsOK
    BY <1>t, <1>8, <2>1, CallsKept DEF EndSession
  <2> QED
    BY <1>t, <1>8, <2>1, <2>2 DEF EndSession, TypeOK, Created, Family
<1>9. ASSUME NEW r \in Request, Renewed(r) \/ Expired(r) \/ Lost(r) PROVE TypeOK' /\ Created'
  <2>1. Heard(r) /\ UNCHANGED tokens
    BY <1>9 DEF Renewed, Expired, Lost
  <2>2. CallsOK
    BY <1>t, <2>1, CallsKept
  <2>3. signedIn' \subseteq Tab
    BY <1>t, <1>9 DEF Renewed, Expired, Lost, TypeOK, IInv, WaitedFor
  <2>4. cookie' \in DOMAIN tokens \cup {None}
    BY <1>t, <1>9 DEF Renewed, Expired, Lost, Created
  <2> QED
    BY <1>t, <1>9, <2>2, <2>3, <2>4 DEF Renewed, Expired, Lost, accounts, TypeOK, Created, Family
<1>10. ASSUME NEW r \in Request, SignedOut(r) PROVE TypeOK' /\ Created'
  <2>1. request' = [request EXCEPT ![r] = Unheard(@)] /\ UNCHANGED tokens
    BY <1>10 DEF SignedOut
  <2>2. CallsOK
    BY <1>t, <2>1, CallsKept
  <2> QED
    BY <1>t, <1>10, <2>2 DEF SignedOut, accounts, TypeOK, Created, Family
<1>11. ASSUME NEW c \in Change, BeginChange(c) PROVE TypeOK' /\ Created'
  <2>1. [step |-> "open", seen |-> role, known |-> Len(tokens)] \in ChangeRecord
    BY <1>t DEF TypeOK, ChangeRecord
  <2> QED
    BY <1>t, <1>11, <2>1 DEF BeginChange, TypeOK, Created, Family
<1>12. ASSUME NEW c \in Change, RefuseChange(c) PROVE TypeOK' /\ Created'
  BY <1>t, <1>12 DEF RefuseChange, Done, Waiting, TypeOK, Created, Family, ChangeRecord
<1>13. ASSUME NEW c \in Change, CommitChange(c) PROVE TypeOK' /\ Created'
  <2>1. TokensOK /\ DOMAIN tokens' = DOMAIN tokens
    BY <1>t, <1>13, CommitRevokes DEF Created, Family
  <2>2. /\ role' = [role EXCEPT ![c.target] = c.role] /\ c.target \in User /\ c.role \in Role
        /\ change' = Guarded(c)
    BY <1>13 DEF CommitChange
  <2>3. role' \in [User -> Role]
    BY <1>t, <2>2 DEF TypeOK
  <2>4. Done \in ChangeRecord /\ Waiting \in ChangeRecord
    BY DEF Done, Waiting, ChangeRecord
  <2>5. change' \in [Change -> ChangeRecord]
    BY <1>t, <2>2, <2>4 DEF Guarded, TypeOK
  <2> QED
    BY <1>t, <1>13, <2>1, <2>3, <2>5 DEF CommitChange, TypeOK, Created, Family
<1>14. CASE UNCHANGED vars
  BY <1>t, <1>14 DEF vars, TypeOK, Created, Family
<1> QED
  BY <1>1, <1>2, <1>3, <1>4, <1>6, <1>7, <1>8, <1>9, <1>10, <1>11, <1>12, <1>13, <1>14
     DEF Next, Expire, Restore, SignOut

(* A call that is answered leaves the gap, and the others stay as they are. *)
LEMMA AnswerLeaves ==
  ASSUME TypeOK, NEW r \in Request, NEW step \in {"answered", "refused"}, NEW n, Answer(r, step, n)
  PROVE  \A q \in Between' : /\ q \in Between /\ q # r
                             /\ request'[q] = request[q]
<1> SUFFICES ASSUME NEW q \in Between' PROVE q \in Between /\ q # r /\ request'[q] = request[q]
  OBVIOUS
<1>1. q \in Request /\ request'[q].step = "claimed" /\ request[q] \in RequestRecord
  BY DEF Between, TypeOK
<1>2. NoRequest.step # "claimed"
  BY DEF NoRequest
<1>3. q # r => request'[q] = request[q]
  BY <1>1 DEF Answer
<1>4. \/ request'[r] = NoRequest
      \/ request'[r] = [request[r] EXCEPT !.step = step, !.next = n]
  BY DEF Answer, TypeOK
<1>5. [request[r] EXCEPT !.step = step, !.next = n].step = step
  BY DEF TypeOK, RequestRecord
<1>6. q # r
  BY <1>1, <1>2, <1>4, <1>5
<1> QED
  BY <1>1, <1>3, <1>6 DEF Between

(* Every step keeps families of one user with one token that works, keeps   *)
(* a refresh in the gap alone, and keeps ended families ended.              *)
LEMMA RotationStep ==
  IInv /\ [Next]_vars => OneUserPerFamily' /\ OneLivePerFamily' /\ ClaimedAlone' /\ EndedIsEnded'
<1> SUFFICES ASSUME IInv, [Next]_vars
             PROVE  OneUserPerFamily' /\ OneLivePerFamily' /\ ClaimedAlone' /\ EndedIsEnded'
  OBVIOUS
<1> DEFINE Goal == OneUserPerFamily' /\ OneLivePerFamily' /\ ClaimedAlone' /\ EndedIsEnded'
<1> USE SessionsAssumption
<1>t. TypeOK /\ Created
  BY DEF IInv
<1>o. \A q \in Between : request[q].presented \in DOMAIN tokens
  BY DEF IInv, ClaimedAlone, Alone, Created, Between
<1>1. ASSUME NEW b \in Tab, NEW u \in User, Login(b, u) PROVE Goal
  <2> DEFINE new == Len(tokens) + 1
             t == [user |-> u, family |-> new, used |-> FALSE, revoked |-> FALSE]
  <2>1. tokens' = Append(tokens, t) /\ t \in Token /\ ended' = ended /\ request' = request
    BY <1>t, <1>1 DEF Login, Token, TypeOK
  <2>2. /\ DOMAIN tokens' = DOMAIN tokens \cup {new} /\ new \notin DOMAIN tokens
        /\ tokens'[new] = t /\ \A j \in DOMAIN tokens : tokens'[j] = tokens[j]
    BY <1>t, <2>1, Appended
  <2>3. t.family = new /\ \A j \in DOMAIN tokens : tokens[j].family # new
    BY <1>t, <2>2 DEF Created, Family
  <2>4. OneUserPerFamily'
    BY <2>2, <2>3 DEF IInv, OneUserPerFamily, UserOf, Family
  <2>5. OneLivePerFamily'
    BY <2>2, <2>3 DEF IInv, OneLivePerFamily, Live, Family
  <2>6. EndedIsEnded'
    BY <1>t, <2>1, <2>2, <2>3 DEF IInv, EndedIsEnded, Live, Family, Created
  <2>7. ClaimedAlone'
    <3> SUFFICES ASSUME NEW q \in Between PROVE Alone(q)'
      BY <2>1 DEF ClaimedAlone, Between
    <3>1. Alone(q) /\ request[q].presented \in DOMAIN tokens
      BY <1>o DEF IInv, ClaimedAlone
    <3> QED
      BY <1>o, <2>1, <2>2, <2>3, <3>1 DEF Alone, Live, Family, Between
  <2> QED
    BY <2>4, <2>5, <2>6, <2>7
<1>2. ASSUME NEW b \in Tab, Reload(b) PROVE Goal
  BY <1>2, BrowserStep DEF Reload, accounts
<1>3. ASSUME NEW r \in Request, NEW b \in Tab, NEW kind, Sends(r, b, kind),
             UNCHANGED <<role, change, tokens, ended>>
      PROVE  Goal
  <2>1. request'[r].step = "sent" /\ \A q \in Request \ {r} : request'[q] = request[q]
    BY <1>t, <1>3 DEF Sends, NoRequest, TypeOK
  <2> QED
    BY <1>3, <2>1, BrowserStep
<1>4. ASSUME NEW r \in Request, NEW b \in Tab, Expire(r, b) \/ Restore(r, b) \/ SignOut(r, b)
      PROVE  Goal
  BY <1>3, <1>4 DEF Expire, Restore, SignOut, SendRefresh, accounts
<1>5. ASSUME NEW r \in Request, Claim(r) PROVE Goal
  <2> DEFINE i == request[r].presented
  <2>1. /\ i \in DOMAIN tokens /\ DOMAIN tokens' = DOMAIN tokens
        /\ \A j \in DOMAIN tokens :
              /\ tokens'[j].user = tokens[j].user
              /\ tokens'[j].family = tokens[j].family
              /\ tokens'[j].revoked = tokens[j].revoked
              /\ j = i => tokens'[j].used
              /\ j # i => tokens'[j].used = tokens[j].used
    BY <1>t, <1>5, ClaimUses
  <2>2. Live(i) /\ request[r].kind = "refresh" /\ i # None /\ ended' = ended
    BY <1>5 DEF Claim, Claims
  <2>3. \A j \in DOMAIN tokens : Live(j)' => Live(j) /\ j # i
    BY <2>1 DEF Live
  <2>4. \A j \in DOMAIN tokens : Family(j) = Family(i) => ~Live(j)'
    BY <2>1, <2>2, <2>3 DEF IInv, OneLivePerFamily
  <2>5. OneUserPerFamily'
    BY <2>1 DEF IInv, OneUserPerFamily, UserOf, Family
  <2>6. OneLivePerFamily'
    BY <2>1, <2>3 DEF IInv, OneLivePerFamily, Family
  <2>7. EndedIsEnded'
    BY <2>1, <2>2, <2>3 DEF IInv, EndedIsEnded, Family
  <2>8. \A q \in Between : Family(request[q].presented) # Family(i)
    BY <1>o, <2>1, <2>2 DEF IInv, ClaimedAlone, Alone
  <2>9. /\ \A q \in Request : /\ request'[q].presented = request[q].presented
                              /\ request'[q].kind = request[q].kind
        /\ Between' = Between \cup {r}
    <3>1. request' = [request EXCEPT ![r].step = "claimed"] /\ request[r] \in RequestRecord
      BY <1>t, <1>5 DEF Claim, TypeOK
    <3>2. /\ request'[r] = [request[r] EXCEPT !.step = "claimed"]
          /\ \A q \in Request \ {r} : request'[q] = request[q]
      BY <1>t, <3>1 DEF TypeOK
    <3>3. /\ request'[r].presented = request[r].presented
          /\ request'[r].kind = request[r].kind
          /\ request'[r].step = "claimed"
      BY <3>1, <3>2 DEF RequestRecord
    <3>4. \A q \in Request : q # r => request'[q] = request[q]
      BY <3>2
    <3>5. Between' = Between \cup {r}
      BY <3>3, <3>4 DEF Between
    <3> QED
      BY <3>3, <3>4, <3>5
  <2>10. ClaimedAlone'
    <3>1. Alone(r)'
      <4>1. Family(i) \notin ended.families \ ended.slipped
        BY <2>1, <2>2 DEF IInv, EndedIsEnded
      <4>2. \A q \in Between' : tokens'[request'[q].presented].family = Family(i) => q = r
        BY <1>o, <2>1, <2>8, <2>9 DEF Family, Between
      <4> QED
        BY <2>1, <2>2, <2>4, <2>9, <4>1, <4>2 DEF Alone, Family
    <3>2. ASSUME NEW q \in Between PROVE Alone(q)'
      <4>1. Alone(q) /\ request[q].presented \in DOMAIN tokens /\ q \in Request
        BY <1>o DEF IInv, ClaimedAlone, Between
      <4>2. \A p \in Between' : /\ p \in Between \/ p = r
                                /\ request'[p].presented = request[p].presented
                                /\ request[p].presented \in DOMAIN tokens
        BY <1>o, <2>1, <2>9 DEF Between
      <4>3. Family(request[q].presented) # Family(i)
        BY <2>8
      <4>4. \A p \in Between' : tokens'[request'[p].presented].family = Family(request[q].presented)
                                  => p = q
        BY <2>1, <4>1, <4>2, <4>3 DEF Alone, Family
      <4>5. tokens'[request[q].presented].used /\ request'[q].presented = request[q].presented
        BY <2>1, <2>9, <4>1 DEF Alone
      <4> QED
        BY <2>1, <2>2, <2>3, <2>9, <4>1, <4>4, <4>5 DEF Alone, Family
    <3> QED
      BY <2>9, <3>1, <3>2 DEF ClaimedAlone
  <2> QED
    BY <2>5, <2>6, <2>7, <2>10
<1>6. ASSUME NEW r \in Request, NEW step \in {"answered", "refused"}, NEW n, Answer(r, step, n),
             UNCHANGED <<tokens, ended>>
      PROVE  Goal
  BY <1>t, <1>6, AnswerLeaves, NothingIssued
<1>7. ASSUME NEW r \in Request, NEW step \in {"answered", "refused"}, NEW n, Answer(r, step, n),
             NEW i \in DOMAIN tokens, End(i)
      PROVE  Goal
  <2>1. \A q \in Between' : q \in Between /\ request'[q] = request[q]
    BY <1>t, <1>7, AnswerLeaves
  <2>2. /\ DOMAIN tokens' = DOMAIN tokens
        /\ \A j \in DOMAIN tokens : /\ tokens'[j].user = tokens[j].user
                                    /\ tokens'[j].family = tokens[j].family
                                    /\ tokens'[j].used = tokens[j].used
                                    /\ tokens[j].revoked => tokens'[j].revoked
                                    /\ Family(j) = Family(i) => tokens'[j].revoked
        /\ ended'.families = ended.families \cup {Family(i)}
        /\ ended.slipped \subseteq ended'.slipped
        /\ \A q \in Between : Family(request[q].presented) = Family(i)
                                => Family(request[q].presented) \in ended'.slipped
    BY <1>t, <1>7, EndRevokes
  <2>3. \A f \in ended'.families \ ended'.slipped :
          \/ f \in ended.families \ ended.slipped
          \/ /\ \A q \in Between : Family(request[q].presented) # f
             /\ \A j \in DOMAIN tokens : tokens[j].family = f => ~Live(j)'
    BY <2>2 DEF Live, Family
  <2> QED
    BY <2>1, <2>2, <2>3, NothingIssued
<1>8. ASSUME NEW r \in Request, Refuse(r) PROVE Goal
  BY <1>t, <1>6, <1>7, <1>8 DEF Refuse, Created
<1>9. ASSUME NEW r \in Request, EndSession(r) PROVE Goal
  BY <1>t, <1>6, <1>7, <1>9 DEF EndSession, Created
<1>10. ASSUME NEW r \in Request, Issue(r) PROVE Goal
  <2> DEFINE i == request[r].presented
             t == [user |-> UserOf(i), family |-> Family(i), used |-> FALSE, revoked |-> FALSE]
             new == Len(tokens) + 1
  <2>1. i \in DOMAIN tokens /\ r \in Between /\ t \in Token /\ tokens' = Append(tokens, t)
    BY <1>10, IssueAppends
  <2>2. /\ DOMAIN tokens' = DOMAIN tokens \cup {new} /\ new \notin DOMAIN tokens
        /\ tokens'[new] = t /\ \A j \in DOMAIN tokens : tokens'[j] = tokens[j]
    BY <1>t, <2>1, Appended
  <2>3. t.family = Family(i) /\ t.user = UserOf(i) /\ ended' = ended
    BY <1>10 DEF Issue
  <2>4. Alone(r)
    BY <2>1 DEF IInv, ClaimedAlone
  <2>5. OneUserPerFamily'
    BY <2>1, <2>2, <2>3 DEF IInv, OneUserPerFamily, UserOf, Family
  <2>6. OneLivePerFamily'
    BY <2>2, <2>3, <2>4 DEF IInv, OneLivePerFamily, Alone, Live, Family
  <2>7. EndedIsEnded'
    BY <2>2, <2>3, <2>4 DEF IInv, EndedIsEnded, Alone, Live, Family
  <2>8. \A q \in Between' : q \in Between /\ q # r /\ request'[q] = request[q]
    BY <1>t, <1>10, AnswerLeaves DEF Issue
  <2>9. ClaimedAlone'
    <3> SUFFICES ASSUME NEW q \in Between' PROVE Alone(q)'
      BY DEF ClaimedAlone
    <3>1. /\ q \in Between /\ q # r /\ request'[q] = request[q]
          /\ Alone(q) /\ request[q].presented \in DOMAIN tokens
      BY <1>o, <2>8 DEF IInv, ClaimedAlone
    <3>2. Family(request[q].presented) # Family(i)
      BY <2>1, <2>4, <3>1 DEF Alone
    <3> QED
      BY <1>o, <2>2, <2>3, <2>8, <3>1, <3>2 DEF Alone, Live, Family
  <2> QED
    BY <2>5, <2>6, <2>7, <2>9
<1>11. ASSUME NEW r \in Request, Renewed(r) \/ Expired(r) \/ Lost(r) \/ SignedOut(r) PROVE Goal
  BY <1>11, BrowserStep DEF Renewed, Expired, Lost, SignedOut, Heard, accounts, IInv, TypeOK
<1>12. ASSUME NEW c \in Change, BeginChange(c) \/ RefuseChange(c) PROVE Goal
  BY <1>12, BrowserStep, NothingIssued DEF BeginChange, RefuseChange, Between
<1>13. ASSUME NEW c \in Change, CommitChange(c) PROVE Goal
  <2>1. /\ DOMAIN tokens' = DOMAIN tokens
        /\ \A j \in DOMAIN tokens : /\ tokens'[j].user = tokens[j].user
                                    /\ tokens'[j].family = tokens[j].family
                                    /\ tokens'[j].used = tokens[j].used
                                    /\ tokens[j].revoked => tokens'[j].revoked
                                    /\ j \in Known(c) => tokens'[j].revoked
        /\ ended'.families = ended.families \cup {Family(i) : i \in Known(c)}
        /\ ended.slipped \subseteq ended'.slipped
        /\ {Family(i) : i \in Mine(c) \ Known(c)} \subseteq ended'.slipped
        /\ \A q \in Between : Family(request[q].presented) \in {Family(i) : i \in Known(c)}
                                => Family(request[q].presented) \in ended'.slipped
    BY <1>t, <1>13, CommitRevokes
  <2>2. ASSUME NEW i \in Known(c), Family(i) \notin ended'.slipped,
               NEW j \in DOMAIN tokens, Family(j) = Family(i)
        PROVE  ~Live(j)'
    <3>1. i \in DOMAIN tokens /\ UserOf(i) = c.target
      BY <2>2 DEF Known, Mine
    <3>2. UserOf(j) = c.target
      BY <2>2, <3>1 DEF IInv, OneUserPerFamily
    <3>3. j \in Known(c) \/ tokens[j].revoked
      BY <2>1, <2>2, <3>2 DEF Mine
    <3> QED
      BY <2>1, <3>3 DEF Live
  <2>3. \A f \in ended'.families \ ended'.slipped :
          \/ f \in ended.families \ ended.slipped
          \/ /\ \A q \in Between : Family(request[q].presented) # f
             /\ \A j \in DOMAIN tokens : tokens[j].family = f => ~Live(j)'
    <3> SUFFICES ASSUME NEW f \in ended'.families \ ended'.slipped, f \notin ended.families
                 PROVE  /\ \A q \in Between : Family(request[q].presented) # f
                        /\ \A j \in DOMAIN tokens : tokens[j].family = f => ~Live(j)'
      BY <2>1
    <3>1. PICK i \in Known(c) : f = Family(i)
      BY <2>1
    <3> QED
      BY <2>1, <2>2, <3>1 DEF Family
  <2>4. request' = request
    BY <1>13 DEF CommitChange
  <2> QED
    BY <2>1, <2>3, <2>4, NothingIssued DEF Between
<1>14. CASE UNCHANGED vars
  BY <1>14, BrowserStep DEF vars
<1> QED
  BY <1>1, <1>2, <1>4, <1>5, <1>8, <1>9, <1>10, <1>11, <1>12, <1>13, <1>14 DEF Next

-----------------------------------------------------------------------------
(* Reuse.                                                                   *)

(* Every step leaves each heard call with its tab.                          *)
LEMMA WaitedForStep == IInv /\ [Next]_vars => WaitedFor'
<1> SUFFICES ASSUME IInv, [Next]_vars, NEW q \in Request, request'[q].heard
             PROVE  request'[q].tab \in Tab
  BY DEF WaitedFor
<1>1. /\ request \in [Request -> RequestRecord] /\ request[q] \in RequestRecord
      /\ request[q].heard => request[q].tab \in Tab
  BY DEF IInv, TypeOK, WaitedFor
<1>2. NoRequest.heard = FALSE
  BY DEF NoRequest
<1>3. Unheard(request[q]) = NoRequest
      \/ Unheard(request[q]) = [request[q] EXCEPT !.heard = FALSE, !.tab = None]
  BY DEF Unheard
<1>4. [request[q] EXCEPT !.heard = FALSE, !.tab = None].heard = FALSE
  BY <1>1 DEF RequestRecord
<1>5. request'[q] # NoRequest /\ request'[q] # Unheard(request[q])
  BY <1>2, <1>3, <1>4
<1>6. CASE request'[q] = request[q]
  BY <1>1, <1>6
<1>7. CASE \E b \in Tab, kind \in {"refresh", "logout"} :
             request'[q] = [NoRequest EXCEPT !.kind = kind, !.step = "sent", !.tab = b,
                                             !.heard = TRUE, !.presented = cookie]
  BY <1>7 DEF NoRequest
<1>8. CASE \/ \E step : request'[q] = [request[q] EXCEPT !.step = step]
           \/ \E step, n : request'[q] = [request[q] EXCEPT !.step = step, !.next = n]
  <2>1. request'[q].tab = request[q].tab /\ request'[q].heard = request[q].heard
    BY <1>1, <1>8 DEF RequestRecord
  <2> QED
    BY <1>1, <2>1
<1>9. CASE UNCHANGED request
  BY <1>6, <1>9
<1>10. ASSUME NEW r \in Request, NEW b \in Tab, NEW kind \in {"refresh", "logout"}, Sends(r, b, kind)
       PROVE  request'[q].tab \in Tab
  BY <1>1, <1>6, <1>7, <1>10 DEF Sends
<1>11. ASSUME NEW r \in Request, NEW step, NEW n, Answer(r, step, n)
       PROVE  request'[q].tab \in Tab
  BY <1>1, <1>5, <1>6, <1>8, <1>11 DEF Answer
<1>12. ASSUME NEW r \in Request, Heard(r) PROVE request'[q].tab \in Tab
  BY <1>1, <1>5, <1>6, <1>12 DEF Heard
<1>13. ASSUME NEW r \in Request, SignedOut(r) PROVE request'[q].tab \in Tab
  BY <1>1, <1>5, <1>6, <1>13 DEF SignedOut
<1>14. ASSUME NEW r \in Request, Claim(r) PROVE request'[q].tab \in Tab
  BY <1>1, <1>6, <1>8, <1>14 DEF Claim
<1>15. ASSUME NEW b \in Tab, Reload(b) PROVE request'[q].tab \in Tab
  BY <1>1, <1>5, <1>6, <1>15 DEF Reload
<1> QED
  BY <1>9, <1>10, <1>11, <1>12, <1>13, <1>14, <1>15
     DEF Next, Login, Expire, Restore, SignOut, SendRefresh, Refuse, Issue, EndSession,
         Renewed, Expired, Lost, BeginChange, CommitChange, RefuseChange, vars

(* Refreshes that stay as they are stay explained, as long as nothing is    *)
(* used up and the cookie is kept or cleared.                               *)
LEMMA RefreshesStay ==
  ASSUME IInv, Explained,
         Refreshing' = Refreshing, \A r \in Refreshing : request'[r] = request[r],
         DOMAIN tokens \subseteq DOMAIN tokens',
         \A i \in DOMAIN tokens : tokens'[i].used = tokens[i].used,
         cookie' \in {cookie, None}
  PROVE  Explained'
<1>1. /\ \A r \in Refreshing : /\ request[r].presented \in DOMAIN tokens \cup {None}
                               /\ request[r].next \in DOMAIN tokens \cup {None}
      /\ cookie \in DOMAIN tokens \cup {None}
  BY DEF IInv, Created, Refreshing
<1>2. \A i \in DOMAIN tokens : Retired(i)' <=> Retired(i)
  BY DEF Retired
<1>3. AllHeard' /\ SentOnce'
  BY DEF Explained, AllHeard, SentOnce
<1>4. SentUnused'
  BY <1>1, <1>2 DEF Explained, SentUnused, Retired
<1>5. NextUnknown'
  BY <1>1, <1>2 DEF Explained, NextUnknown, Retired
<1>6. CookieUnused'
  <2> SUFFICES ASSUME cookie' # None, Retired(cookie)' PROVE InFlight(cookie)'
    BY DEF CookieUnused
  <2>1. cookie' = cookie /\ InFlight(cookie)
    BY <1>1, <1>2 DEF Explained, CookieUnused, Retired
  <2> QED
    BY <2>1 DEF InFlight, Refreshing
<1> QED
  BY <1>3, <1>4, <1>5, <1>6 DEF Explained

(* A call that is no refresh and becomes none leaves the refreshes alone.   *)
LEMMA OtherCall ==
  ASSUME TypeOK, NEW r \in Request, request[r].kind # "refresh", request'[r].kind # "refresh",
         \A q \in Request : q # r => request'[q] = request[q]
  PROVE  Refreshing' = Refreshing /\ \A q \in Refreshing : request'[q] = request[q]
BY DEF Refreshing

(* Every step from an explained state is explained, unless it excuses what  *)
(* comes, and no used token comes back before.                              *)
LEMMA ExplainedStep == IInv /\ [Next]_vars => PlainSound' /\ ReuseExplained'
<1> SUFFICES ASSUME IInv, [Next]_vars PROVE PlainSound' /\ ReuseExplained'
  OBVIOUS
<1> DEFINE Goal == PlainSound' /\ ReuseExplained'
<1>t. /\ TypeOK /\ Created /\ history # "unexplained"
      /\ history = "plain" => Explained
      /\ request \in [Request -> RequestRecord]
      /\ cookie \in DOMAIN tokens \cup {None} /\ None \notin DOMAIN tokens
      /\ \A r \in Request : /\ request[r] \in RequestRecord
                            /\ request[r].presented \in DOMAIN tokens \cup {None}
                            /\ request[r].next \in DOMAIN tokens \cup {None}
  BY SessionsAssumption DEF IInv, TypeOK, Created, PlainSound, ReuseExplained
<1>n. NoRequest.kind = "none" /\ NoRequest.presented = None /\ NoRequest.next = None
  BY DEF NoRequest
<1>a. ASSUME history' \in {history, "excused"}, history' = "plain" => Explained'
      PROVE  Goal
  BY <1>t, <1>a DEF PlainSound, ReuseExplained
<1>1. ASSUME NEW b \in Tab, NEW u \in User, Login(b, u) PROVE Goal
  <2> DEFINE new == Len(tokens) + 1
             t == [user |-> u, family |-> new, used |-> FALSE, revoked |-> FALSE]
  <2>1. tokens' = Append(tokens, t) /\ t \in Token /\ cookie' = new /\ UNCHANGED <<request, history>>
    BY <1>t, <1>1 DEF Login, Token, TypeOK
  <2>2. /\ DOMAIN tokens' = DOMAIN tokens \cup {new} /\ new \notin DOMAIN tokens
        /\ tokens'[new] = t /\ \A j \in DOMAIN tokens : tokens'[j] = tokens[j]
    BY <1>t, <2>1, Appended
  <2>3. /\ ~tokens'[new].used
        /\ \A j \in DOMAIN tokens : tokens'[j].used <=> Retired(j)
    BY <2>2 DEF Retired
  <2>4. ASSUME Explained PROVE Explained'
    <3>1. AllHeard' /\ SentOnce'
      BY <2>1, <2>4 DEF Explained, AllHeard, SentOnce, Refreshing
    <3>2. SentUnused'
      BY <1>t, <2>1, <2>3, <2>4 DEF Explained, SentUnused, Refreshing, Retired
    <3>3. NextUnknown'
      BY <1>t, <2>1, <2>2, <2>3, <2>4 DEF Explained, NextUnknown, Refreshing, Retired
    <3>4. CookieUnused'
      BY <2>1, <2>3 DEF CookieUnused, Retired
    <3> QED
      BY <3>1, <3>2, <3>3, <3>4 DEF Explained
  <2> QED
    BY <1>a, <1>t, <2>1, <2>4
<1>2. ASSUME NEW b \in Tab, Reload(b) PROVE Goal
  <2>1. /\ request' = [r \in Request |-> IF request[r].tab = b THEN Unheard(request[r]) ELSE request[r]]
        /\ history' = (IF Under(b, "refresh") THEN "excused" ELSE history)
        /\ UNCHANGED <<tokens, cookie>>
    BY <1>2 DEF Reload
  <2>2. ASSUME Explained, ~Under(b, "refresh") PROVE Explained'
    <3>1. \A r \in Refreshing : request[r].tab # b
      BY <2>2 DEF Explained, AllHeard, Under, Refreshing
    <3>2. \A r \in Request : request[r].tab = b => Unheard(request[r]).kind # "refresh"
      <4> SUFFICES ASSUME NEW r \in Request, request[r].tab = b
                   PROVE  Unheard(request[r]).kind # "refresh"
        OBVIOUS
      <4>1. request[r].kind # "refresh"
        BY <3>1 DEF Refreshing
      <4>2. [request[r] EXCEPT !.heard = FALSE, !.tab = None].kind = request[r].kind
        BY <1>t DEF RequestRecord
      <4> QED
        BY <1>n, <4>1, <4>2 DEF Unheard
    <3>3. Refreshing' = Refreshing /\ \A r \in Refreshing : request'[r] = request[r]
      BY <2>1, <3>1, <3>2 DEF Refreshing
    <3> QED
      BY <2>1, <2>2, <3>3, RefreshesStay
  <2> QED
    BY <1>a, <1>t, <2>1, <2>2
<1>3. ASSUME NEW r \in Request, NEW b \in Tab, SendRefresh(r, b) PROVE Goal
  <2>1. /\ request[r] = NoRequest
        /\ request' = [request EXCEPT ![r] = [NoRequest EXCEPT !.kind = "refresh", !.step = "sent",
                                                !.tab = b, !.heard = TRUE, !.presented = cookie]]
        /\ history' = (IF SentElsewhere(b) THEN "excused" ELSE history)
        /\ UNCHANGED <<tokens, cookie>> /\ ~Under(b, "refresh")
    BY <1>3 DEF SendRefresh, Sends, RefreshesShared
  <2>2. /\ request'[r].kind = "refresh" /\ request'[r].step = "sent" /\ request'[r].heard
        /\ request'[r].presented = cookie /\ request'[r].next = None
        /\ \A q \in Request : q # r => request'[q] = request[q]
    BY <1>t, <2>1 DEF NoRequest
  <2>3. Refreshing' = Refreshing \cup {r} /\ r \notin Refreshing
    BY <1>n, <2>1, <2>2 DEF Refreshing
  <2>4. ASSUME Explained, cookie # None => ~InFlight(cookie) PROVE Explained'
    <3>0. cookie # None => ~Retired(cookie) /\ \A q \in Refreshing : request[q].presented # cookie
      BY <2>4 DEF Explained, CookieUnused, InFlight, Refreshing
    <3>1. AllHeard'
      BY <2>2, <2>3, <2>4 DEF Explained, AllHeard, Refreshing
    <3>2. SentOnce'
      BY <2>2, <2>3, <2>4, <3>0 DEF Explained, SentOnce, Refreshing
    <3>3. SentUnused'
      BY <2>1, <2>2, <2>3, <2>4, <3>0 DEF Explained, SentUnused, Refreshing, Retired
    <3>4. NextUnknown'
      BY <2>1, <2>2, <2>3, <2>4 DEF Explained, NextUnknown, Refreshing, Retired
    <3>5. CookieUnused'
      BY <2>1, <3>0 DEF CookieUnused, Retired
    <3> QED
      BY <3>1, <3>2, <3>3, <3>4, <3>5 DEF Explained
  <2>5. ASSUME Explained, ~SentElsewhere(b), cookie # None PROVE ~InFlight(cookie)
    <3> SUFFICES ASSUME NEW q \in Request, request[q].kind = "refresh", request[q].presented = cookie
                 PROVE  FALSE
      BY DEF InFlight
    <3>1. request[q].tab = b
      BY <2>5 DEF SentElsewhere
    <3>2. request[q].heard
      BY <2>5 DEF Explained, AllHeard, Refreshing
    <3> QED
      BY <2>1, <3>1, <3>2 DEF Under
  <2> QED
    BY <1>a, <1>t, <2>1, <2>4, <2>5
<1>4. ASSUME NEW r \in Request, NEW b \in Tab, SignOut(r, b) PROVE Goal
  <2>1. /\ request[r] = NoRequest
        /\ request' = [request EXCEPT ![r] = [NoRequest EXCEPT !.kind = "logout", !.step = "sent",
                                                !.tab = b, !.heard = TRUE, !.presented = cookie]]
        /\ UNCHANGED <<tokens, cookie, history>>
    BY <1>4 DEF SignOut, Sends
  <2>2. request'[r].kind = "logout" /\ \A q \in Request : q # r => request'[q] = request[q]
    BY <1>t, <2>1 DEF NoRequest
  <2>3. Refreshing' = Refreshing /\ \A q \in Refreshing : request'[q] = request[q]
    BY <1>n, <1>t, <2>1, <2>2, OtherCall
  <2> QED
    BY <1>a, <1>t, <2>1, <2>3, RefreshesStay
<1>5. ASSUME NEW r \in Request, Claim(r) PROVE Goal
  <2> DEFINE i == request[r].presented
  <2>1. /\ i \in DOMAIN tokens /\ request[r].kind = "refresh" /\ i # None
        /\ request[r].step = "sent"
        /\ request' = [request EXCEPT ![r].step = "claimed"]
        /\ UNCHANGED <<cookie, history>>
    BY <1>t, <1>5 DEF Claim
  <2>2. \A j \in DOMAIN tokens : j # i => (Retired(j)' <=> Retired(j))
    BY <1>t, <1>5, ClaimUses DEF Retired
  <2>3. request'[r] = [request[r] EXCEPT !.step = "claimed"]
    BY <1>t, <2>1
  <2>4. /\ request'[r].kind = "refresh" /\ request'[r].step = "claimed"
        /\ request'[r].presented = i /\ request'[r].next = request[r].next
    BY <1>t, <2>1, <2>3 DEF RequestRecord
  <2>5. request'[r].heard = request[r].heard
    BY <1>t, <2>3 DEF RequestRecord
  <2>6. \A q \in Request : q # r => request'[q] = request[q]
    BY <1>t, <2>1
  <2>7. Refreshing' = Refreshing /\ r \in Refreshing
    BY <2>1, <2>4, <2>6 DEF Refreshing
  <2>8. ASSUME Explained PROVE Explained'
    <3>1. AllHeard'
      BY <2>5, <2>6, <2>7, <2>8 DEF Explained, AllHeard, Refreshing
    <3>2. SentOnce'
      BY <2>4, <2>6, <2>7, <2>8 DEF Explained, SentOnce, Refreshing
    <3>3. SentUnused'
      <4> SUFFICES ASSUME NEW q \in Refreshing, request'[q].step = "sent",
                          request'[q].presented # None
                   PROVE  ~tokens'[request'[q].presented].used
        BY <2>7 DEF SentUnused, Retired
      <4>1. q # r /\ request'[q] = request[q]
        BY <2>4, <2>6 DEF Refreshing
      <4>2. request[q].presented # i
        BY <2>1, <2>7, <2>8, <4>1 DEF Explained, SentOnce
      <4> QED
        BY <1>t, <2>2, <2>8, <4>1, <4>2 DEF Explained, SentUnused, Retired, Refreshing
    <3>4. NextUnknown'
      <4> SUFFICES ASSUME NEW q \in Refreshing, request'[q].step = "answered"
                   PROVE  /\ request'[q].next # None /\ ~tokens'[request'[q].next].used
                          /\ request'[q].next # cookie'
                          /\ \A p \in Refreshing : /\ request'[p].presented # request'[q].next
                                                   /\ request'[p].next = request'[q].next => p = q
        BY <2>7 DEF NextUnknown, Retired
      <4>1. q # r /\ request'[q] = request[q]
        BY <2>4, <2>6 DEF Refreshing
      <4>2. /\ request[q].next # None /\ ~Retired(request[q].next)
            /\ request[q].next # cookie
            /\ \A p \in Refreshing : /\ request[p].presented # request[q].next
                                     /\ request[p].next = request[q].next => p = q
        BY <2>8, <4>1 DEF Explained, NextUnknown
      <4>3. \A p \in Refreshing : /\ request'[p].presented = request[p].presented
                                  /\ request'[p].next = request[p].next
        BY <2>4, <2>6 DEF Refreshing
      <4>4. request[q].next # i /\ request[q].next \in DOMAIN tokens
        BY <1>t, <2>7, <4>2 DEF Refreshing
      <4> QED
        BY <2>1, <2>2, <4>1, <4>2, <4>3, <4>4 DEF Retired
    <3>5. CookieUnused'
      <4> SUFFICES ASSUME cookie # None, tokens'[cookie].used PROVE InFlight(cookie)'
        BY <2>1 DEF CookieUnused, Retired, InFlight
      <4>1. CASE cookie = i
        BY <2>1, <2>4, <4>1 DEF InFlight
      <4>2. CASE cookie # i
        <5>1. InFlight(cookie)
          BY <1>t, <2>2, <2>8, <4>2 DEF Explained, CookieUnused, Retired
        <5> QED
          BY <2>1, <2>4, <2>6, <5>1 DEF InFlight
      <4> QED
        BY <4>1, <4>2
    <3> QED
      BY <3>1, <3>2, <3>3, <3>4, <3>5 DEF Explained
  <2> QED
    BY <1>a, <1>t, <2>1, <2>8
<1>6. ASSUME NEW r \in Request, Refuse(r) PROVE Goal
  <2> DEFINE i == request[r].presented
  <2>1. /\ request[r].kind = "refresh" /\ request[r].step = "sent" /\ cookie' = cookie
        /\ Answer(r, "refused", None)
        /\ i # None /\ Retired(i) /\ history = "plain" => ~Explained
    BY <1>6 DEF Refuse, Explained, SentUnused, Refreshing
  <2>2. /\ history' = history
        /\ history = "plain" => UNCHANGED tokens
    BY <1>6, <1>t, <2>1 DEF Refuse
  <2>3. ASSUME Explained, UNCHANGED tokens PROVE Explained'
    <3>1. request[r].heard /\ r \in Refreshing
      BY <2>1, <2>3 DEF Explained, AllHeard, Refreshing
    <3>2. /\ request'[r] = [request[r] EXCEPT !.step = "refused", !.next = None]
          /\ \A q \in Request : q # r => request'[q] = request[q]
      BY <1>t, <2>1, <3>1 DEF Answer
    <3>3. /\ request'[r].kind = "refresh" /\ request'[r].step = "refused"
          /\ request'[r].presented = i /\ request'[r].next = None
          /\ request'[r].heard = request[r].heard
      BY <1>t, <2>1, <3>2 DEF RequestRecord
    <3>4. /\ Refreshing' = Refreshing
          /\ \A q \in Refreshing : request'[q].presented = request[q].presented
      BY <3>1, <3>2, <3>3 DEF Refreshing
    <3>5. AllHeard'
      BY <2>3, <3>1, <3>2, <3>3, <3>4 DEF Explained, AllHeard, Refreshing
    <3>6. SentOnce'
      BY <2>3, <3>4 DEF Explained, SentOnce
    <3>7. SentUnused'
      BY <2>3, <3>2, <3>3, <3>4 DEF Explained, SentUnused, Refreshing, Retired
    <3>8. NextUnknown'
      <4> SUFFICES ASSUME NEW q \in Refreshing, request'[q].step = "answered"
                   PROVE  /\ request'[q].next # None /\ ~tokens'[request'[q].next].used
                          /\ request'[q].next # cookie'
                          /\ \A p \in Refreshing : /\ request'[p].presented # request'[q].next
                                                   /\ request'[p].next = request'[q].next => p = q
        BY <3>4 DEF NextUnknown, Retired
      <4>1. q # r /\ request'[q] = request[q]
        BY <3>2, <3>3 DEF Refreshing
      <4>2. /\ request[q].next # None /\ ~Retired(request[q].next)
            /\ request[q].next # cookie
            /\ \A p \in Refreshing : /\ request[p].presented # request[q].next
                                     /\ request[p].next = request[q].next => p = q
        BY <2>3, <4>1 DEF Explained, NextUnknown
      <4>3. \A p \in Refreshing : request'[p].next = request[p].next \/ request'[p].next = None
        BY <3>2, <3>3 DEF Refreshing
      <4> QED
        BY <2>1, <2>3, <3>4, <4>1, <4>2, <4>3 DEF Retired
    <3>9. CookieUnused'
      BY <2>1, <2>3, <3>4 DEF Explained, CookieUnused, InFlight, Refreshing, Retired
    <3> QED
      BY <3>5, <3>6, <3>7, <3>8, <3>9 DEF Explained
  <2> QED
    BY <1>a, <1>t, <2>2, <2>3
<1>7. ASSUME NEW r \in Request, Issue(r) PROVE Goal
  <2> DEFINE i == request[r].presented
             t == [user |-> UserOf(i), family |-> Family(i), used |-> FALSE, revoked |-> FALSE]
             new == Len(tokens) + 1
  <2>1. /\ i \in DOMAIN tokens /\ r \in Between /\ t \in Token /\ tokens' = Append(tokens, t)
        /\ Answer(r, "answered", new) /\ UNCHANGED <<cookie, history>>
    BY <1>7, IssueAppends DEF Issue
  <2>2. /\ DOMAIN tokens' = DOMAIN tokens \cup {new} /\ new \notin DOMAIN tokens /\ new # None
        /\ tokens'[new] = t /\ \A j \in DOMAIN tokens : tokens'[j] = tokens[j]
    BY <1>t, <2>1, Appended, SessionsAssumption
  <2>3. /\ ~tokens'[new].used
        /\ \A j \in DOMAIN tokens : tokens'[j].used <=> Retired(j)
    BY <2>2 DEF Retired
  <2>4. request[r].kind = "refresh"
    BY <2>1 DEF IInv, ClaimedAlone, Alone
  <2>5. ASSUME Explained PROVE Explained'
    <3>1. request[r].heard /\ r \in Refreshing
      BY <2>4, <2>5 DEF Explained, AllHeard, Refreshing
    <3>2. /\ request'[r] = [request[r] EXCEPT !.step = "answered", !.next = new]
          /\ \A q \in Request : q # r => request'[q] = request[q]
      BY <1>t, <2>1, <3>1 DEF Answer
    <3>3. /\ request'[r].kind = "refresh" /\ request'[r].step = "answered"
          /\ request'[r].presented = i /\ request'[r].next = new
          /\ request'[r].heard = request[r].heard
      BY <1>t, <2>4, <3>2 DEF RequestRecord
    <3>4. /\ Refreshing' = Refreshing
          /\ \A q \in Refreshing : request'[q].presented = request[q].presented
      BY <3>1, <3>2, <3>3 DEF Refreshing
    <3>5. AllHeard'
      BY <2>5, <3>1, <3>2, <3>3, <3>4 DEF Explained, AllHeard, Refreshing
    <3>6. SentOnce'
      BY <2>5, <3>4 DEF Explained, SentOnce
    <3>7. SentUnused'
      <4> SUFFICES ASSUME NEW q \in Refreshing, request'[q].step = "sent",
                          request'[q].presented # None
                   PROVE  ~tokens'[request'[q].presented].used
        BY <3>4 DEF SentUnused, Retired
      <4>1. request'[q] = request[q]
        BY <3>2, <3>3 DEF Refreshing
      <4>2. request[q].presented \in DOMAIN tokens /\ ~Retired(request[q].presented)
        BY <1>t, <2>5, <4>1 DEF Explained, SentUnused, Refreshing
      <4> QED
        BY <2>3, <4>1, <4>2
    <3>8. NextUnknown'
      <4> SUFFICES ASSUME NEW q \in Refreshing, request'[q].step = "answered"
                   PROVE  /\ request'[q].next # None /\ ~tokens'[request'[q].next].used
                          /\ request'[q].next # cookie'
                          /\ \A p \in Refreshing : /\ request'[p].presented # request'[q].next
                                                   /\ request'[p].next = request'[q].next => p = q
        BY <3>4 DEF NextUnknown, Retired
      <4>1. \A p \in Refreshing : /\ request'[p].presented = request[p].presented
                                  /\ request'[p].presented # new
                                  /\ p # r => request'[p].next = request[p].next
                                  /\ p # r => request'[p].next # new
        <5> SUFFICES ASSUME NEW p \in Refreshing
                     PROVE  /\ request'[p].presented = request[p].presented
                            /\ request'[p].presented # new
                            /\ p # r => request'[p].next = request[p].next
                            /\ p # r => request'[p].next # new
          OBVIOUS
        <5>1. /\ p \in Request /\ request[p].presented # new /\ request[p].next # new
          BY <1>t, <2>2 DEF Refreshing
        <5> QED
          BY <3>2, <3>4, <5>1
      <4>2. CASE q = r
        BY <1>t, <2>1, <2>2, <2>3, <3>3, <4>1, <4>2
      <4>3. CASE q # r
        <5>1. request'[q] = request[q]
          BY <3>2, <4>3 DEF Refreshing
        <5>2. /\ request[q].next # None /\ ~Retired(request[q].next)
              /\ request[q].next # cookie
              /\ \A p \in Refreshing : /\ request[p].presented # request[q].next
                                       /\ request[p].next = request[q].next => p = q
          BY <2>5, <5>1 DEF Explained, NextUnknown
        <5>3. request[q].next \in DOMAIN tokens
          BY <1>t, <5>2 DEF Refreshing
        <5> QED
          BY <2>1, <2>2, <2>3, <3>3, <4>1, <4>3, <5>1, <5>2, <5>3
      <4> QED
        BY <4>2, <4>3
    <3>9. CookieUnused'
      <4> SUFFICES ASSUME cookie # None, tokens'[cookie].used PROVE InFlight(cookie)'
        BY <2>1 DEF CookieUnused, Retired, InFlight
      <4>1. InFlight(cookie)
        BY <1>t, <2>3, <2>5 DEF Explained, CookieUnused
      <4> QED
        BY <2>1, <3>4, <4>1 DEF InFlight, Refreshing
    <3> QED
      BY <3>5, <3>6, <3>7, <3>8, <3>9 DEF Explained
  <2> QED
    BY <1>a, <1>t, <2>1, <2>5
<1>8. ASSUME NEW r \in Request, EndSession(r) PROVE Goal
  <2>1. request[r].kind = "logout" /\ Answer(r, "answered", None) /\ UNCHANGED <<cookie, history>>
    BY <1>8 DEF EndSession
  <2>2. [request[r] EXCEPT !.step = "answered", !.next = None].kind = "logout"
    BY <1>t, <2>1 DEF RequestRecord
  <2>3. request'[r].kind # "refresh" /\ \A q \in Request : q # r => request'[q] = request[q]
    BY <1>n, <1>t, <2>1, <2>2 DEF Answer
  <2>4. Refreshing' = Refreshing /\ \A q \in Refreshing : request'[q] = request[q]
    BY <1>t, <2>1, <2>3, OtherCall
  <2>5. /\ DOMAIN tokens' = DOMAIN tokens
        /\ \A i \in DOMAIN tokens : tokens'[i].used = tokens[i].used
    <3>1. CASE request[r].presented = None
      BY <1>8, <3>1 DEF EndSession
    <3>2. CASE request[r].presented # None
      BY <1>t, <1>8, <3>2, EndRevokes DEF EndSession
    <3> QED
      BY <3>1, <3>2
  <2> QED
    BY <1>a, <1>t, <2>1, <2>4, <2>5, RefreshesStay
<1>9. ASSUME NEW r \in Request, Renewed(r) PROVE Goal
  <2>1. /\ request[r].kind = "refresh" /\ request[r].step = "answered"
        /\ cookie' = request[r].next /\ request' = [request EXCEPT ![r] = NoRequest]
        /\ UNCHANGED <<tokens, history>>
    BY <1>9 DEF Renewed, Heard
  <2>2. /\ request'[r] = NoRequest /\ r \in Refreshing
        /\ \A q \in Request : q # r => request'[q] = request[q]
    BY <1>t, <2>1 DEF Refreshing
  <2>3. Refreshing' = Refreshing \ {r}
    BY <1>n, <2>2 DEF Refreshing
  <2>4. \A q \in Refreshing' : q \in Refreshing /\ q # r /\ request'[q] = request[q]
    BY <2>2, <2>3 DEF Refreshing
  <2>5. ASSUME Explained PROVE Explained'
    <3>1. AllHeard' /\ SentOnce' /\ SentUnused'
      BY <2>1, <2>4, <2>5 DEF Explained, AllHeard, SentOnce, SentUnused, Retired
    <3>2. NextUnknown'
      BY <2>1, <2>2, <2>4, <2>5 DEF Explained, NextUnknown, Retired
    <3>3. CookieUnused'
      BY <2>1, <2>2, <2>5 DEF Explained, NextUnknown, CookieUnused, Retired
    <3> QED
      BY <3>1, <3>2, <3>3 DEF Explained
  <2> QED
    BY <1>a, <1>t, <2>1, <2>5
<1>10. ASSUME NEW r \in Request, Expired(r) PROVE Goal
  <2>1. /\ request[r].step = "refused"
        /\ cookie' = (IF request[r].presented = None THEN cookie ELSE None)
        /\ request' = [request EXCEPT ![r] = NoRequest]
        /\ UNCHANGED <<tokens, history>>
    BY <1>10 DEF Expired, Heard
  <2>2. /\ request'[r] = NoRequest
        /\ \A q \in Request : q # r => request'[q] = request[q]
    BY <1>t, <2>1
  <2>3. Refreshing' = Refreshing \ {r}
    BY <1>n, <2>2 DEF Refreshing
  <2>4. \A q \in Refreshing' : q \in Refreshing /\ q # r /\ request'[q] = request[q]
    BY <2>2, <2>3 DEF Refreshing
  <2>5. ASSUME Explained PROVE Explained'
    <3>1. AllHeard' /\ SentOnce' /\ SentUnused'
      BY <2>1, <2>4, <2>5 DEF Explained, AllHeard, SentOnce, SentUnused, Retired
    <3>2. NextUnknown'
      BY <2>1, <2>2, <2>4, <2>5 DEF Explained, NextUnknown, Retired
    <3>3. CookieUnused'
      BY <2>1, <2>2, <2>5 DEF Explained, CookieUnused, InFlight, Retired
    <3> QED
      BY <3>1, <3>2, <3>3 DEF Explained
  <2> QED
    BY <1>a, <1>t, <2>1, <2>5
<1>11. ASSUME NEW r \in Request, SignedOut(r) PROVE Goal
  <2>1. /\ request[r].kind = "logout" /\ request' = [request EXCEPT ![r] = Unheard(@)]
        /\ cookie' \in {cookie, None} /\ UNCHANGED <<tokens, history>>
    BY <1>11 DEF SignedOut
  <2>2. [request[r] EXCEPT !.heard = FALSE, !.tab = None].kind = "logout"
    BY <1>t, <2>1 DEF RequestRecord
  <2>3. request'[r].kind # "refresh" /\ \A q \in Request : q # r => request'[q] = request[q]
    BY <1>n, <1>t, <2>1, <2>2 DEF Unheard
  <2>4. Refreshing' = Refreshing /\ \A q \in Refreshing : request'[q] = request[q]
    BY <1>t, <2>1, <2>3, OtherCall
  <2> QED
    BY <1>a, <1>t, <2>1, <2>4, RefreshesStay
<1>12. ASSUME NEW r \in Request, Lost(r) PROVE Goal
  BY <1>12 DEF Lost, PlainSound, ReuseExplained
<1>13. ASSUME UNCHANGED <<request, cookie, history>>, DOMAIN tokens' = DOMAIN tokens,
              \A i \in DOMAIN tokens : tokens'[i].used = tokens[i].used
       PROVE  Goal
  BY <1>a, <1>t, <1>13, RefreshesStay DEF Refreshing
<1>14. ASSUME NEW c \in Change, CommitChange(c) PROVE Goal
  <2>1. UNCHANGED <<request, cookie, history>>
    BY <1>14 DEF CommitChange
  <2> QED
    BY <1>13, <1>14, <1>t, <2>1, CommitRevokes
<1>15. CASE UNCHANGED <<tokens, request, cookie, history>>
  BY <1>13, <1>15
<1> QED
  BY <1>1, <1>2, <1>3, <1>4, <1>5, <1>6, <1>7, <1>8, <1>9, <1>10, <1>11, <1>12, <1>14, <1>15
     DEF Next, Expire, Restore, BeginChange, RefuseChange, vars

-----------------------------------------------------------------------------

(* At first nobody is signed in, nothing is under way, and an admin is      *)
(* among the accounts.                                                      *)
LEMMA InitSound == Init => IInv
<1> SUFFICES ASSUME Init PROVE IInv
  OBVIOUS
<1> USE SessionsAssumption DEF Init
<1>1. NoRequest \in RequestRecord /\ Waiting \in ChangeRecord
  BY DEF NoRequest, RequestRecord, Waiting, ChangeRecord
<1>2. tokens \in Seq(Token) /\ DOMAIN tokens = {}
  BY EmptySeq, LenProperties
<1>3. TypeOK
  BY <1>1, <1>2 DEF TypeOK
<1>4. \A r \in Request : /\ request[r].presented = None /\ request[r].next = None
                         /\ request[r].step = "none" /\ request[r].kind = "none"
                         /\ request[r].heard = FALSE
  BY DEF NoRequest
<1>5. Created /\ OneUserPerFamily /\ OneLivePerFamily /\ EndedIsEnded
  BY <1>2, <1>4 DEF Created, OneUserPerFamily, OneLivePerFamily, EndedIsEnded
<1>6. WaitedFor
  BY <1>4 DEF WaitedFor
<1>7. ClaimedAlone
  BY <1>4 DEF ClaimedAlone, Between
<1>8. SnapshotCurrent
  BY DEF SnapshotCurrent, Open, Waiting
<1>9. SomeAdmin
  BY DEF SomeAdmin
<1>10. PlainSound /\ ReuseExplained
  BY <1>4 DEF PlainSound, ReuseExplained, Explained, AllHeard, SentOnce, SentUnused, NextUnknown,
              CookieUnused, Refreshing
<1> QED
  BY <1>3, <1>5, <1>6, <1>7, <1>8, <1>9, <1>10 DEF IInv

(* The invariant is inductive.                                              *)
THEOREM StepSound == IInv /\ [Next]_vars => IInv'
BY TypeStep, WaitedForStep, RotationStep, RolesStep, ExplainedStep DEF IInv

(* The variables keep their types.                                          *)
THEOREM TypesHold == Spec => []TypeOK
<1>1. IInv => TypeOK
  BY DEF IInv
<1> QED
  BY <1>1, InitSound, StepSound, PTL DEF Spec

(* One sign-in has at most one refresh token that works, however many       *)
(* refreshes present a token at once (refreshTokenRepository.claim).        *)
THEOREM Rotation == Spec => []OneLivePerFamily
<1>1. IInv => OneLivePerFamily
  BY DEF IInv
<1> QED
  BY <1>1, InitSound, StepSound, PTL DEF Spec

(* An ended session has no token left that works, unless a refresh was in   *)
(* the gap or a token was issued behind the transaction's back.             *)
THEOREM EndedStaysEnded == Spec => []EndedIsEnded
<1>1. IInv => EndedIsEnded
  BY DEF IInv
<1> QED
  BY <1>1, InitSound, StepSound, PTL DEF Spec

(* There is always an admin (lockAdminGuard), whatever roles are asked for  *)
(* at once.                                                                 *)
THEOREM AdminRemains == Spec => []SomeAdmin
<1>1. IInv => SomeAdmin
  BY DEF IInv
<1> QED
  BY <1>1, InitSound, StepSound, PTL DEF Spec

(* A used token comes back only after two tabs sent one at once, or an       *)
(* answer was not heard: until then the calls of one tab never end their own *)
(* session, however many expire together.                                    *)
THEOREM ReuseIsExplained == Spec => []ReuseExplained
<1>1. IInv => ReuseExplained
  BY DEF IInv
<1> QED
  BY <1>1, InitSound, StepSound, PTL DEF Spec

=============================================================================
