------------------------------ MODULE Sessions ------------------------------
(***************************************************************************)
(* Who is signed in (sessionService, refreshTokenRepository, userService,  *)
(* routes/auth) and how the tabs of one browser keep it that way (api.ts,  *)
(* AuthContext).                                                           *)
(*                                                                         *)
(* The tabs share one cookie, which holds the refresh token.  It works     *)
(* once: the server claims it, and only then issues the next of its        *)
(* family.  Requests carry the cookie of the moment they are sent, and     *)
(* answers set it when they arrive.  An access token expires at any time.  *)
(***************************************************************************)
EXTENDS Integers, Sequences, FiniteSets

CONSTANTS
  User,
  Founding,    \* the roles the accounts may be created with
  None,        \* no token, no user, no tab
  Tab,         \* tabs of one browser
  Request,     \* calls of the browser to the session endpoints, at once
  Change,      \* the role changes asked for, possibly at once: [target, role]
  MaxSignIns,  \* bound on the sign-ins
  MaxTokens    \* bound on the refresh tokens issued

Role == {"admin", "technician", "user"}

(* The first accounts have an admin among them. *)
ASSUME SessionsAssumption ==
  /\ MaxSignIns \in Nat /\ MaxTokens \in Nat
  /\ None \notin Nat \cup Tab
  /\ Change \subseteq [target : User, role : Role]
  /\ Founding \subseteq [User -> Role]
  /\ \A f \in Founding : \E u \in User : f[u] = "admin"

VARIABLES
  role,      \* role[u]
  change,    \* change[c]: how far it is, and the snapshot its transaction reads
  tokens,    \* the refresh tokens, in the order they were created
  ended,     \* families that were ended, and those of them a refresh slipped out of
  cookie,    \* the refresh token the browser holds
  signedIn,  \* the tabs that show somebody as signed in and hold an access token
  request,   \* request[r]: a refresh or sign-out under way
  history    \* "excused" once a used token may come back, "unexplained" if one came back before

vars == <<role, change, tokens, ended, cookie, signedIn, request, history>>
accounts == <<role, change>>

-----------------------------------------------------------------------------

NoRequest ==
  [kind |-> "none", step |-> "none", tab |-> None, heard |-> FALSE, presented |-> None, next |-> None]
Waiting == [step |-> "waiting", seen |-> None, known |-> 0]
Done == [Waiting EXCEPT !.step = "done"]

Live(i) == ~tokens[i].used /\ ~tokens[i].revoked
Family(i) == tokens[i].family
UserOf(i) == tokens[i].user

Init ==
  /\ role \in Founding
  /\ change = [c \in Change |-> Waiting]
  /\ tokens = <<>>
  /\ ended = [families |-> {}, slipped |-> {}]
  /\ cookie = None
  /\ signedIn = {}
  /\ request = [r \in Request |-> NoRequest]
  /\ history = "plain"

-----------------------------------------------------------------------------
(* The browser sends.                                                       *)

Sends(r, b, kind) ==
  request' = [request EXCEPT ![r] = [NoRequest EXCEPT !.kind = kind, !.step = "sent", !.tab = b,
                                                      !.heard = TRUE, !.presented = cookie]]
Unheard(q) == IF q.step \in {"sent", "claimed"} THEN [q EXCEPT !.heard = FALSE, !.tab = None]
              ELSE NoRequest
Under(b, kind) == \E r \in Request : request[r].tab = b /\ request[r].kind = kind /\ request[r].heard

(* Signing in begins a new family; the one the cookie held is left alone.   *)
Login(b, u) ==
  LET i == Len(tokens) + 1 IN
  /\ b \notin signedIn
  /\ ~Under(b, "refresh") /\ ~Under(b, "logout")
  /\ i <= MaxTokens /\ Cardinality({Family(j) : j \in DOMAIN tokens}) < MaxSignIns
  /\ tokens' = Append(tokens, [user |-> u, family |-> i, used |-> FALSE, revoked |-> FALSE])
  /\ cookie' = i
  /\ signedIn' = signedIn \cup {b}
  /\ UNCHANGED <<accounts, ended, request, history>>

(* A call of the tab met an expired token, or its page was loaded: its      *)
(* calls share one refresh.  Another tab knows nothing of it, and may send  *)
(* the same cookie; that is what excuses a token that comes back.           *)
RefreshesAlone(b) == TRUE
RefreshesShared(b) == ~Under(b, "refresh")

SentElsewhere(b) ==
  cookie # None /\ \E r \in Request : /\ request[r].kind = "refresh"
                                    /\ request[r].presented = cookie
                                    /\ request[r].tab # b

SendRefresh(r, b) ==
  /\ RefreshesShared(b)
  /\ request[r] = NoRequest
  /\ Sends(r, b, "refresh")
  /\ history' = IF SentElsewhere(b) THEN "excused" ELSE history
  /\ UNCHANGED <<accounts, tokens, ended, cookie>>

Expire(r, b) ==
  /\ b \in signedIn
  /\ SendRefresh(r, b)
  /\ UNCHANGED signedIn

(* A new page: what the old one was waiting for is not heard any more.      *)
Reload(b) ==
  /\ signedIn' = signedIn \ {b}
  /\ request' = [r \in Request |-> IF request[r].tab = b THEN Unheard(request[r]) ELSE request[r]]
  /\ request' # request
  /\ history' = IF Under(b, "refresh") THEN "excused" ELSE history
  /\ UNCHANGED <<accounts, tokens, ended, cookie>>

Restore(r, b) ==
  /\ b \notin signedIn
  /\ SendRefresh(r, b)
  /\ UNCHANGED signedIn

SignOut(r, b) ==
  /\ b \in signedIn
  /\ ~Under(b, "logout")
  /\ request[r] = NoRequest
  /\ Sends(r, b, "logout")
  /\ UNCHANGED <<accounts, tokens, ended, cookie, signedIn, history>>

-----------------------------------------------------------------------------
(* The server answers.                                                      *)

(* Nobody waits for the answer of an unheard call. *)
Answer(r, step, next) ==
  request' = [request EXCEPT ![r] = IF @.heard THEN [@ EXCEPT !.step = step, !.next = next]
                                    ELSE NoRequest]

(* A write to tokens that a role change is about to revoke makes it start again. *)
Conflicts(written) ==
  change' = [c \in Change |->
    IF change[c].step = "open" /\ \E i \in written : UserOf(i) = c.target /\ ~tokens[i].revoked
                                                    /\ i <= change[c].known
    THEN Waiting ELSE change[c]]

ClaimsUsed(i) == ~tokens[i].revoked
Claims(i) == Live(i)
Retired(i) == tokens[i].used

(* Ends families; the refreshes in between slip out of them. *)
Between == {r \in Request : request[r].step = "claimed"}
Ends(families, slipped) ==
  ended' = [families |-> ended.families \cup families,
            slipped |-> ended.slipped \cup slipped
                        \cup (families \cap {Family(request[r].presented) : r \in Between})]

RevokeOne(i) == [tokens EXCEPT ![i].revoked = TRUE]
RevokeFamily(i) ==
  [j \in DOMAIN tokens |-> [tokens[j] EXCEPT !.revoked = @ \/ Family(j) = Family(i)]]

End(i) ==
  /\ tokens' = RevokeFamily(i)
  /\ Ends({Family(i)}, {})
  /\ Conflicts({j \in DOMAIN tokens : Family(j) = Family(i)})

(* refreshSession: claims the token, or finds that it was used before.      *)
Claim(r) ==
  LET i == request[r].presented IN
  /\ request[r].kind = "refresh" /\ request[r].step = "sent"
  /\ i # None /\ Claims(i)
  /\ tokens' = [tokens EXCEPT ![i].used = TRUE]
  /\ Conflicts({i})
  /\ request' = [request EXCEPT ![r].step = "claimed"]
  /\ UNCHANGED <<role, ended, cookie, signedIn, history>>

Refuse(r) ==
  LET i == request[r].presented  reuse == i # None /\ Retired(i) IN
  /\ request[r].kind = "refresh" /\ request[r].step = "sent"
  /\ i # None => ~Claims(i)
  /\ IF reuse THEN End(i) ELSE UNCHANGED <<change, tokens, ended>>
  /\ history' = IF reuse /\ history = "plain" THEN "unexplained" ELSE history
  /\ Answer(r, "refused", None)
  /\ UNCHANGED <<role, cookie, signedIn>>

Issue(r) ==
  LET i == request[r].presented  next == Len(tokens) + 1 IN
  /\ request[r].step = "claimed"
  /\ next <= MaxTokens
  /\ tokens' = Append(tokens, [user |-> UserOf(i), family |-> Family(i),
                               used |-> FALSE, revoked |-> FALSE])
  /\ Answer(r, "answered", next)
  /\ UNCHANGED <<accounts, ended, cookie, signedIn, history>>

EndSession(r) ==
  LET i == request[r].presented IN
  /\ request[r].kind = "logout" /\ request[r].step = "sent"
  /\ IF i # None THEN End(i) ELSE UNCHANGED <<change, tokens, ended>>
  /\ Answer(r, "answered", None)
  /\ UNCHANGED <<role, cookie, signedIn, history>>

-----------------------------------------------------------------------------
(* The browser hears: the answer sets the cookie and the tab's token,       *)
(* whatever happened to them since it was sent.                             *)

Heard(r) == request' = [request EXCEPT ![r] = NoRequest]

Renewed(r) ==
  /\ request[r].kind = "refresh" /\ request[r].step = "answered" /\ request[r].heard
  /\ cookie' = request[r].next
  /\ signedIn' = signedIn \cup {request[r].tab}
  /\ Heard(r)
  /\ UNCHANGED <<accounts, tokens, ended, history>>

Expired(r) ==
  /\ request[r].step = "refused" /\ request[r].heard
  /\ cookie' = IF request[r].presented = None THEN cookie ELSE None
  /\ signedIn' = signedIn \ {request[r].tab}
  /\ Heard(r)
  /\ UNCHANGED <<accounts, tokens, ended, history>>

(* Signing out works here even if the server could not be reached, or its   *)
(* answer did not arrive.                                                   *)
SignedOut(r) ==
  /\ request[r].kind = "logout" /\ request[r].step \in {"sent", "answered"} /\ request[r].heard
  /\ cookie' \in IF request[r].step = "answered" THEN {cookie, None} ELSE {cookie}
  /\ signedIn' = signedIn \ {request[r].tab}
  /\ request' = [request EXCEPT ![r] = Unheard(@)]
  /\ UNCHANGED <<accounts, tokens, ended, history>>

(* A refresh whose answer is lost on the way. *)
Lost(r) ==
  /\ request[r].kind = "refresh" /\ request[r].step \in {"answered", "refused"}
  /\ Heard(r)
  /\ history' = "excused"
  /\ UNCHANGED <<accounts, tokens, ended, cookie, signedIn>>

-----------------------------------------------------------------------------
(* Role changes: each is a transaction over a snapshot, and starts again if *)
(* another writer touched what it writes.  Locking the admin guard makes    *)
(* any two of them conflict.                                                *)

Open == {c \in Change : change[c].step = "open"}

LastAdmin(c) ==
  /\ change[c].seen[c.target] = "admin" /\ c.role # "admin"
  /\ \A u \in User \ {c.target} : change[c].seen[u] # "admin"

BeginChange(c) ==
  /\ change[c].step = "waiting"
  /\ change' = [change EXCEPT ![c] = [step |-> "open", seen |-> role, known |-> Len(tokens)]]
  /\ UNCHANGED <<role, tokens, ended, cookie, signedIn, request, history>>

Unguarded(c) == [change EXCEPT ![c] = Done]
Guarded(c) == [o \in Change |-> IF o = c THEN Done ELSE IF o \in Open THEN Waiting ELSE change[o]]

(* The sessions of the user that the snapshot shows are ended with it.      *)
CommitChange(c) ==
  LET mine == {i \in DOMAIN tokens : UserOf(i) = c.target /\ ~tokens[i].revoked}
      known == {i \in mine : i <= change[c].known} IN
  /\ c \in Open
  /\ ~LastAdmin(c)
  /\ role' = [role EXCEPT ![c.target] = c.role]
  /\ tokens' = [i \in DOMAIN tokens |-> [tokens[i] EXCEPT !.revoked = @ \/ i \in known]]
  /\ Ends({Family(i) : i \in known}, {Family(i) : i \in mine \ known})
  /\ change' = Guarded(c)
  /\ UNCHANGED <<cookie, signedIn, request, history>>

RefuseChange(c) ==
  /\ c \in Open
  /\ LastAdmin(c)
  /\ change' = [change EXCEPT ![c] = Done]
  /\ UNCHANGED <<role, tokens, ended, cookie, signedIn, request, history>>

-----------------------------------------------------------------------------

Next ==
  \/ \E b \in Tab, u \in User : Login(b, u)
  \/ \E b \in Tab : Reload(b)
  \/ \E r \in Request, b \in Tab : Expire(r, b) \/ Restore(r, b) \/ SignOut(r, b)
  \/ \E r \in Request : Claim(r) \/ Refuse(r) \/ Issue(r) \/ EndSession(r)
                        \/ Renewed(r) \/ Expired(r) \/ SignedOut(r) \/ Lost(r)
  \/ \E c \in Change : BeginChange(c) \/ CommitChange(c) \/ RefuseChange(c)

Spec == Init /\ [][Next]_vars

-----------------------------------------------------------------------------

(* Rotation: however many refreshes present a token at once, and whatever   *)
(* is lost, one sign-in has at most one refresh token that still works.     *)
OneLivePerFamily ==
  \A i, j \in DOMAIN tokens : Live(i) /\ Live(j) /\ Family(i) = Family(j) => i = j

(* A session that was ended, by signing out, by a role change or because a  *)
(* used token came back, has no token left that works, whichever of its     *)
(* tokens the call presented, unless a refresh was between claiming its     *)
(* token and issuing the next (or the transaction could not see it).        *)
EndedIsEnded ==
  \A i \in DOMAIN tokens : Live(i) => Family(i) \notin ended.families \ ended.slipped

(* There is always an admin, although every change of a role checks that on *)
(* a snapshot of its own (lockAdminGuard).                                  *)
SomeAdmin == \E u \in User : role[u] = "admin"

(* A used token comes back, and ends its session, only once two tabs have   *)
(* sent one token at once, or an answer that replaced a token was not heard *)
(* (lost, or its page was loaded again).  Until then the calls of one tab   *)
(* that expire together do not end their own session (refreshSession in     *)
(* api.ts), nor does a token that was merely revoked (sessionService).      *)
ReuseExplained == history # "unexplained"

=============================================================================
