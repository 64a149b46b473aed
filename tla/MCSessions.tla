----------------------------- MODULE MCSessions -----------------------------
(* The instance on which TLC checks Sessions: every admin is to lose the    *)
(* role, at once.                                                           *)
EXTENDS Sessions, TLC

AllAdmins == {[u \in User |-> "admin"]}

Demotions == [target : User, role : {"user"}]

Symmetric == Permutations(User) \cup Permutations(Tab) \cup Permutations(Request)

=============================================================================
