------------------------------- MODULE MCQueue -------------------------------
(* The instance on which TLC checks Queue: one status to filter by and one    *)
(* word to search for, which no ticket has both of, pages of one ticket, and  *)
(* the addresses a bookmark or a link may hold.                               *)
EXTENDS Queue

Tickets == {[id |-> 1, status |-> "open", word |-> "vpn"],
            [id |-> 2, status |-> "resolved", word |-> "printer"],
            [id |-> 3, status |-> "open", word |-> "vpn"]}

Addresses == {[status |-> All, search |-> All, page |-> 1],
              [status |-> "resolved", search |-> "vpn", page |-> 2]}

=============================================================================
