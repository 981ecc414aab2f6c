--------------------------- MODULE MCTicketDesk ---------------------------
(* TicketDesk for TLC: a customer's tickets go from agent to agent, and to *)
(* another customer or to the id 0 when the admin says so.                 *)
EXTENDS TicketDesk, TLC

CONSTANTS admin, a1, a2, u1, u2, w1, zero

OneAdmin == {admin}
TwoAgents == {a1, a2}
TwoCustomers == {u1, u2}
Anyone == {a1, a2, u2, zero}

(* No action reads shown, and both properties look at it in the step that   *)
(* sets it: states that differ in shown only need not be told apart.        *)
WithoutShown == <<tickets, items, job>>
Interchangeable == Permutations(TwoAgents)
=============================================================================
