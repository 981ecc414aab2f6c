-------------------------- MODULE MCTicketWorkflow --------------------------
(* TicketWorkflow for TLC: one ticket, an admin, two agents, a customer,    *)
(* two requests at a time.                                                  *)
EXTENDS TicketWorkflow, TLC

CONSTANTS a1, g1, g2, u1, t1, w1, w2

MCAdmins == {a1}
MCAgents == {g1, g2}
MCCustomers == {u1}
MCTickets == {t1}
MCWorkers == {w1, w2}
=============================================================================
