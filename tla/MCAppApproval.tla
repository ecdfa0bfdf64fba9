----------------------------- MODULE MCAppApproval -----------------------------
(* A small instance of AppApproval for TLC.                                  *)
EXTENDS AppApproval, TLC

CONSTANTS u1, a1, a2, l1, h1, h2

Default == [url |-> a1, active |-> TRUE, auth |-> FALSE, header |-> FALSE, private |-> FALSE,
            shared |-> {}, type |-> "alias", teams |-> TRUE, status |-> "pending"]

\* A public alias, one that tells the upstream who is there, a shared one, a link.
MCCreations ==
    {Default, [Default EXCEPT !.auth = TRUE, !.header = TRUE],
     [Default EXCEPT !.shared = {u1}, !.teams = FALSE], [Default EXCEPT !.type = "url", !.url = l1]}

MCPayloads ==
    {[status |-> "approved"], [status |-> "rejected"],
     [private |-> TRUE, teams |-> FALSE], [private |-> FALSE, teams |-> TRUE],
     [shared |-> {u1}], [shared |-> {}],
     [auth |-> TRUE], [auth |-> FALSE], [auth |-> TRUE, header |-> TRUE], [header |-> FALSE],
     [auth |-> FALSE, header |-> FALSE],
     [url |-> a2], [url |-> a2, active |-> FALSE], [active |-> TRUE],
     [type |-> "url", url |-> l1], [type |-> "alias", url |-> a1]}

Symmetry == Permutations(Threads)
=============================================================================
