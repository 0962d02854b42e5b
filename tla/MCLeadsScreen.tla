--------------------------- MODULE MCLeadsScreen ---------------------------
(* Small instances of LeadsScreen for TLC: an attorney on the leads page,  *)
(* an admin on the audit trail, each with overlapping requests on a short  *)
(* list, and with one request at a time on a longer one.                   *)
EXTENDS LeadsScreen

CONSTANTS ann, root, f1, f2

Bounds(t, u, rows, requests) ==
    [table |-> t, viewer |-> u, rows |-> rows, requests |-> requests]

MCViews == {Bounds("leads", ann, 1, 2), Bounds("leads", ann, 2, 1),
            Bounds("audit", root, 2, 2), Bounds("audit", root, 3, 1)}
=============================================================================
