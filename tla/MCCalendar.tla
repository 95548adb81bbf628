----------------------------- MODULE MCCalendar -----------------------------
(***************************************************************************)
(* Instances of Calendar for TLC, with whole hours as instants.            *)
(***************************************************************************)
EXTENDS Calendar, TLC

CONSTANTS r1, r2, r3, r4, lead1, lead2, anna, boris, k1

Ask(op, lead, kind, start, len, mgr, ends) ==
    [op |-> op, lead |-> lead, kind |-> kind, start |-> start, len |-> len,
     mgr |-> mgr, ends |-> ends]

Book(lead, kind, start, len) == Ask("book", lead, kind, start, len, anna, FALSE)
Invite(lead, start) == Ask("invite", lead, "showroom", start, 1, anna, FALSE)
Edit(start, mgr, ends) == Ask("edit", lead1, "showroom", start, 1, mgr, ends)
OnLead(op) == Ask(op, lead1, "showroom", 1, 1, anna, FALSE)

AllOperations ==
    {Book(lead1, "showroom", 1, 2), Book(lead1, "measurement", 2, 1),
     Book(lead2, "office_work", 2, 2), Invite(lead1, 2), Edit(1, anna, FALSE),
     Edit(2, boris, FALSE), Edit(1, anna, TRUE), OnLead("close"), OnLead("archive"),
     OnLead("erase")}

Symmetric == Permutations({r1, r2, r3, r4})
=============================================================================
