------------------------------ MODULE MCIntake ------------------------------
(***************************************************************************)
(* Leads as they come in, for TLC: SiteForms, BiuroImport, and the Clients *)
(* that every insert of a lead is attached to.  The modules share no       *)
(* state, so nothing is gained by interleaving them: a behaviour picks one *)
(* part and moves only that.                                               *)
(***************************************************************************)
EXTENDS SiteForms, Clients, BiuroImport, TLC

\* Interchangeable things: each part uses them for its own (Intake.cfg), so that one
\* small group of permutations serves them all.
CONSTANTS s1, s2
Symmetric == Permutations({s1, s2})

CONSTANTS r3, r4, k1, n1, n2, m1, e1

\* One phone with and without an email, and another with the same email.
FewContacts == {[phone |-> n1, email |-> m1], [phone |-> n2, email |-> m1],
                [phone |-> n1, email |-> NoContact]}

\* Rows of a sheet: two customers, one without a phone, calls of known managers and not.
Says(phone, day, talk, known, note) ==
    [phone |-> phone, day |-> day, talk |-> talk, known |-> known, note |-> note]
FewRows == {Says(n1, 1, 1, TRUE, TRUE), Says(n1, 2, NoDay, TRUE, TRUE),
            Says(n2, 1, 1, FALSE, FALSE), Says(n2, 1, NoDay, FALSE, TRUE),
            Says(NoNumber, 1, 2, TRUE, FALSE)}

VARIABLE part

\* Bounds of the two parts that are about clients: with an import nobody edits a client.
NobodyEdits == editing' = editing
NoImport == \A i \in Imports : arrival'[i] = "snapshot"

\* The parts that stand still start alike.
RunInit ==
    /\ part \in {"form", "client", "card", "import"}
    /\ Init /\ ClientInit /\ ImportInit
    /\ part \notin {"client", "card"} =>
            \A i \in Inserts : contact[i] = [phone |-> n1, email |-> m1]

RunNext ==
    /\ part' = part
    /\ \/ part = "form" /\ Next /\ UNCHANGED <<clientVars, importVars>>
       \/ part = "client" /\ ClientNext /\ NobodyEdits /\ UNCHANGED <<vars, importVars>>
       \/ part = "card" /\ ClientNext /\ NoImport /\ UNCHANGED <<vars, importVars>>
       \/ part = "import" /\ ImportNext /\ UNCHANGED <<vars, clientVars>>

RunSpec == RunInit /\ [][RunNext]_<<part, vars, clientVars, importVars>>
=============================================================================
