------------------------------ MODULE Onboarding ------------------------------
(***************************************************************************)
(* The first authenticated requests of a user: the row of app.users that   *)
(* an identity is mapped to (services/auth.py, repositories/users.py), the *)
(* one-time starter reports (services/starter_reports.py) and the saved    *)
(* reports they join (repositories/reports.py).                            *)
(*                                                                         *)
(* A request is one transaction under READ COMMITTED, one statement an     *)
(* action: it sees what is committed when the statement starts, and its    *)
(* own writes become visible together when it commits.  The lock of a      *)
(* user's row, or of the unique key of a row being inserted, is held until *)
(* the transaction ends.                                                   *)
(***************************************************************************)

CONSTANTS
    Identities,  \* verified pairs of issuer and subject
    Requests,    \* bound: authenticated requests, each made once
    NoOne

ASSUME OnboardingAssumption ==
    /\ NoOne \notin Identities \union Requests
    /\ Identities \intersect Requests = {}

VARIABLES
    row,       \* app.users: the row of an identity
    saved,     \* app.backtest_reports
    enabled,   \* the built-ins of the registry that are active
    holder,    \* the request whose transaction has the row or its key locked
    txn        \* the transaction of a request

vars == <<row, saved, enabled, holder, txn>>
tables == <<row, saved>>

STARTER_STRATEGY_KEYS == {"portfolio_1", "portfolio_2"}

\* The id is drawn by the request that inserts the row; the rows that were there
\* before are named after their identity.
Owners == Identities \union Requests
NoRow == [id |-> NoOne, seeded |-> FALSE]
Ids == {row[i].id : i \in Identities} \ {NoOne}

Report(o, key, purpose, generated) ==
    [owner |-> o, key |-> key, purpose |-> purpose, generated |-> generated]

\* A job stores the purpose of its run.  Documents from before that have none,
\* and older examples were stored as user reports.
JobReport(o) == Report(o, "run", "user", FALSE)
Earlier(o) == {Report(o, "run", "validation", FALSE), Report(o, "run", "none", FALSE),
               Report(o, "portfolio_1", "user", TRUE)}

\* Deterministic: the id of the report is a digest of the owner and the key.
BuildReport(o, key) == Report(o, key, "example", TRUE)
Starters(o) == {BuildReport(o, key) : key \in STARTER_STRATEGY_KEYS}

-------------------------------------------------------------------------------
(* What the statements select.                                              *)

Purpose(s) == IF s.purpose = "none" THEN "user" ELSE s.purpose
ExamplePredicate(s) == s.purpose = "example" \/ s.generated

ListReports(o, examples) ==
    {s \in saved : /\ s.owner = o
                   /\ ExamplePredicate(s) = examples
                   /\ examples \/ Purpose(s) = "user"}

OwnerHasVisibleReports(o) ==
    \E s \in saved : s.owner = o /\ (Purpose(s) = "user" \/ ExamplePredicate(s))

\* The document of the detail and export routes discloses every example.
ToDetail(s) ==
    IF s.purpose = "example" \/ s.generated
    THEN [s EXCEPT !.purpose = "example", !.generated = TRUE]
    ELSE s

-------------------------------------------------------------------------------
(* The transaction of a request.                                            *)

Unused == [at |-> "unused", who |-> NoOne, user |-> NoRow,
           inserts |-> FALSE, marks |-> FALSE, adds |-> {}]
Open == {"lookup", "insert", "lock", "decide", "portfolio_1", "portfolio_2", "add", "commit"}
Locations == Open \union {"unused", "answered", "failed"}

Users == [id : Owners \union {NoOne}, seeded : BOOLEAN]
Reports == [owner : Owners \union {NoOne}, key : STARTER_STRATEGY_KEYS \union {"run"},
            purpose : {"none", "user", "validation", "example"}, generated : BOOLEAN]
Transactions == [at : Locations, who : Identities \union {NoOne}, user : Users,
                 inserts : BOOLEAN, marks : BOOLEAN, adds : SUBSET Reports]

TypeOK ==
    /\ row \in [Identities -> Users]
    /\ saved \subseteq Reports
    /\ enabled \subseteq STARTER_STRATEGY_KEYS
    /\ holder \in [Identities -> Requests \union {NoOne}]
    /\ txn \in [Requests -> Transactions]

Free(r) == holder[txn[r].who] \in {NoOne, r}
Goto(r, at) == txn' = [txn EXCEPT ![r].at = at]

\* session_scope ends: the locks go with the transaction.
Release(r) == holder' = [i \in Identities |-> IF holder[i] = r THEN NoOne ELSE holder[i]]

\* The user as loaded, and whether there is a decision left to make.
Loaded(r, user, inserts) ==
    txn' = [txn EXCEPT ![r] = [@ EXCEPT !.user = user, !.inserts = inserts,
                                        !.at = IF user.seeded THEN "commit" ELSE "lock"]]

authenticate(r, i) ==
    /\ txn[r] = Unused
    /\ txn' = [txn EXCEPT ![r].at = "lookup", ![r].who = i]
    /\ UNCHANGED <<tables, enabled, holder>>

\* The first SELECT of get_or_create_user, and the one after a lost INSERT.
Lookup(r) ==
    LET found == row[txn[r].who]
    IN  /\ txn[r].at = "lookup"
        /\ IF found = NoRow THEN Goto(r, "insert") ELSE Loaded(r, found, FALSE)
        /\ UNCHANGED <<tables, enabled, holder>>

\* Mutant: no constraint on issuer and subject.
InsertUser_NoConflict(r) ==
    /\ txn[r].at = "insert"
    /\ holder' = [holder EXCEPT ![txn[r].who] = r]
    /\ Loaded(r, [id |-> r, seeded |-> FALSE], TRUE)
    /\ UNCHANGED <<tables, enabled>>

\* INSERT ... ON CONFLICT DO NOTHING waits for a transaction that is inserting
\* the same identity.
InsertUser(r) ==
    /\ txn[r].at = "insert" /\ Free(r)
    /\ \/ /\ row[txn[r].who] = NoRow
          /\ holder' = [holder EXCEPT ![txn[r].who] = r]
          /\ Loaded(r, [id |-> r, seeded |-> FALSE], TRUE)
       \/ /\ row[txn[r].who] # NoRow
          /\ Goto(r, "lookup")
          /\ UNCHANGED holder
    /\ UNCHANGED <<tables, enabled>>

\* Mutant: without populate_existing the user stays as it was loaded.
LockUser_Stale(r) ==
    /\ txn[r].at = "lock" /\ Free(r)
    /\ holder' = [holder EXCEPT ![txn[r].who] = r]
    /\ Goto(r, "decide")
    /\ UNCHANGED <<tables, enabled>>

\* Mutant: the row is read without FOR UPDATE.
LockUser_Unlocked(r) ==
    LET user == IF txn[r].inserts THEN txn[r].user ELSE row[txn[r].who]
    IN  /\ txn[r].at = "lock"
        /\ txn' = [txn EXCEPT ![r].user = user,
                              ![r].at = IF user.seeded THEN "commit" ELSE "decide"]
        /\ UNCHANGED <<tables, enabled, holder>>

\* SELECT ... FOR UPDATE with populate_existing: the row is read again once it
\* is locked.
LockUser(r) ==
    LET user == IF txn[r].inserts THEN txn[r].user ELSE row[txn[r].who]
    IN  /\ txn[r].at = "lock" /\ Free(r)
        /\ holder' = [holder EXCEPT ![txn[r].who] = r]
        /\ txn' = [txn EXCEPT ![r].user = user,
                              ![r].at = IF user.seeded THEN "commit" ELSE "decide"]
        /\ UNCHANGED <<tables, enabled>>

\* An owner with reports keeps them and is marked.
Decide(r) ==
    /\ txn[r].at = "decide"
    /\ txn' = IF OwnerHasVisibleReports(txn[r].user.id)
              THEN [txn EXCEPT ![r].marks = TRUE, ![r].at = "commit"]
              ELSE [txn EXCEPT ![r].at = "portfolio_1"]
    /\ UNCHANGED <<tables, enabled, holder>>

\* A built-in that is not active defers the decision: nothing is written.
GetStrategy(r, key) ==
    /\ txn[r].at = key
    /\ Goto(r, IF key \notin enabled THEN "commit"
               ELSE IF key = "portfolio_1" THEN "portfolio_2" ELSE "add")
    /\ UNCHANGED <<tables, enabled, holder>>

\* The flush of both reports, then the marker.
AddCompletedReports(r) ==
    LET examples == Starters(txn[r].user.id)
    IN  /\ txn[r].at = "add"
        /\ examples \intersect saved = {}
        /\ txn' = [txn EXCEPT ![r].adds = examples, ![r].marks = TRUE, ![r].at = "commit"]
        /\ UNCHANGED <<tables, enabled, holder>>

\* The marker is an UPDATE of the row by its key.
Commit(r) ==
    LET i == txn[r].who
    IN  /\ txn[r].at = "commit"
        /\ row' = IF txn[r].inserts \/ txn[r].marks
                  THEN [row EXCEPT ![i] = [id |-> txn[r].user.id,
                                           seeded |-> txn[r].user.seeded \/ txn[r].marks]]
                  ELSE row
        /\ saved' = saved \union txn[r].adds
        /\ Goto(r, "answered")
        /\ Release(r)
        /\ UNCHANGED enabled

\* A statement or the commit raises, or the request goes away: everything the
\* transaction wrote is gone.  A duplicate primary key is one such error.
Rollback(r) ==
    /\ txn[r].at \in Open
    /\ txn' = [txn EXCEPT ![r].at = "failed"]
    /\ Release(r)
    /\ UNCHANGED <<tables, enabled>>

-------------------------------------------------------------------------------
(* The other writers of the tables.                                         *)

\* A job saves the report of a run this owner submitted.
Save(o) ==
    /\ o \in Ids
    /\ saved' = saved \union {JobReport(o)}
    /\ UNCHANGED <<row, enabled, holder, txn>>

\* The owner deletes a report, or an example.
Remove(s) ==
    /\ s \in saved
    /\ saved' = saved \ {s}
    /\ UNCHANGED <<row, enabled, holder, txn>>

\* An operator seeds, enables or disables a built-in.
Switch(key) ==
    /\ enabled' = (enabled \ {key}) \union ({key} \ enabled)
    /\ UNCHANGED <<tables, holder, txn>>

Statement(r) ==
    \/ Lookup(r) \/ InsertUser(r) \/ LockUser(r) \/ Decide(r)
    \/ \E key \in STARTER_STRATEGY_KEYS : GetStrategy(r, key)
    \/ AddCompletedReports(r) \/ Commit(r)

\* The marker was added to the rows that were there: they have none, and any of
\* the earlier reports.
Init ==
    /\ \E known \in SUBSET Identities :
          row = [i \in Identities |->
                    IF i \in known THEN [id |-> i, seeded |-> FALSE] ELSE NoRow]
    /\ saved \in SUBSET (UNION {Earlier(o) : o \in Ids})
    /\ enabled \in SUBSET STARTER_STRATEGY_KEYS
    /\ holder = [i \in Identities |-> NoOne]
    /\ txn = [r \in Requests |-> Unused]

Next ==
    \/ \E r \in Requests : (\E i \in Identities : authenticate(r, i)) \/ Statement(r) \/ Rollback(r)
    \/ \E o \in Owners : Save(o)
    \/ \E s \in saved : Remove(s)
    \/ \E key \in STARTER_STRATEGY_KEYS : Switch(key)

Spec == Init /\ [][Next]_vars

-------------------------------------------------------------------------------
(* Properties.                                                              *)

Onboarded(o) == \E i \in Identities : row[i].id = o /\ row[i].seeded
StartersSaved(o) == saved \intersect Starters(o)

\* The starter reports of an owner (ensure_starter_reports) arrive all together
\* with the marker, at most once: not again after the owner deleted them, however
\* the first requests race, and no request marks the row it inserts without them.
StarterReportsComeOnce ==
    [][\A o \in Owners :
         LET new == StartersSaved(o)' \ StartersSaved(o)
         IN  /\ Onboarded(o) => Onboarded(o)' /\ new = {}
             /\ new # {} => new = Starters(o) /\ Onboarded(o)'
             /\ o \notin Ids /\ Onboarded(o)' => new = Starters(o)]_vars

\* The row lock keeps the flush of add_completed_reports from racing another: no
\* request inserts an id that is stored, or that another one has written.
FlushNeverCollides ==
    \A r \in Requests : txn[r].at = "add" =>
       LET examples == Starters(txn[r].user.id)
       IN  /\ examples \intersect saved = {}
           /\ \A q \in Requests : txn[q].at = "commit" => examples \intersect txn[q].adds = {}

\* get_or_create_user maps an identity to one id: every request that was answered
\* names the row that is stored, and no report belongs to an id that is not.
OneOwnerPerIdentity ==
    /\ \A r \in Requests : txn[r].at = "answered" => txn[r].user.id = row[txn[r].who].id
    /\ \A s \in saved : s.owner \in Ids

\* The history and the example list are disjoint, the onboarding check finds a
\* report exactly when one of the lists would show one, and the detail of a report
\* calls it an example exactly when the example list has it.
ListsAgree ==
    \A o \in Ids :
       LET history == ListReports(o, FALSE)
           examples == ListReports(o, TRUE)
       IN  /\ history \intersect examples = {}
           /\ OwnerHasVisibleReports(o) <=> history \union examples # {}
           /\ \A s \in saved : s.owner = o =>
                 (ToDetail(s).purpose = "example" <=> s \in examples)
=============================================================================
