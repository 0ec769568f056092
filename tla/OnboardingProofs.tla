--------------------------- MODULE OnboardingProofs ---------------------------
(***************************************************************************)
(* Proofs about Onboarding, for any identities and any number of requests. *)
(*                                                                         *)
(* The marker of a user and the absence of its examples are read by one    *)
(* transaction and written by the same one; the argument is that the lock  *)
(* of the row makes what a transaction loaded still true when it commits.  *)
(***************************************************************************)
EXTENDS Onboarding, TLAPS

-------------------------------------------------------------------------------
(* The inductive invariant.                                                 *)

Deciding == {"decide", "portfolio_1", "portfolio_2", "add"}
WithUser == Deciding \union {"lock", "commit"}

\* The transaction has read the row under its lock, or has inserted it.
Locked(r) ==
    \/ txn[r].at \in Deciding
    \/ txn[r].at = "commit" /\ txn[r].marks
    \/ txn[r].at \in {"lock", "commit"} /\ txn[r].inserts

\* A request holds its row's lock while it decides, and what it knows of the row
\* is true: all of it under the lock, the id and a set marker without.
KnowsRow(r) ==
    LET t == txn[r]
    IN  /\ t.at # "unused" => t.who \in Identities
        /\ Locked(r) => holder[t.who] = r
        /\ t.at \in WithUser /\ t.inserts =>
              row[t.who] = NoRow /\ t.user = [id |-> r, seeded |-> FALSE]
        /\ t.at \in WithUser /\ ~t.inserts =>
              t.user.id # NoOne /\ row[t.who].id = t.user.id
        /\ t.at \in Deciding \/ (t.at = "commit" /\ t.marks) =>
              ~t.user.seeded /\ ~row[t.who].seeded
        /\ t.at = "commit" /\ t.user.seeded => ~t.inserts
        /\ t.at = "answered" => t.user.id # NoOne /\ row[t.who].id = t.user.id

\* What a transaction has written so far: nothing, the marker, or the marker and
\* both examples; a request that inserts its row finds no reports of it.
Writes(r) ==
    LET t == txn[r]
    IN  /\ t.at \in {"unused", "lookup", "insert", "lock"} \union Deciding =>
              t.adds = {} /\ ~t.marks
        /\ t.at = "commit" => \/ t.adds = {} /\ (t.marks => ~t.inserts)
                              \/ t.adds = Starters(t.user.id) /\ t.marks

\* An id belongs to the identity it was found at, or to that of the request that
\* inserted it.
RowsHaveIds ==
    \A i \in Identities :
       /\ row[i].id = NoOne => row[i] = NoRow
       /\ row[i].id # NoOne =>
             \/ row[i].id = i
             \/ /\ row[i].id \in Requests
                /\ txn[row[i].id].who = i /\ txn[row[i].id].at = "answered"

\* No report without an owner, no example without the marker.
ReportsHaveOwners == \A s \in saved : s.owner \in Ids
ExamplesAreMarked == \A o \in Owners : ~Onboarded(o) => StartersSaved(o) = {}

OnboardingInvariant ==
    /\ TypeOK
    /\ \A r \in Requests : KnowsRow(r) /\ Writes(r)
    /\ RowsHaveIds
    /\ ReportsHaveOwners
    /\ ExamplesAreMarked

-------------------------------------------------------------------------------
(* Lemmas.                                                                  *)

\* The unique constraint of app.users seen from the ids: an id is in one row.
LEMMA IdsAreUnique ==
  ASSUME TypeOK, RowsHaveIds, NEW i \in Identities, NEW j \in Identities,
         row[i].id = row[j].id, row[i].id # NoOne
  PROVE  i = j
  BY OnboardingAssumption DEF TypeOK, RowsHaveIds

\* The id a request inserts is in no row until it is answered.
LEMMA InsertedIdIsNew ==
  ASSUME TypeOK, RowsHaveIds, NEW r \in Requests, txn[r].at # "answered"
  PROVE  r \notin Ids
  BY OnboardingAssumption DEF TypeOK, RowsHaveIds, Ids

\* While a request decides, its owner is not marked: neither in the row it holds
\* nor, since ids are unique, in another one.
LEMMA DecidingOwnerIsUnmarked ==
  ASSUME OnboardingInvariant, NEW r \in Requests,
         txn[r].at \in Deciding \/ (txn[r].at = "commit" /\ txn[r].marks)
  PROVE  ~Onboarded(txn[r].user.id)
<1> DEFINE t == txn[r]
<1>1. t.who \in Identities /\ ~row[t.who].seeded
  BY DEF OnboardingInvariant, KnowsRow, Deciding
<1>2. CASE t.inserts
  <2>1. t.user = [id |-> r, seeded |-> FALSE]
    <3>1. t.at \in WithUser /\ KnowsRow(r)
      BY DEF OnboardingInvariant, WithUser, Deciding
    <3> QED
      BY <1>2, <3>1 DEF KnowsRow
  <2>2. r \notin Ids /\ r # NoOne
    BY InsertedIdIsNew, OnboardingAssumption DEF OnboardingInvariant, Deciding
  <2> QED
    BY <2>1, <2>2 DEF Ids, Onboarded
<1>3. CASE ~t.inserts
  <2>1. t.user.id # NoOne /\ row[t.who].id = t.user.id
    BY <1>3 DEF OnboardingInvariant, KnowsRow, WithUser, Deciding
  <2> QED
    BY <1>1, <2>1, IdsAreUnique DEF OnboardingInvariant, Onboarded
<1> QED
  BY <1>2, <1>3

\* A statement of one request that leaves the tables and the other requests'
\* locks alone has only its own request to answer for.
LEMMA OneRequestMoves ==
  ASSUME OnboardingInvariant, TypeOK', NEW r \in Requests,
         UNCHANGED tables, txn[r].at # "answered",
         \A q \in Requests \ {r} : /\ txn'[q] = txn[q]
                                   /\ Locked(q) => holder'[txn[q].who] = q,
         KnowsRow(r)', Writes(r)'
  PROVE  OnboardingInvariant'
<1>1. ASSUME NEW q \in Requests PROVE KnowsRow(q)' /\ Writes(q)'
  <2>1. CASE q # r
    <3>1. txn'[q] = txn[q] /\ KnowsRow(q) /\ Writes(q) /\ row' = row
      BY <2>1, <1>1 DEF OnboardingInvariant, tables
    <3>2. Locked(q)' => Locked(q) /\ holder'[txn[q].who] = q
      BY <3>1, <2>1, <1>1 DEF Locked
    <3>3. KnowsRow(q)'
      BY <3>1, <3>2 DEF KnowsRow
    <3>4. Writes(q)'
      BY <3>1 DEF Writes, Starters, BuildReport, Report
    <3> QED
      BY <3>3, <3>4
  <2> QED
    BY <2>1
<1>2. RowsHaveIds'
  BY OnboardingAssumption DEF OnboardingInvariant, RowsHaveIds, TypeOK, tables
<1>3. ReportsHaveOwners' /\ ExamplesAreMarked'
  BY DEF OnboardingInvariant, ReportsHaveOwners, ExamplesAreMarked, Ids, Onboarded,
         StartersSaved, tables, Starters, BuildReport, Report
<1> QED
  BY <1>1, <1>2, <1>3 DEF OnboardingInvariant

-------------------------------------------------------------------------------
(* Types.                                                                   *)

LEMMA StartersType ==
  ASSUME NEW o \in Owners \union {NoOne} PROVE Starters(o) \subseteq Reports
<1> SUFFICES ASSUME NEW key \in STARTER_STRATEGY_KEYS PROVE BuildReport(o, key) \in Reports
  BY DEF Starters
<1> QED
  BY DEF BuildReport, Report, Reports

LEMMA InitTypes == Init => TypeOK
<1> SUFFICES ASSUME Init PROVE TypeOK
  OBVIOUS
<1>1. row \in [Identities -> Users]
  BY DEF Init, Users, NoRow, Owners
<1>2. saved \subseteq Reports
  <2>1. Ids \subseteq Owners
    BY <1>1 DEF Ids, Users
  <2>2. \A o \in Ids : Earlier(o) \subseteq Reports
    BY <2>1 DEF Earlier, Report, Reports, STARTER_STRATEGY_KEYS
  <2> QED
    BY <2>2 DEF Init
<1>3. txn \in [Requests -> Transactions]
  BY DEF Init, Unused, Users, NoRow, Locations, Transactions
<1> QED
  BY <1>1, <1>2, <1>3 DEF Init, TypeOK

\* What the type invariant says of one request.
LEMMA RequestTypes ==
  ASSUME OnboardingInvariant, NEW r \in Requests, txn[r].at # "unused"
  PROVE  /\ txn[r] \in Transactions
         /\ txn[r].who \in Identities
         /\ row[txn[r].who] \in Users /\ row[txn[r].who].seeded \in BOOLEAN
         /\ KnowsRow(r) /\ Writes(r)
  BY DEF OnboardingInvariant, TypeOK, KnowsRow, Users

\* A statement replaces the record of its request.
LEMMA RecordReplaced ==
  ASSUME TypeOK, NEW r \in Requests, NEW t \in Transactions, txn' = [txn EXCEPT ![r] = t]
  PROVE  /\ txn' \in [Requests -> Transactions]
         /\ txn'[r] = t
         /\ \A q \in Requests \ {r} : txn'[q] = txn[q]
  BY DEF TypeOK

-------------------------------------------------------------------------------
(* The invariant holds initially and is preserved by every action.          *)

LEMMA InitInvariant == Init => OnboardingInvariant
<1> SUFFICES ASSUME Init PROVE OnboardingInvariant
  OBVIOUS
<1>1. TypeOK
  BY InitTypes
<1>2. ASSUME NEW r \in Requests PROVE KnowsRow(r) /\ Writes(r)
  BY <1>2 DEF Init, Unused, KnowsRow, Writes, Locked, WithUser, Deciding
<1>3. RowsHaveIds
  <2>1. PICK known \in SUBSET Identities :
          row = [i \in Identities |-> IF i \in known THEN [id |-> i, seeded |-> FALSE] ELSE NoRow]
    BY DEF Init
  <2>2. ASSUME NEW i \in Identities PROVE row[i] = NoRow \/ (row[i].id = i /\ i # NoOne)
    BY <2>1, OnboardingAssumption
  <2>3. NoRow.id = NoOne
    BY DEF NoRow
  <2> QED
    BY <2>2, <2>3 DEF RowsHaveIds
<1>4. ReportsHaveOwners
  BY DEF Init, ReportsHaveOwners, Earlier, Report
<1>5. ExamplesAreMarked
  BY DEF Init, ExamplesAreMarked, StartersSaved, Starters, BuildReport, Earlier, Report
<1> QED
  BY <1>1, <1>2, <1>3, <1>4, <1>5 DEF OnboardingInvariant

LEMMA authenticateInvariant ==
  ASSUME OnboardingInvariant, NEW r \in Requests, NEW i \in Identities, authenticate(r, i)
  PROVE  OnboardingInvariant'
<1> DEFINE t == [Unused EXCEPT !.at = "lookup", !.who = i]
<1>1. t \in Transactions /\ txn' = [txn EXCEPT ![r] = t]
  BY DEF authenticate, Unused, Transactions, Locations, Open, Users, NoRow, OnboardingInvariant, TypeOK
<1>2. TypeOK
  BY DEF OnboardingInvariant
<1>3. txn' \in [Requests -> Transactions] /\ txn'[r] = t
      /\ \A q \in Requests \ {r} : txn'[q] = txn[q]
  BY <1>1, <1>2, RecordReplaced
<1>4. TypeOK'
  BY <1>2, <1>3 DEF TypeOK, authenticate, tables
<1>5. KnowsRow(r)' /\ Writes(r)'
  BY <1>3 DEF KnowsRow, Writes, Locked, WithUser, Deciding, Unused
<1>6. UNCHANGED <<tables, holder>> /\ txn[r].at # "answered"
  BY DEF authenticate, Unused
<1> QED
  BY <1>3, <1>4, <1>5, <1>6, OneRequestMoves DEF OnboardingInvariant, KnowsRow

LEMMA LookupInvariant ==
  ASSUME OnboardingInvariant, NEW r \in Requests, Lookup(r)
  PROVE  OnboardingInvariant'
<1> DEFINE found == row[txn[r].who]
           t == IF found = NoRow THEN [txn[r] EXCEPT !.at = "insert"]
                ELSE [txn[r] EXCEPT !.user = found, !.inserts = FALSE,
                                    !.at = IF found.seeded THEN "commit" ELSE "lock"]
<1>1. txn[r].at = "lookup"
  BY DEF Lookup
<1>2. t \in Transactions /\ txn' = [txn EXCEPT ![r] = t]
  BY <1>1, RequestTypes DEF Lookup, Goto, Loaded, Transactions, Locations, Open
<1>3. TypeOK
  BY DEF OnboardingInvariant
<1>4. txn' \in [Requests -> Transactions] /\ txn'[r] = t
      /\ \A q \in Requests \ {r} : txn'[q] = txn[q]
  BY <1>2, <1>3, RecordReplaced
<1>5. UNCHANGED <<row, saved, enabled, holder>>
  BY DEF Lookup, tables
<1>6. TypeOK'
  BY <1>3, <1>4, <1>5 DEF TypeOK
<1>7. txn[r] \in Transactions /\ found \in Users /\ txn[r].who \in Identities
      /\ txn[r].adds = {} /\ ~txn[r].marks
  BY <1>1, RequestTypes DEF Writes
<1>8. KnowsRow(r)' /\ Writes(r)'
  <2>1. CASE found = NoRow
    BY <1>4, <1>5, <1>7, <2>1 DEF KnowsRow, Writes, Locked, WithUser, Deciding, Transactions
  <2>2. CASE found # NoRow
    <3>1. found.id # NoOne
      BY <1>7, <2>2 DEF OnboardingInvariant, RowsHaveIds
    <3> QED
      BY <1>4, <1>5, <1>7, <2>2, <3>1
      DEF KnowsRow, Writes, Locked, WithUser, Deciding, Transactions, Users
  <2> QED
    BY <2>1, <2>2
<1> QED
  BY <1>1, <1>4, <1>5, <1>6, <1>8, OneRequestMoves DEF OnboardingInvariant, KnowsRow, tables

LEMMA LockUserInvariant ==
  ASSUME OnboardingInvariant, NEW r \in Requests, LockUser(r)
  PROVE  OnboardingInvariant'
<1> DEFINE t == [txn[r] EXCEPT !.user = IF txn[r].inserts THEN txn[r].user ELSE row[txn[r].who],
                             !.at = IF (IF txn[r].inserts THEN txn[r].user
                                        ELSE row[txn[r].who]).seeded THEN "commit" ELSE "decide"]
<1>1. txn[r].at = "lock" /\ txn[r].at \notin {"unused", "answered"}
  BY DEF LockUser
<1>2. txn[r] \in Transactions /\ txn[r].who \in Identities /\ row[txn[r].who] \in Users
      /\ KnowsRow(r) /\ Writes(r) /\ TypeOK
  BY <1>1, RequestTypes DEF OnboardingInvariant
<1>3. t \in Transactions /\ txn' = [txn EXCEPT ![r] = t]
  BY <1>1, <1>2 DEF LockUser, Transactions, Locations, Open
<1>4. txn' \in [Requests -> Transactions] /\ txn'[r] = t
      /\ \A q \in Requests \ {r} : txn'[q] = txn[q]
  BY <1>2, <1>3, RecordReplaced
<1>5. UNCHANGED <<row, saved, enabled>> /\ holder' \in [Identities -> Requests \union {NoOne}]
      /\ \A q \in Requests \ {r} : Locked(q) => holder'[txn[q].who] = q
  <2>1. holder[txn[r].who] \in {NoOne, r} /\ holder' = [holder EXCEPT ![txn[r].who] = r]
    BY DEF LockUser, Free
  <2>2. ASSUME NEW q \in Requests \ {r}, Locked(q) PROVE holder'[txn[q].who] = q
    <3>1. holder[txn[q].who] = q /\ q # NoOne
      BY <2>2, OnboardingAssumption DEF OnboardingInvariant, KnowsRow
    <3>2. txn[q].who \in Identities
      BY <2>2 DEF OnboardingInvariant, KnowsRow, Locked, Deciding
    <3> QED
      BY <1>2, <2>1, <3>1, <3>2 DEF TypeOK
  <2> QED
    BY <1>2, <2>1, <2>2 DEF LockUser, tables, TypeOK
<1>6. TypeOK'
  BY <1>2, <1>4, <1>5 DEF TypeOK
<1>7. KnowsRow(r)' /\ Writes(r)'
  <2>1. txn[r].adds = {} /\ ~txn[r].marks
    BY <1>1, <1>2 DEF Writes
  <2>2. holder'[txn[r].who] = r
    BY <1>2 DEF LockUser, TypeOK
  <2>3. CASE txn[r].inserts
    <3>1. txn[r].user = [id |-> r, seeded |-> FALSE] /\ row[txn[r].who] = NoRow
      BY <1>1, <1>2, <2>3 DEF KnowsRow, WithUser
    <3> QED
      BY <1>2, <1>4, <1>5, <2>1, <2>2, <2>3, <3>1
      DEF KnowsRow, Writes, Locked, WithUser, Deciding, Transactions, NoRow
  <2>4. CASE ~txn[r].inserts
    <3>1. row[txn[r].who].id # NoOne
      BY <1>1, <1>2, <2>4 DEF KnowsRow, WithUser
    <3> QED
      BY <1>2, <1>4, <1>5, <2>1, <2>2, <2>4, <3>1
      DEF KnowsRow, Writes, Locked, WithUser, Deciding, Transactions, Users
  <2> QED
    BY <2>3, <2>4
<1> QED
  BY <1>1, <1>4, <1>5, <1>6, <1>7, OneRequestMoves DEF tables

LEMMA GetStrategyInvariant ==
  ASSUME OnboardingInvariant, NEW r \in Requests, NEW key \in STARTER_STRATEGY_KEYS, GetStrategy(r, key)
  PROVE  OnboardingInvariant'
<1> DEFINE t == [txn[r] EXCEPT !.at = IF key \notin enabled THEN "commit"
                                  ELSE IF key = "portfolio_1" THEN "portfolio_2" ELSE "add"]
<1>1. txn[r].at \in Deciding /\ txn[r].at \notin {"unused", "answered"}
  BY DEF GetStrategy, STARTER_STRATEGY_KEYS, Deciding
<1>2. txn[r] \in Transactions /\ txn[r].who \in Identities /\ row[txn[r].who] \in Users
      /\ KnowsRow(r) /\ Writes(r) /\ TypeOK
  BY <1>1, RequestTypes DEF OnboardingInvariant
<1>3. t \in Transactions /\ txn' = [txn EXCEPT ![r] = t]
  BY <1>1, <1>2 DEF GetStrategy, Goto, Transactions, Locations, Open
<1>4. txn' \in [Requests -> Transactions] /\ txn'[r] = t
      /\ \A q \in Requests \ {r} : txn'[q] = txn[q]
  BY <1>2, <1>3, RecordReplaced
<1>5. UNCHANGED <<row, saved, enabled>> /\ holder' \in [Identities -> Requests \union {NoOne}]
      /\ \A q \in Requests \ {r} : Locked(q) => holder'[txn[q].who] = q
  BY <1>2 DEF GetStrategy, tables, TypeOK, OnboardingInvariant, KnowsRow
<1>6. TypeOK'
  BY <1>2, <1>4, <1>5 DEF TypeOK
<1>7. KnowsRow(r)' /\ Writes(r)'
  <2>1. txn[r].adds = {} /\ ~txn[r].marks
    BY <1>1, <1>2 DEF Writes
  <2>2. holder' = holder
    BY DEF GetStrategy
  <2> QED
    BY <1>1, <1>2, <1>4, <1>5, <2>1, <2>2
    DEF KnowsRow, Writes, Locked, WithUser, Deciding, Transactions
<1> QED
  BY <1>1, <1>4, <1>5, <1>6, <1>7, OneRequestMoves DEF tables

LEMMA AddCompletedReportsInvariant ==
  ASSUME OnboardingInvariant, NEW r \in Requests, AddCompletedReports(r)
  PROVE  OnboardingInvariant'
<1> DEFINE t == [txn[r] EXCEPT !.adds = Starters(txn[r].user.id), !.marks = TRUE, !.at = "commit"]
<1>1. txn[r].at = "add" /\ txn[r].at \notin {"unused", "answered"}
  BY DEF AddCompletedReports
<1>2. txn[r] \in Transactions /\ txn[r].who \in Identities /\ row[txn[r].who] \in Users
      /\ KnowsRow(r) /\ Writes(r) /\ TypeOK
  BY <1>1, RequestTypes DEF OnboardingInvariant
<1>3. t \in Transactions /\ txn' = [txn EXCEPT ![r] = t]
  BY <1>1, <1>2, StartersType DEF AddCompletedReports, Users, Transactions, Locations, Open
<1>4. txn' \in [Requests -> Transactions] /\ txn'[r] = t
      /\ \A q \in Requests \ {r} : txn'[q] = txn[q]
  BY <1>2, <1>3, RecordReplaced
<1>5. UNCHANGED <<row, saved, enabled>> /\ holder' \in [Identities -> Requests \union {NoOne}]
      /\ \A q \in Requests \ {r} : Locked(q) => holder'[txn[q].who] = q
  BY <1>2 DEF AddCompletedReports, tables, TypeOK, OnboardingInvariant, KnowsRow
<1>6. TypeOK'
  BY <1>2, <1>4, <1>5 DEF TypeOK
<1>7. KnowsRow(r)' /\ Writes(r)'
  <2>1. holder' = holder
    BY DEF AddCompletedReports
  <2>2. KnowsRow(r)'
    BY <1>1, <1>2, <1>4, <1>5, <2>1 DEF KnowsRow, Locked, WithUser, Deciding, Transactions
  <2>3. Writes(r)'
    BY <1>2, <1>4 DEF Writes, Deciding, Transactions, Starters, BuildReport, Report
  <2> QED
    BY <2>2, <2>3
<1> QED
  BY <1>1, <1>4, <1>5, <1>6, <1>7, OneRequestMoves DEF tables

LEMMA InsertUserInvariant ==
  ASSUME OnboardingInvariant, NEW r \in Requests, InsertUser(r)
  PROVE  OnboardingInvariant'
<1>1. txn[r].at = "insert"
  BY DEF InsertUser
<1>2. txn[r] \in Transactions /\ txn[r].who \in Identities /\ row[txn[r].who] \in Users
      /\ KnowsRow(r) /\ Writes(r) /\ TypeOK
  BY <1>1, RequestTypes DEF OnboardingInvariant
<1>3. txn[r].adds = {} /\ ~txn[r].marks
  BY <1>1, <1>2 DEF Writes
<1>4. CASE row[txn[r].who] = NoRow
  <2> DEFINE t == [txn[r] EXCEPT !.user = [id |-> r, seeded |-> FALSE], !.inserts = TRUE,
                                 !.at = "lock"]
  <2>1. /\ holder[txn[r].who] \in {NoOne, r} /\ holder' = [holder EXCEPT ![txn[r].who] = r]
        /\ UNCHANGED <<row, saved, enabled>>
    BY <1>4 DEF InsertUser, Free, tables
  <2>2. t \in Transactions /\ txn' = [txn EXCEPT ![r] = t]
    BY <1>2, <1>4 DEF InsertUser, Loaded, Transactions, Users, Owners, Locations, Open
  <2>3. txn' \in [Requests -> Transactions] /\ txn'[r] = t
        /\ \A q \in Requests \ {r} : txn'[q] = txn[q]
    BY <1>2, <2>2, RecordReplaced
  <2>4. ASSUME NEW q \in Requests \ {r}, Locked(q) PROVE holder'[txn[q].who] = q
    <3>1. holder[txn[q].who] = q /\ q # NoOne
      BY <2>4, OnboardingAssumption DEF OnboardingInvariant, KnowsRow
    <3>2. txn[q].who \in Identities
      BY <2>4 DEF OnboardingInvariant, KnowsRow, Locked, Deciding
    <3> QED
      BY <1>2, <2>1, <3>1, <3>2 DEF TypeOK
  <2>5. TypeOK'
    BY <1>2, <2>1, <2>3 DEF TypeOK
  <2>6. KnowsRow(r)' /\ Writes(r)'
    <3>1. holder'[txn[r].who] = r
      BY <1>2, <2>1 DEF TypeOK
    <3> QED
      BY <1>2, <1>3, <1>4, <2>1, <2>3, <3>1
      DEF KnowsRow, Writes, Locked, WithUser, Deciding, Transactions
  <2> QED
    BY <1>1, <2>1, <2>3, <2>4, <2>5, <2>6, OneRequestMoves DEF tables
<1>5. CASE row[txn[r].who] # NoRow
  <2> DEFINE t == [txn[r] EXCEPT !.at = "lookup"]
  <2>1. UNCHANGED <<row, saved, enabled, holder>>
    BY <1>5 DEF InsertUser, tables
  <2>2. t \in Transactions /\ txn' = [txn EXCEPT ![r] = t]
    BY <1>2, <1>5 DEF InsertUser, Goto, Transactions, Locations, Open
  <2>3. txn' \in [Requests -> Transactions] /\ txn'[r] = t
        /\ \A q \in Requests \ {r} : txn'[q] = txn[q]
    BY <1>2, <2>2, RecordReplaced
  <2>4. TypeOK'
    BY <1>2, <2>1, <2>3 DEF TypeOK
  <2>5. KnowsRow(r)' /\ Writes(r)'
    BY <1>2, <1>3, <2>1, <2>3
    DEF KnowsRow, Writes, Locked, WithUser, Deciding, Transactions
  <2> QED
    BY <1>1, <2>1, <2>3, <2>4, <2>5, OneRequestMoves DEF OnboardingInvariant, KnowsRow, tables
<1> QED
  BY <1>4, <1>5

LEMMA DecideInvariant ==
  ASSUME OnboardingInvariant, NEW r \in Requests, Decide(r)
  PROVE  OnboardingInvariant'
<1> DEFINE t == IF OwnerHasVisibleReports(txn[r].user.id)
                THEN [txn[r] EXCEPT !.marks = TRUE, !.at = "commit"]
                ELSE [txn[r] EXCEPT !.at = "portfolio_1"]
<1>1. txn[r].at = "decide" /\ UNCHANGED <<row, saved, enabled, holder>>
  BY DEF Decide, tables
<1>2. txn[r] \in Transactions /\ txn[r].who \in Identities /\ row[txn[r].who] \in Users
      /\ KnowsRow(r) /\ Writes(r) /\ TypeOK
  BY <1>1, RequestTypes DEF OnboardingInvariant
<1>3. t \in Transactions /\ txn' = [txn EXCEPT ![r] = t]
  BY <1>1, <1>2 DEF Decide, Transactions, Locations, Open
<1>4. txn' \in [Requests -> Transactions] /\ txn'[r] = t
      /\ \A q \in Requests \ {r} : txn'[q] = txn[q]
  BY <1>2, <1>3, RecordReplaced
<1>5. TypeOK'
  BY <1>1, <1>2, <1>4 DEF TypeOK
<1>6. txn[r].inserts => ~OwnerHasVisibleReports(txn[r].user.id)
  <2>1. r \notin Ids
    BY <1>1, <1>2, InsertedIdIsNew DEF OnboardingInvariant
  <2>2. txn[r].inserts => txn[r].user.id = r
    BY <1>1, <1>2 DEF KnowsRow, WithUser, Deciding
  <2> QED
    BY <2>1, <2>2 DEF OnboardingInvariant, ReportsHaveOwners, OwnerHasVisibleReports
<1>7. KnowsRow(r)' /\ Writes(r)'
  <2>1. txn[r].adds = {} /\ ~txn[r].marks
    BY <1>1, <1>2 DEF Writes, Deciding
  <2>2. CASE OwnerHasVisibleReports(txn[r].user.id)
    BY <1>1, <1>2, <1>4, <1>6, <2>1, <2>2
    DEF KnowsRow, Writes, Locked, WithUser, Deciding, Transactions
  <2>3. CASE ~OwnerHasVisibleReports(txn[r].user.id)
    BY <1>1, <1>2, <1>4, <2>1, <2>3
    DEF KnowsRow, Writes, Locked, WithUser, Deciding, Transactions
  <2> QED
    BY <2>2, <2>3
<1> QED
  BY <1>1, <1>4, <1>5, <1>7, OneRequestMoves DEF OnboardingInvariant, KnowsRow, tables

LEMMA RollbackInvariant ==
  ASSUME OnboardingInvariant, NEW r \in Requests, Rollback(r)
  PROVE  OnboardingInvariant'
<1> DEFINE t == [txn[r] EXCEPT !.at = "failed"]
<1>1. txn[r].at \in Open /\ UNCHANGED <<row, saved, enabled>>
  BY DEF Rollback, tables
<1>2. txn[r] \in Transactions /\ txn[r].who \in Identities /\ KnowsRow(r) /\ TypeOK
  BY <1>1, RequestTypes DEF OnboardingInvariant, Open
<1>3. t \in Transactions /\ txn' = [txn EXCEPT ![r] = t]
  BY <1>2 DEF Rollback, Transactions, Locations
<1>4. txn' \in [Requests -> Transactions] /\ txn'[r] = t
      /\ \A q \in Requests \ {r} : txn'[q] = txn[q]
  BY <1>2, <1>3, RecordReplaced
<1>5. holder' \in [Identities -> Requests \union {NoOne}]
      /\ \A i \in Identities : holder[i] # r => holder'[i] = holder[i]
  BY <1>2 DEF Rollback, Release, TypeOK
<1>6. ASSUME NEW q \in Requests \ {r}, Locked(q) PROVE holder'[txn[q].who] = q
  <2>1. holder[txn[q].who] = q /\ txn[q].who \in Identities
    BY <1>6 DEF OnboardingInvariant, KnowsRow, Locked, Deciding
  <2> QED
    BY <1>5, <2>1
<1>7. TypeOK'
  BY <1>1, <1>2, <1>4, <1>5 DEF TypeOK
<1>8. KnowsRow(r)' /\ Writes(r)'
  BY <1>2, <1>4 DEF KnowsRow, Writes, Locked, WithUser, Deciding, Transactions
<1> QED
  BY <1>1, <1>4, <1>6, <1>7, <1>8, OneRequestMoves DEF Open, tables

LEMMA StartersBelongToOwner ==
  ASSUME NEW o, NEW s \in Starters(o) PROVE s.owner = o
  BY DEF Starters, BuildReport, Report

\* What a commit makes of the row: it has the id the request answers with, it keeps
\* an id and a marker it had, and it is only written by the holder of its lock.
LEMMA CommittedRow ==
  ASSUME OnboardingInvariant, NEW r \in Requests, Commit(r)
  PROVE  LET i == txn[r].who
         IN  /\ i \in Identities /\ txn[r].user.id \in Owners /\ txn[r].user.id # NoOne
             /\ row' \in [Identities -> Users]
             /\ \A j \in Identities \ {i} : row'[j] = row[j]
             /\ row'[i].id = txn[r].user.id
             /\ row[i].id \in {NoOne, txn[r].user.id}
             /\ row[i].seeded \/ txn[r].marks => row'[i].seeded
             /\ row'[i] # row[i] => holder[i] = r
<1> DEFINE t == txn[r]
           i == t.who
           new == [id |-> t.user.id, seeded |-> t.user.seeded \/ t.marks]
<1>1. t.at = "commit"
  BY DEF Commit
<1>2. t \in Transactions /\ i \in Identities /\ row[i] \in Users /\ KnowsRow(r) /\ TypeOK
  BY <1>1, RequestTypes DEF OnboardingInvariant
<1>3. t.user \in Users /\ t.inserts \in BOOLEAN /\ t.marks \in BOOLEAN
  BY <1>2 DEF Transactions
<1>4. t.user.id \in Owners /\ t.user.id # NoOne /\ row[i].id \in {NoOne, t.user.id}
  <2>1. CASE t.inserts
    BY <1>1, <1>2, <2>1, OnboardingAssumption DEF KnowsRow, WithUser, NoRow, Owners
  <2>2. CASE ~t.inserts
    BY <1>1, <1>2, <1>3, <2>2 DEF KnowsRow, WithUser, Users
  <2> QED
    BY <2>1, <2>2
<1>5. CASE t.inserts \/ t.marks
  <2>1. row' = [row EXCEPT ![i] = new]
    BY <1>5 DEF Commit
  <2>2. new \in Users
    BY <1>3 DEF Users
  <2>3. row' \in [Identities -> Users] /\ row'[i] = new
        /\ \A j \in Identities \ {i} : row'[j] = row[j]
    BY <1>2, <2>1, <2>2 DEF TypeOK
  <2>4. holder[i] = r
    BY <1>1, <1>2, <1>5 DEF KnowsRow, Locked
  <2>5. row[i].seeded \/ t.marks => new.seeded
    <3>1. CASE t.marks
      BY <3>1
    <3>2. CASE t.inserts
      <4>1. row[i] = NoRow
        BY <1>1, <1>2, <3>2 DEF KnowsRow, WithUser
      <4> QED
        BY <1>3, <4>1 DEF NoRow, Users
    <3> QED
      BY <1>5, <3>1, <3>2
  <2> QED
    BY <1>2, <1>4, <2>3, <2>4, <2>5
<1>6. CASE ~(t.inserts \/ t.marks)
  <2>1. row' = row
    BY <1>6 DEF Commit
  <2>2. row[i].id = t.user.id
    BY <1>1, <1>2, <1>6 DEF KnowsRow, WithUser
  <2> QED
    BY <1>2, <1>4, <1>6, <2>1, <2>2 DEF TypeOK
<1> QED
  BY <1>5, <1>6

LEMMA CommitInvariant ==
  ASSUME OnboardingInvariant, NEW r \in Requests, Commit(r)
  PROVE  OnboardingInvariant'
<1> DEFINE i == txn[r].who
           u == txn[r].user.id
           t == [txn[r] EXCEPT !.at = "answered"]
<1>1. txn[r].at = "commit" /\ enabled' = enabled
  BY DEF Commit
<1>2. txn[r] \in Transactions /\ KnowsRow(r) /\ Writes(r) /\ TypeOK
  BY <1>1, RequestTypes DEF OnboardingInvariant
<1>3. /\ i \in Identities /\ u \in Owners /\ u # NoOne
      /\ row' \in [Identities -> Users]
      /\ \A j \in Identities \ {i} : row'[j] = row[j]
      /\ row'[i].id = u
      /\ row[i].id \in {NoOne, u}
      /\ row[i].seeded \/ txn[r].marks => row'[i].seeded
      /\ row'[i] # row[i] => holder[i] = r
  BY CommittedRow
<1>4. t \in Transactions /\ txn' = [txn EXCEPT ![r] = t]
  BY <1>2 DEF Commit, Goto, Transactions, Locations
<1>5. txn' \in [Requests -> Transactions] /\ txn'[r] = t
      /\ \A q \in Requests \ {r} : txn'[q] = txn[q]
  BY <1>2, <1>4, RecordReplaced
<1>6. holder' \in [Identities -> Requests \union {NoOne}]
      /\ \A j \in Identities : holder[j] # r => holder'[j] = holder[j]
  BY <1>2 DEF Commit, Release, TypeOK
<1>7. saved' = saved \union txn[r].adds
      /\ (txn[r].adds = {} \/ (txn[r].adds = Starters(u) /\ txn[r].marks))
  BY <1>1, <1>2 DEF Commit, Writes
<1>8. TypeOK'
  BY <1>1, <1>2, <1>3, <1>5, <1>6, <1>7, StartersType DEF TypeOK
<1>9. \A j \in Identities : row[j].id # NoOne => row'[j].id = row[j].id
  BY <1>3
<1>10. \A j \in Identities : row[j].seeded => row'[j].seeded
  BY <1>3
<1>11. ASSUME NEW q \in Requests PROVE KnowsRow(q)' /\ Writes(q)'
  <2>1. CASE q = r
    BY <1>2, <1>3, <1>5, <2>1 DEF KnowsRow, Writes, Locked, WithUser, Deciding, Transactions
  <2>2. CASE q # r
    <3>1. txn'[q] = txn[q] /\ KnowsRow(q) /\ Writes(q)
      BY <1>5, <1>11, <2>2 DEF OnboardingInvariant
    <3>2. Locked(q) => holder[txn[q].who] = q /\ txn[q].who \in Identities
      BY <3>1 DEF KnowsRow, Locked, Deciding
    <3>3. Locked(q) => holder'[txn[q].who] = q /\ row'[txn[q].who] = row[txn[q].who]
      BY <1>3, <1>6, <2>2, <3>2
    <3>4. Locked(q)' => Locked(q)
      BY <3>1 DEF Locked
    <3>5. txn[q].at \in WithUser /\ txn[q].inserts => Locked(q)
      BY DEF WithUser, Locked
    <3>6. txn[q].at \in Deciding \/ (txn[q].at = "commit" /\ txn[q].marks) => Locked(q)
      BY DEF Locked
    <3>7. txn[q].at # "unused" /\ row[txn[q].who].id # NoOne =>
            row'[txn[q].who].id = row[txn[q].who].id
      BY <1>9, <3>1 DEF KnowsRow
    <3>8. KnowsRow(q)'
      BY <3>1, <3>3, <3>4, <3>5, <3>6, <3>7 DEF KnowsRow, WithUser, Deciding
    <3>9. Writes(q)'
      BY <3>1 DEF Writes, Starters, BuildReport, Report
    <3> QED
      BY <3>8, <3>9
  <2> QED
    BY <2>1, <2>2
<1>12. RowsHaveIds'
  <2>1. ASSUME NEW j \in Identities, j # i
        PROVE  /\ row'[j].id = NoOne => row'[j] = NoRow
               /\ row'[j].id # NoOne =>
                     \/ row'[j].id = j
                     \/ /\ row'[j].id \in Requests
                        /\ txn'[row'[j].id].who = j /\ txn'[row'[j].id].at = "answered"
    <3>1. row'[j] = row[j]
      BY <1>3, <2>1
    <3>2. row[j].id \in Requests /\ txn[row[j].id].at = "answered" =>
            txn'[row[j].id] = txn[row[j].id]
      BY <1>1, <1>5
    <3> QED
      BY <3>1, <3>2 DEF OnboardingInvariant, RowsHaveIds
  <2>2. u = i \/ (u \in Requests /\ txn'[u].who = i /\ txn'[u].at = "answered")
    <3>1. CASE txn[r].inserts
      <4>1. txn[r].user = [id |-> r, seeded |-> FALSE]
        BY <1>1, <1>2, <3>1 DEF KnowsRow, WithUser
      <4>2. txn'[r].who = i /\ txn'[r].at = "answered"
        BY <1>2, <1>5 DEF Transactions
      <4> QED
        BY <4>1, <4>2
    <3>2. CASE ~txn[r].inserts
      <4>1. row[i].id = u
        BY <1>1, <1>2, <3>2 DEF KnowsRow, WithUser
      <4>2. u = i \/ (u \in Requests /\ txn[u].who = i /\ txn[u].at = "answered")
        BY <1>3, <4>1 DEF OnboardingInvariant, RowsHaveIds
      <4> QED
        BY <1>1, <1>5, <4>2
    <3> QED
      BY <3>1, <3>2
  <2> QED
    BY <1>3, <2>1, <2>2 DEF RowsHaveIds, NoRow
<1>13. ReportsHaveOwners'
  <2>1. ASSUME NEW s \in saved PROVE s.owner \in Ids'
    <3>1. PICK j \in Identities : row[j].id = s.owner /\ s.owner # NoOne
      BY <2>1 DEF OnboardingInvariant, ReportsHaveOwners, Ids
    <3> QED
      BY <1>9, <3>1 DEF Ids
  <2>2. ASSUME NEW s \in txn[r].adds PROVE s.owner \in Ids'
    <3>1. s.owner = u
      BY <1>7, <2>2, StartersBelongToOwner
    <3> QED
      BY <1>3, <3>1 DEF Ids
  <2> QED
    BY <1>7, <2>1, <2>2 DEF ReportsHaveOwners
<1>14. ExamplesAreMarked'
  <2> SUFFICES ASSUME NEW o \in Owners, ~Onboarded(o)' PROVE StartersSaved(o)' = {}
    BY DEF ExamplesAreMarked
  <2>1. ~Onboarded(o)
    <3>1. \A j \in Identities : row[j].id = o => row'[j].id = o
      BY <1>9, OnboardingAssumption DEF Owners
    <3> QED
      BY <1>10, <3>1 DEF Onboarded
  <2>2. saved \intersect Starters(o) = {}
    BY <2>1 DEF OnboardingInvariant, ExamplesAreMarked, StartersSaved
  <2>3. txn[r].adds \intersect Starters(o) = {}
    <3>1. txn[r].marks => o # u
      BY <1>3 DEF Onboarded
    <3>2. txn[r].marks => Starters(u) \intersect Starters(o) = {}
      BY <3>1, StartersBelongToOwner
    <3> QED
      BY <1>7, <3>2
  <2> QED
    BY <1>7, <2>2, <2>3 DEF StartersSaved, Starters, BuildReport, Report
<1> QED
  BY <1>8, <1>11, <1>12, <1>13, <1>14 DEF OnboardingInvariant

\* The other writers touch reports, never the marker.
LEMMA OthersInvariant ==
  ASSUME OnboardingInvariant,
         \/ \E o \in Owners : Save(o)
         \/ \E s \in saved : Remove(s)
         \/ \E key \in STARTER_STRATEGY_KEYS : Switch(key)
  PROVE  OnboardingInvariant'
<1>1. UNCHANGED <<row, holder, txn>> /\ enabled' \subseteq STARTER_STRATEGY_KEYS
  BY DEF Save, Remove, Switch, tables, OnboardingInvariant, TypeOK
<1>2. ASSUME NEW s \in saved' PROVE s \in saved \/ \E o \in Ids : s = JobReport(o)
  BY <1>2 DEF Save, Remove, Switch, tables
<1>3. ASSUME NEW o \in Ids PROVE o \in Owners
  BY <1>3 DEF Ids, OnboardingInvariant, TypeOK, Users
<1>4. ASSUME NEW o PROVE JobReport(o).owner = o /\ JobReport(o).purpose = "user"
  BY DEF JobReport, Report
<1>5. saved' \subseteq Reports
  <2>1. ASSUME NEW o \in Ids PROVE JobReport(o) \in Reports
    BY <1>3 DEF JobReport, Report, Reports
  <2> QED
    BY <1>2, <2>1 DEF OnboardingInvariant, TypeOK
<1>6. TypeOK'
  BY <1>1, <1>5 DEF OnboardingInvariant, TypeOK
<1>7. ASSUME NEW q \in Requests PROVE KnowsRow(q)' /\ Writes(q)'
  BY <1>1, <1>7 DEF OnboardingInvariant, KnowsRow, Writes, Locked, Starters, BuildReport, Report
<1>8. RowsHaveIds'
  BY <1>1 DEF OnboardingInvariant, RowsHaveIds
<1>9. ReportsHaveOwners'
  BY <1>1, <1>2, <1>4 DEF OnboardingInvariant, ReportsHaveOwners, Ids
<1>10. ExamplesAreMarked'
  <2> SUFFICES ASSUME NEW o \in Owners, ~Onboarded(o)', NEW s \in saved', s \in Starters(o)
               PROVE FALSE
    BY DEF ExamplesAreMarked, StartersSaved, Starters, BuildReport, Report
  <2>1. ~Onboarded(o)
    BY <1>1 DEF Onboarded
  <2>2. s \notin saved
    BY <2>1 DEF OnboardingInvariant, ExamplesAreMarked, StartersSaved
  <2>3. s.purpose = "example"
    BY DEF Starters, BuildReport, Report
  <2> QED
    BY <1>2, <1>4, <2>2, <2>3
<1> QED
  BY <1>6, <1>7, <1>8, <1>9, <1>10 DEF OnboardingInvariant

LEMMA StutterInvariant == OnboardingInvariant /\ UNCHANGED vars => OnboardingInvariant'
<1> SUFFICES ASSUME OnboardingInvariant, UNCHANGED vars PROVE OnboardingInvariant'
  OBVIOUS
<1>1. UNCHANGED <<row, saved, enabled, holder, txn>>
  BY DEF vars
<1>2. TypeOK' /\ RowsHaveIds' /\ ReportsHaveOwners' /\ ExamplesAreMarked'
  BY <1>1 DEF OnboardingInvariant, TypeOK, RowsHaveIds, ReportsHaveOwners, Ids,
              ExamplesAreMarked, Onboarded, StartersSaved, Starters, BuildReport, Report
<1>3. ASSUME NEW q \in Requests PROVE KnowsRow(q)' /\ Writes(q)'
  BY <1>1, <1>3 DEF OnboardingInvariant, KnowsRow, Writes, Locked, Starters, BuildReport, Report
<1> QED
  BY <1>2, <1>3 DEF OnboardingInvariant

LEMMA NextInvariant == OnboardingInvariant /\ [Next]_vars => OnboardingInvariant'
<1> SUFFICES ASSUME OnboardingInvariant, [Next]_vars PROVE OnboardingInvariant'
  OBVIOUS
<1>1. ASSUME NEW r \in Requests, NEW i \in Identities, authenticate(r, i) PROVE OnboardingInvariant'
  BY <1>1, authenticateInvariant
<1>2. ASSUME NEW r \in Requests, Statement(r) PROVE OnboardingInvariant'
  BY <1>2, LookupInvariant, InsertUserInvariant, LockUserInvariant, DecideInvariant,
     GetStrategyInvariant, AddCompletedReportsInvariant, CommitInvariant DEF Statement
<1>3. ASSUME NEW r \in Requests, Rollback(r) PROVE OnboardingInvariant'
  BY <1>3, RollbackInvariant
<1> QED
  BY <1>1, <1>2, <1>3, OthersInvariant, StutterInvariant DEF Next

\* The inductive invariant of the transactions of authenticated requests, for any
\* identities and any number of requests: what a transaction knows of the row it
\* locked stays true, and no example is stored without the marker.
THEOREM OnboardingInvariantHolds == Spec => []OnboardingInvariant
<1> QED
  BY InitInvariant, NextInvariant, PTL DEF Spec

-------------------------------------------------------------------------------
(* Safety.                                                                  *)

\* However first requests race, wait and roll back, the answers name the stored
\* row of their identity and every report has its owner's row.
THEOREM IdentitiesHaveOneOwner == Spec => []OneOwnerPerIdentity
<1>1. OnboardingInvariant => OneOwnerPerIdentity
  BY DEF OnboardingInvariant, KnowsRow, ReportsHaveOwners, OneOwnerPerIdentity
<1> QED
  BY <1>1, OnboardingInvariantHolds, PTL

\* The flush of the examples never meets their ids, stored or written by another
\* transaction that has yet to commit.
THEOREM FlushesNeverCollide == Spec => []FlushNeverCollides
<1>1. ASSUME OnboardingInvariant PROVE FlushNeverCollides
  <2> SUFFICES ASSUME NEW r \in Requests, txn[r].at = "add"
               PROVE  /\ Starters(txn[r].user.id) \intersect saved = {}
                      /\ \A q \in Requests : txn[q].at = "commit" =>
                            Starters(txn[r].user.id) \intersect txn[q].adds = {}
    BY DEF FlushNeverCollides
  <2>1. KnowsRow(r) /\ TypeOK /\ RowsHaveIds /\ txn[r].user.id \in Owners \union {NoOne}
        /\ txn[r].who \in Identities
    BY <1>1 DEF OnboardingInvariant, TypeOK, Transactions, Users, KnowsRow
  <2>2. txn[r].user.id # NoOne
    BY <2>1, OnboardingAssumption DEF KnowsRow, WithUser, Deciding
  <2>3. Starters(txn[r].user.id) \intersect saved = {}
    BY <1>1, <2>1, <2>2, DecidingOwnerIsUnmarked
    DEF OnboardingInvariant, ExamplesAreMarked, StartersSaved, Deciding
  <2>4. ASSUME NEW q \in Requests, txn[q].at = "commit",
               Starters(txn[r].user.id) \intersect txn[q].adds # {}
        PROVE  FALSE
    <3>1. KnowsRow(q) /\ Writes(q) /\ txn[q].who \in Identities
      BY <1>1, <2>4 DEF OnboardingInvariant, KnowsRow
    <3>2. txn[q].adds = Starters(txn[q].user.id) /\ txn[q].marks
      BY <2>4, <3>1 DEF Writes
    <3>3. txn[q].user.id = txn[r].user.id
      BY <2>4, <3>2, StartersBelongToOwner
    <3>4. holder[txn[r].who] = r /\ holder[txn[q].who] = q
      BY <2>1, <2>4, <3>1, <3>2 DEF KnowsRow, Locked, Deciding
    <3>5. txn[r].who = txn[q].who
      <4>1. r \notin Ids /\ q \notin Ids
        BY <2>1, <2>4, InsertedIdIsNew
      <4>2. txn[r].inserts => txn[r].user.id = r
        BY <2>1 DEF KnowsRow, WithUser, Deciding
      <4>3. txn[q].inserts => txn[q].user.id = q
        BY <2>4, <3>1 DEF KnowsRow, WithUser
      <4>4. ~txn[r].inserts => row[txn[r].who].id = txn[r].user.id /\ txn[r].user.id \in Ids
        BY <2>1, <2>2 DEF KnowsRow, WithUser, Deciding, Ids
      <4>5. ~txn[q].inserts => row[txn[q].who].id = txn[q].user.id /\ txn[q].user.id \in Ids
        BY <2>2, <2>4, <3>1, <3>3 DEF KnowsRow, WithUser, Ids
      <4>6. CASE txn[r].inserts
        BY <3>3, <4>1, <4>2, <4>3, <4>5, <4>6
      <4>7. CASE ~txn[r].inserts
        BY <2>1, <2>2, <3>1, <3>3, <4>1, <4>3, <4>4, <4>5, <4>7, IdsAreUnique
      <4> QED
        BY <4>6, <4>7
    <3> QED
      BY <2>4, <3>4, <3>5
  <2> QED
    BY <2>3, <2>4
<1> QED
  BY <1>1, OnboardingInvariantHolds, PTL

\* Statements before the commit, rollbacks and the other writers: no marker is set
\* and no example stored.
LEMMA OnlyCommitsOnboard ==
  ASSUME OnboardingInvariant, [Next]_vars, \A r \in Requests : ~Commit(r), NEW o \in Owners
  PROVE  row' = row /\ StartersSaved(o)' \subseteq StartersSaved(o)
<1>1. ASSUME NEW r \in Requests,
             (\E i \in Identities : authenticate(r, i)) \/ Rollback(r) \/ Statement(r)
      PROVE  UNCHANGED <<row, saved>>
  BY <1>1 DEF authenticate, Rollback, Statement, Lookup, InsertUser, LockUser, Decide,
              GetStrategy, AddCompletedReports, tables
<1>2. CASE \/ \E p \in Owners : Save(p)
           \/ \E s \in saved : Remove(s)
           \/ \E key \in STARTER_STRATEGY_KEYS : Switch(key)
  <2>1. row' = row
    BY <1>2 DEF Save, Remove, Switch, tables
  <2>2. ASSUME NEW s \in saved', s \notin saved PROVE s.purpose = "user"
    BY <1>2, <2>2 DEF Save, Remove, Switch, tables, JobReport, Report
  <2>3. ASSUME NEW s \in Starters(o) PROVE s.purpose = "example"
    BY <2>3 DEF Starters, BuildReport, Report
  <2>4. Starters(o)' = Starters(o)
    BY DEF Starters, BuildReport, Report
  <2> QED
    BY <2>1, <2>2, <2>3, <2>4 DEF StartersSaved
<1>3. CASE UNCHANGED <<row, saved>>
  BY <1>3 DEF StartersSaved, Starters, BuildReport, Report
<1> QED
  BY <1>1, <1>2, <1>3 DEF Next, vars

\* The examples of an owner come with the marker, once and together, and a row is
\* not inserted with the marker but without them.
THEOREM StartersComeOnce == Spec => StarterReportsComeOnce
<1> DEFINE New(o) == StartersSaved(o)' \ StartersSaved(o)
           Once(o) == /\ Onboarded(o) => Onboarded(o)' /\ New(o) = {}
                      /\ New(o) # {} => New(o) = Starters(o) /\ Onboarded(o)'
                      /\ o \notin Ids /\ Onboarded(o)' => New(o) = Starters(o)
<1>1. ASSUME OnboardingInvariant, [Next]_vars, NEW o \in Owners PROVE Once(o)
  <2>1. CASE \A r \in Requests : ~Commit(r)
    <3>1. row' = row /\ New(o) = {}
      BY <1>1, <2>1, OnlyCommitsOnboard
    <3>2. Onboarded(o)' <=> Onboarded(o)
      BY <3>1 DEF Onboarded
    <3>3. Onboarded(o) => o \in Ids
      BY OnboardingAssumption DEF Onboarded, Ids, Owners
    <3> QED
      BY <3>1, <3>2, <3>3
  <2>2. ASSUME NEW r \in Requests, Commit(r) PROVE Once(o)
    <3> DEFINE t == txn[r]
               i == t.who
               u == t.user.id
    <3>1. /\ i \in Identities /\ u \in Owners /\ u # NoOne
          /\ \A j \in Identities \ {i} : row'[j] = row[j]
          /\ row'[i].id = u
          /\ row[i].id \in {NoOne, u}
          /\ row[i].seeded \/ t.marks => row'[i].seeded
      BY <1>1, <2>2, CommittedRow
    <3>2. t.at = "commit" /\ saved' = saved \union t.adds
      BY <2>2 DEF Commit
    <3>3. KnowsRow(r) /\ Writes(r) /\ TypeOK /\ t \in Transactions
      BY <1>1, <3>2, RequestTypes DEF OnboardingInvariant
    <3>4. New(o) = (t.adds \ saved) \intersect Starters(o)
      BY <3>2 DEF StartersSaved, Starters, BuildReport, Report
    <3>5. t.adds = {} \/ (t.adds = Starters(u) /\ t.marks)
      BY <3>2, <3>3 DEF Writes
    <3>6. t.marks => ~Onboarded(u) /\ (o = u => Onboarded(o)') /\ saved \intersect Starters(u) = {}
      <4>1. t.marks => ~Onboarded(u)
        BY <1>1, <3>2, DecidingOwnerIsUnmarked
      <4>2. t.marks /\ o = u => Onboarded(o)'
        BY <3>1 DEF Onboarded
      <4>3. ~Onboarded(u) => saved \intersect Starters(u) = {}
        BY <1>1, <3>1 DEF OnboardingInvariant, ExamplesAreMarked, StartersSaved
      <4> QED
        BY <4>1, <4>2, <4>3
    <3>7. t.adds = Starters(u) /\ t.marks /\ o = u => New(o) = Starters(o)
      BY <3>4, <3>6
    <3>8. New(o) # {} => t.adds = Starters(u) /\ t.marks /\ o = u
      <4> SUFFICES ASSUME NEW s \in New(o) PROVE t.adds = Starters(u) /\ t.marks /\ o = u
        OBVIOUS
      <4>1. s \in t.adds /\ s \in Starters(o)
        BY <3>4
      <4> QED
        BY <3>5, <4>1, StartersBelongToOwner
    <3>9. Onboarded(o) => Onboarded(o)' /\ New(o) = {}
      <4>1. \A j \in Identities : row[j].id = o /\ row[j].seeded =>
               row'[j].id = o /\ row'[j].seeded
        BY <3>1, OnboardingAssumption DEF Owners
      <4>2. Onboarded(o) => Onboarded(o)'
        BY <4>1 DEF Onboarded
      <4> QED
        BY <3>6, <3>8, <4>2
    <3>10. o \notin Ids /\ Onboarded(o)' => New(o) = Starters(o)
      <4> SUFFICES ASSUME o \notin Ids, Onboarded(o)' PROVE New(o) = Starters(o)
        OBVIOUS
      <4>1. \A j \in Identities : row[j].id # o
        BY OnboardingAssumption DEF Ids, Owners
      <4>2. o = u /\ row'[i].seeded /\ row[i].id = NoOne
        BY <3>1, <4>1 DEF Onboarded
      <4>3. t.inserts
        BY <3>1, <3>2, <3>3, <4>2 DEF KnowsRow, WithUser
      <4>4. row' = [row EXCEPT ![i] = [id |-> u, seeded |-> t.user.seeded \/ t.marks]]
        BY <2>2, <4>3 DEF Commit
      <4>5. ~t.user.seeded
        BY <3>2, <3>3, <4>3 DEF KnowsRow, WithUser
      <4>6. t.marks
        BY <3>1, <3>3, <4>2, <4>4, <4>5 DEF TypeOK
      <4>7. t.adds = Starters(u)
        BY <3>2, <3>3, <4>3, <4>6 DEF Writes
      <4> QED
        BY <3>7, <4>2, <4>6, <4>7
    <3> QED
      BY <3>6, <3>7, <3>8, <3>9, <3>10
  <2> QED
    BY <2>1, <2>2
<1>2. OnboardingInvariant /\ [Next]_vars => [\A o \in Owners : Once(o)]_vars
  BY <1>1
<1> QED
  BY <1>2, OnboardingInvariantHolds, PTL DEF Spec, StarterReportsComeOnce

\* Whatever was stored before the marker and whatever is stored since, the lists,
\* the onboarding check and the detail agree on what a report is.
THEOREM ReportsAreListedOnce == Spec => []ListsAgree
<1>1. OnboardingInvariant => ListsAgree
  <2> SUFFICES ASSUME OnboardingInvariant, NEW o \in Ids
               PROVE  LET history == ListReports(o, FALSE)
                          examples == ListReports(o, TRUE)
                      IN  /\ history \intersect examples = {}
                          /\ OwnerHasVisibleReports(o) <=> history \union examples # {}
                          /\ \A s \in saved : s.owner = o =>
                                (ToDetail(s).purpose = "example" <=> s \in examples)
    BY DEF ListsAgree
  <2>1. ListReports(o, TRUE) = {s \in saved : s.owner = o /\ ExamplePredicate(s)}
    BY DEF ListReports, ExamplePredicate
  <2>2. ListReports(o, FALSE) =
          {s \in saved : s.owner = o /\ ~ExamplePredicate(s) /\ Purpose(s) = "user"}
    BY DEF ListReports, ExamplePredicate
  <2>3. ListReports(o, FALSE) \intersect ListReports(o, TRUE) = {}
    BY <2>1, <2>2
  <2>4. OwnerHasVisibleReports(o) <=> ListReports(o, FALSE) \union ListReports(o, TRUE) # {}
    BY <2>1, <2>2 DEF OwnerHasVisibleReports
  <2>5. ASSUME NEW s \in saved PROVE ToDetail(s).purpose = "example" <=> ExamplePredicate(s)
    <3>1. s \in Reports
      BY DEF OnboardingInvariant, TypeOK
    <3> QED
      BY <3>1 DEF ToDetail, ExamplePredicate, Reports
  <2> QED
    BY <2>1, <2>3, <2>4, <2>5
<1> QED
  BY <1>1, OnboardingInvariantHolds, PTL
=============================================================================
