--------------------------- MODULE StrategyPackage ---------------------------
(***************************************************************************)
(* The packages of the strategy catalogue: the objects of the strategy     *)
(* store (integrations/strategy_store.py, local directory or S3 bucket),   *)
(* the registry rows that point at them (app.strategies), the requests     *)
(* that create and delete both (services/strategies.py, strategy_          *)
(* validation/packaging.py and runs.py), the workers that load them        *)
(* (engine/strategies/user_loader.py), and the operator's scripts: the     *)
(* cutover to S3 (scripts/migrate_strategy_store_s3.py), the publication   *)
(* of built-ins (scripts/publish_builtin_strategies.py), the seed and the  *)
(* claim of ownerless rows.                                                *)
(*                                                                         *)
(* One API process serves the requests.  A handler's coroutine runs on the *)
(* event loop and yields at an await; a store call made through            *)
(* asyncio.to_thread runs beside it.  The sweep of staged sources calls    *)
(* the store without a thread, so it holds the loop from its first store   *)
(* call to its last: loop is the request that does, or none.               *)
(*                                                                         *)
(* An object is absent, torn (a local file that is being written, or whose *)
(* writer died) or has a version as its content.  An upload has one        *)
(* version; a built-in is vendored in two.                                 *)
(***************************************************************************)
EXTENDS Naturals, FiniteSets

CONSTANTS
    Requests,   \* concurrent requests of the API process
    Workers,    \* pool workers that load strategies
    Uploads,    \* keys _generate_key hands out: each is used once
    Staged,     \* keys of rows written before the store existed
    Rejected,   \* the uploads whose source scan_source refuses
    NoKey,
    Free        \* nobody holds the event loop

ASSUME KeysAssumption ==
    /\ Uploads \intersect Staged = {}
    /\ NoKey \notin Uploads \union Staged
    /\ Free \notin Requests
    /\ \A s \in {"base", "v1", "v2"} : s \notin Uploads \union Staged

Backends == {"local", "s3"}
Files    == {"source", "config"}           \* strategy.py, config.json
Versions == {"v1", "v2"}
Contents == Versions \union {"absent", "torn"}

UserKeys    == Uploads \union Staged
\* strategies/<builtin>/ and its revisions/<digest>/, one digest per version
BuiltinKeys == {"base"} \union Versions
StoreKeys   == UserKeys \union BuiltinKeys

VARIABLES
    backend,    \* settings.strategy_store_backend
    objects,    \* the store's contents, by backend, key and file
    row,        \* a user key's row: none, source in source_staging, or storage_key set
    owned,      \* user keys whose row has an owner_id
    pointer,    \* the built-in's row and its storage_key
    vendored,   \* the version of the built-in in the deployed image
    used,       \* uploads whose key was handed out
    proc,       \* each request
    loop,       \* the request that holds the event loop, or Free
    load,       \* each worker's load_user_strategy
    api,        \* the services run, or the operator stopped them
    mig,        \* the cutover script
    pub,        \* the publication script
    dirty       \* history: uploads a fault may have left objects of

storeVars  == <<backend, objects>>
rowVars    == <<row, owned, pointer>>
procVars   == <<proc, loop, used>>
scriptVars == <<api, mig, pub, vendored>>
vars == <<storeVars, rowVars, procVars, load, scriptVars, dirty>>

Empty == [f \in Files |-> "absent"]

Steps == {"idle", "list", "sweep", "exists", "compare", "put_source", "write_source",
          "put_config", "write_config", "cleanup", "adopt", "create", "verify", "discard"}
Idle     == [pc |-> "idle", key |-> NoKey, upload |-> NoKey, pending |-> {}]
NoLoad   == [pc |-> "idle", key |-> NoKey, listed |-> {}, got |-> Empty]
NoScript == [pc |-> "idle", key |-> NoKey, left |-> {}]

TypeOK ==
    /\ backend \in Backends
    /\ objects \in [Backends -> [StoreKeys -> [Files -> Contents]]]
    /\ row \in [UserKeys -> {"absent", "staged", "stored"}]
    /\ owned \subseteq UserKeys
    /\ pointer \in {"absent", "none"} \union BuiltinKeys
    /\ vendored \in Versions
    /\ used \subseteq Uploads
    /\ proc \in [Requests -> [pc : Steps, key : UserKeys \union {NoKey},
                              upload : Uploads \union {NoKey}, pending : SUBSET Staged]]
    /\ loop \in Requests \union {Free}
    /\ load \in [Workers -> [pc : {"idle", "listing", "copying", "loaded"},
                             key : StoreKeys \union {NoKey}, listed : SUBSET Files,
                             got : [Files -> Contents]]]
    /\ api \in {"up", "down"}
    /\ mig \in [pc : {"idle", "plan", "copy", "ok"}, key : {NoKey}, left : SUBSET UserKeys]
    /\ pub \in [pc : {"idle", "put"}, key : BuiltinKeys \union {NoKey}, left : SUBSET Files]
    /\ dirty \subseteq Uploads

Init ==
    /\ backend \in Backends
    /\ objects = [b \in Backends |-> [k \in StoreKeys |-> Empty]]
    /\ row = [k \in UserKeys |-> IF k \in Staged THEN "staged" ELSE "absent"]
    /\ owned = {}
    /\ pointer = "absent" /\ vendored = "v1"
    /\ used = {} /\ proc = [r \in Requests |-> Idle] /\ loop = Free
    /\ load = [w \in Workers |-> NoLoad]
    /\ api = "up" /\ mig = NoScript /\ pub = NoScript
    /\ dirty = {}

----------------------------------------------------------------------------
(* The store.                                                              *)

Object(k, f) == objects[backend][k][f]

(* store.exists: at least one object under the prefix.                     *)
Listed(k) == {f \in Files : Object(k, f) # "absent"}
Exist(k) == Listed(k) # {}

(* A package read back equal to what is being stored (version v).          *)
Equal(k, v) == \A f \in Files : Object(k, f) = v

Write(k, f, c) == objects' = [objects EXCEPT ![backend][k][f] = c]

(* store.delete: the prefix is swept, or the sweep fails part of the way   *)
(* (an HTTP-200 partial failure, an OSError inside rmtree).                *)
Swept(k) == objects' = [objects EXCEPT ![backend][k] = Empty]
SweptPartly(k) ==
    \E gone \in SUBSET Files :
        objects' = [objects EXCEPT ![backend][k] =
                      [f \in Files |-> IF f \in gone THEN "absent" ELSE @[f]]]

----------------------------------------------------------------------------
(* store_strategy_source, called by a submission for its fresh key (in a   *)
(* thread) and by the sweep for a staged key (on the loop).                *)

Sweeping(r) == proc[r].key \in Staged

At(r, step) == proc[r].pc = step
Goto(r, step) == proc' = [proc EXCEPT ![r].pc = step]

(* A coroutine step needs the event loop.                                  *)
OnLoop == api = "up" /\ loop = Free

(* The call returns the storage key, or raises: the sweep logs and takes   *)
(* its next row, a submission answers with the error.                      *)
Stored(r) ==
    /\ Goto(r, IF Sweeping(r) THEN "adopt" ELSE "create")
    /\ loop' = IF loop = r THEN Free ELSE loop

StoreFailed(r) ==
    /\ IF Sweeping(r) THEN Goto(r, "sweep") ELSE proc' = [proc EXCEPT ![r] = Idle]
    /\ loop' = IF loop = r THEN Free ELSE loop

\* Mutant: the collision guard is missing.
StoreExists_Unguarded(r) ==
    /\ At(r, "exists")
    /\ Goto(r, "put_source")
    /\ UNCHANGED <<storeVars, rowVars, loop, used, load, scriptVars, dirty>>

StoreExists(r) ==
    /\ At(r, "exists")
    /\ Goto(r, IF Exist(proc[r].key) THEN "compare" ELSE "put_source")
    /\ UNCHANGED <<storeVars, rowVars, loop, used, load, scriptVars, dirty>>

(* An identical completed package is a retry; anything else is refused.    *)
StoreCompare(r) ==
    /\ At(r, "compare")
    /\ IF Equal(proc[r].key, "v1") THEN Stored(r) ELSE StoreFailed(r)
    /\ UNCHANGED <<storeVars, rowVars, used, load, scriptVars, dirty>>

(* put is atomic in S3 and truncates, then writes, a local file.  It may   *)
(* fail with or without having stored the object.  The source goes first;  *)
(* the call returns once the configuration's put did.                      *)
PutDone(r, f) ==
    IF f = "source" THEN Goto(r, "put_config") /\ UNCHANGED loop ELSE Stored(r)

StorePut(r, f, here, writing) ==
    /\ At(r, here)
    /\ \/ backend = "local" /\ Write(proc[r].key, f, "torn")
          /\ Goto(r, writing) /\ UNCHANGED loop
       \/ backend = "s3" /\ Write(proc[r].key, f, "v1") /\ PutDone(r, f)
       \/ backend = "s3" /\ Write(proc[r].key, f, "v1")
          /\ Goto(r, "cleanup") /\ UNCHANGED loop
       \/ UNCHANGED <<objects, loop>> /\ Goto(r, "cleanup")
    /\ UNCHANGED <<backend, rowVars, used, load, scriptVars, dirty>>

StoreWrite(r, f, writing) ==
    /\ At(r, writing)
    /\ \/ Write(proc[r].key, f, "v1") /\ PutDone(r, f)
       \/ UNCHANGED <<objects, loop>> /\ Goto(r, "cleanup")
    /\ UNCHANGED <<backend, rowVars, used, load, scriptVars, dirty>>

StoreCleanup(r) ==
    /\ At(r, "cleanup")
    /\ \/ Swept(proc[r].key) /\ UNCHANGED dirty
       \/ SweptPartly(proc[r].key) /\ dirty' = dirty \union ({proc[r].key} \ Staged)
    /\ StoreFailed(r)
    /\ UNCHANGED <<backend, rowVars, used, load, scriptVars>>

StoreStep(r) ==
    \/ StoreExists(r) \/ StoreCompare(r)
    \/ StorePut(r, "source", "put_source", "write_source")
    \/ StoreWrite(r, "source", "write_source")
    \/ StorePut(r, "config", "put_config", "write_config")
    \/ StoreWrite(r, "config", "write_config")
    \/ StoreCleanup(r)

----------------------------------------------------------------------------
(* submit_strategy: scan, sweep, store, register.                          *)

(* scan_source refuses before anything is stored: a rejected upload never  *)
(* gets a key.  _generate_key draws a fresh one for the others.            *)
Submit(r, u) ==
    /\ OnLoop /\ At(r, "idle")
    /\ u \in Uploads \ (Rejected \union used)
    /\ proc' = [proc EXCEPT ![r] = [Idle EXCEPT !.pc = "list", !.upload = u]]
    /\ used' = used \union {u}
    /\ UNCHANGED <<storeVars, rowVars, loop, load, scriptVars, dirty>>

(* migrate_staged_sources reads the staged rows, then takes them in turn.  *)
SweepList(r) ==
    /\ OnLoop /\ At(r, "list")
    /\ proc' = [proc EXCEPT ![r].pc = "sweep",
                            ![r].pending = {k \in Staged : row[k] = "staged"}]
    /\ UNCHANGED <<storeVars, rowVars, loop, used, load, scriptVars, dirty>>

\* Mutant: the sweep calls the store through a thread.
SweepNext_InThread(r) ==
    /\ OnLoop /\ At(r, "sweep")
    /\ \E k \in proc[r].pending :
          proc' = [proc EXCEPT ![r].pc = "exists", ![r].key = k, ![r].pending = @ \ {k}]
    /\ UNCHANGED <<storeVars, rowVars, loop, used, load, scriptVars, dirty>>

SweepNext(r) ==
    /\ OnLoop /\ At(r, "sweep")
    /\ \E k \in proc[r].pending :
          /\ proc' = [proc EXCEPT ![r].pc = "exists", ![r].key = k,
                                  ![r].pending = @ \ {k}]
          /\ loop' = r
    /\ UNCHANGED <<storeVars, rowVars, used, load, scriptVars, dirty>>

SweepDone(r) ==
    /\ OnLoop /\ At(r, "sweep") /\ proc[r].pending = {}
    /\ proc' = [proc EXCEPT ![r].pc = "exists", ![r].key = proc[r].upload]
    /\ UNCHANGED <<storeVars, rowVars, loop, used, load, scriptVars, dirty>>

(* adopt_staged_source sets storage_key and clears source_staging in one   *)
(* transaction; a row deleted meanwhile is left alone, an error is logged. *)
Adopt(r) ==
    /\ OnLoop /\ At(r, "adopt")
    /\ LET k == proc[r].key
       IN  \/ row' = [row EXCEPT ![k] = IF @ = "absent" THEN @ ELSE "stored"]
           \/ UNCHANGED row
    /\ Goto(r, "sweep")
    /\ UNCHANGED <<storeVars, owned, pointer, loop, used, load, scriptVars, dirty>>

(* create_strategy: the commit succeeds, fails, or succeeds without the    *)
(* client hearing of it.                                                   *)
Create(r) ==
    /\ OnLoop /\ At(r, "create")
    /\ \E committed, acked \in BOOLEAN :
          /\ acked => committed
          /\ row' = IF committed THEN [row EXCEPT ![proc[r].key] = "stored"] ELSE row
          /\ owned' = IF committed THEN owned \union {proc[r].key} ELSE owned
          /\ IF acked THEN proc' = [proc EXCEPT ![r] = Idle] ELSE Goto(r, "verify")
    /\ UNCHANGED <<storeVars, pointer, loop, used, load, scriptVars, dirty>>

(* _discard_unregistered_source: delete only what a read shows to be       *)
(* unregistered; if the read fails too, retain the package.                *)
Verify(r) ==
    /\ OnLoop /\ At(r, "verify")
    /\ \/ /\ row[proc[r].key] = "absent"
          /\ Goto(r, "discard")
          /\ UNCHANGED dirty
       \/ /\ row[proc[r].key] # "absent"
          /\ proc' = [proc EXCEPT ![r] = Idle]
          /\ UNCHANGED dirty
       \/ /\ proc' = [proc EXCEPT ![r] = Idle]
          /\ dirty' = dirty \union ({proc[r].key} \ Staged)
    /\ UNCHANGED <<storeVars, rowVars, loop, used, load, scriptVars>>

(* discard_stored_source, in a thread: an error is logged, nothing more.   *)
\* Mutant: the discard is skipped.
Discard_Nothing(r) ==
    /\ At(r, "discard")
    /\ proc' = [proc EXCEPT ![r] = Idle]
    /\ UNCHANGED <<storeVars, rowVars, loop, used, load, scriptVars, dirty>>

Discard(r) ==
    /\ At(r, "discard")
    /\ \/ Swept(proc[r].key) /\ UNCHANGED dirty
       \/ SweptPartly(proc[r].key) /\ dirty' = dirty \union ({proc[r].key} \ Staged)
    /\ proc' = [proc EXCEPT ![r] = Idle]
    /\ UNCHANGED <<backend, rowVars, loop, used, load, scriptVars>>

(* delete_strategy: the owner's row first, the objects afterwards.  A      *)
(* commit that is not acknowledged leaves the objects behind.              *)
DeleteStrategy(r, k) ==
    /\ OnLoop /\ At(r, "idle")
    /\ row[k] # "absent" /\ k \in owned
    /\ row' = [row EXCEPT ![k] = "absent"]
    /\ \/ /\ proc' = [proc EXCEPT ![r] = [Idle EXCEPT !.pc = "discard", !.key = k]]
          /\ UNCHANGED dirty
       \/ /\ UNCHANGED proc
          /\ dirty' = dirty \union ({k} \ Staged)
    /\ UNCHANGED <<storeVars, owned, pointer, loop, used, load, scriptVars>>

RequestStep ==
    \E r \in Requests :
        \/ \E u \in Uploads : Submit(r, u)
        \/ SweepList(r) \/ SweepNext(r) \/ SweepDone(r) \/ StoreStep(r)
        \/ Adopt(r) \/ Create(r) \/ Verify(r) \/ Discard(r)
        \/ \E k \in UserKeys : DeleteStrategy(r, k)

----------------------------------------------------------------------------
(* load_user_strategy in a pool worker: the job carries the storage key    *)
(* that the row had when it was dispatched; materialize lists the prefix   *)
(* and copies the objects one by one into an empty directory.              *)

Referenced(k) == IF k \in UserKeys THEN row[k] = "stored" ELSE pointer = k

LoadStart(w, k) ==
    /\ api = "up" /\ load[w].pc \in {"idle", "loaded"}
    /\ Referenced(k)
    /\ load' = [load EXCEPT ![w] = [NoLoad EXCEPT !.pc = "listing", !.key = k]]
    /\ UNCHANGED <<storeVars, rowVars, procVars, scriptVars, dirty>>

LoadList(w) ==
    /\ load[w].pc = "listing"
    /\ load' = IF Exist(load[w].key)
               THEN [load EXCEPT ![w].pc = "copying",
                                 ![w].listed = Listed(load[w].key)]
               ELSE [load EXCEPT ![w] = NoLoad]
    /\ UNCHANGED <<storeVars, rowVars, procVars, scriptVars, dirty>>

(* An object that is gone since it was listed fails the load.              *)
LoadCopy(w, f) ==
    /\ load[w].pc = "copying" /\ f \in load[w].listed
    /\ load' = IF Object(load[w].key, f) = "absent"
               THEN [load EXCEPT ![w] = NoLoad]
               ELSE [load EXCEPT ![w].listed = @ \ {f},
                                 ![w].got[f] = Object(load[w].key, f)]
    /\ UNCHANGED <<storeVars, rowVars, procVars, scriptVars, dirty>>

(* Both files must have landed before the module is imported.              *)
\* Mutant: what was listed is taken for the package.
LoadDone_Listed(w) ==
    /\ load[w].pc = "copying" /\ load[w].listed = {}
    /\ load' = [load EXCEPT ![w].pc = "loaded"]
    /\ UNCHANGED <<storeVars, rowVars, procVars, scriptVars, dirty>>

LoadDone(w) ==
    /\ load[w].pc = "copying" /\ load[w].listed = {}
    /\ load' = IF \E f \in Files : load[w].got[f] = "absent"
               THEN [load EXCEPT ![w] = NoLoad]
               ELSE [load EXCEPT ![w].pc = "loaded"]
    /\ UNCHANGED <<storeVars, rowVars, procVars, scriptVars, dirty>>

LoadStep ==
    \E w \in Workers :
        \/ \E k \in StoreKeys : LoadStart(w, k)
        \/ LoadList(w) \/ LoadDone(w)
        \/ \E f \in Files : LoadCopy(w, f)

----------------------------------------------------------------------------
(* The API process and its workers die, or the operator stops them.        *)
Busy == {k \in UserKeys : \E r \in Requests : ~At(r, "idle") /\ proc[r].key = k}

Halt(state) ==
    /\ api = "up" /\ api' = state
    /\ proc' = [r \in Requests |-> Idle] /\ loop' = Free
    /\ load' = [w \in Workers |-> NoLoad]
    /\ dirty' = dirty \union (Busy \ Staged)
    /\ UNCHANGED <<storeVars, rowVars, used, mig, pub, vendored>>

Crash   == Halt("up")
StopApi == Halt("down")

(* Services come back on the same backend.                                 *)
StartApi ==
    /\ api = "down" /\ mig.pc \in {"idle", "ok"}
    /\ api' = "up" /\ mig' = NoScript
    /\ UNCHANGED <<storeVars, rowVars, procVars, load, pub, vendored, dirty>>

----------------------------------------------------------------------------
(* migrate_strategy_store_s3.py --apply --api-workers-stopped              *)

Local(k, f)  == objects["local"][k][f]
Remote(k, f) == objects["s3"][k][f]

(* The inventory: every user row with a storage_key, whatever its status.  *)
(* Every object must be there locally before the destination is read.      *)
MigrateInventory ==
    /\ api = "down" /\ backend = "local" /\ mig.pc = "idle"
    /\ LET keys == {k \in UserKeys : row[k] = "stored"}
       IN  /\ \A k \in keys, f \in Files : Local(k, f) # "absent"
           /\ mig' = [NoScript EXCEPT !.pc = "plan", !.left = keys]
    /\ UNCHANGED <<storeVars, rowVars, procVars, load, api, pub, vendored, dirty>>

(* Every conflict is found before the first write; a dry run ends here.    *)
MigratePlan ==
    /\ mig.pc = "plan"
    /\ mig' = IF \A k \in mig.left, f \in Files : Remote(k, f) \in {"absent", Local(k, f)}
              THEN [mig EXCEPT !.pc = "copy"] ELSE NoScript
    /\ UNCHANGED <<storeVars, rowVars, procVars, load, api, pub, vendored, dirty>>

(* _put_missing: a conditional put of an object that is absent.  A put     *)
(* that fails ends the script, whether or not the object was stored.       *)
MigrateCopy(k, f) ==
    /\ mig.pc = "copy" /\ k \in mig.left /\ Remote(k, f) = "absent"
    /\ \/ objects' = [objects EXCEPT !["s3"][k][f] = Local(k, f)] /\ mig' \in {mig, NoScript}
       \/ UNCHANGED objects /\ mig' = NoScript
    /\ dirty' = dirty \union ({k} \ Staged)
    /\ UNCHANGED <<backend, rowVars, procVars, load, api, pub, vendored>>

(* A package is done when both objects read back equal.                    *)
MigrateVerify(k) ==
    /\ mig.pc = "copy" /\ k \in mig.left
    /\ \A f \in Files : Remote(k, f) # "absent"
    /\ mig' = IF \A f \in Files : Remote(k, f) = Local(k, f)
              THEN [mig EXCEPT !.left = @ \ {k}] ELSE NoScript
    /\ UNCHANGED <<storeVars, rowVars, procVars, load, api, pub, vendored, dirty>>

MigrateExit ==
    /\ mig.pc = "copy" /\ mig.left = {}
    /\ mig' = [mig EXCEPT !.pc = "ok"]
    /\ UNCHANGED <<storeVars, rowVars, procVars, load, api, pub, vendored, dirty>>

MigrateDies ==
    /\ mig.pc # "idle" /\ mig' = NoScript
    /\ UNCHANGED <<storeVars, rowVars, procVars, load, api, pub, vendored, dirty>>

(* The operator switches the backend after exit status 0 and restarts.     *)
Switch ==
    /\ api = "down" /\ mig.pc = "ok"
    /\ backend' = "s3" /\ api' = "up" /\ mig' = NoScript
    /\ UNCHANGED <<objects, rowVars, procVars, load, pub, vendored, dirty>>

Migrate ==
    \/ MigrateInventory \/ MigratePlan \/ MigrateExit \/ MigrateDies \/ Switch
    \/ \E k \in UserKeys : MigrateVerify(k) \/ \E f \in Files : MigrateCopy(k, f)

----------------------------------------------------------------------------
(* publish_builtin_strategies.py --apply [--revision], seed_strategies.py, *)
(* claim_strategy_owner.py                                                 *)

(* The registry's row is locked and checked, the destination inventoried:  *)
(* different content is never overwritten.  It waits for jobs that use the *)
(* built-in.                                                               *)
PublishPlan(revision) ==
    /\ backend = "s3" /\ pub.pc = "idle"
    /\ \A w \in Workers : load[w].pc \in {"listing", "copying"} => load[w].key \in UserKeys
    /\ IF revision THEN pointer # "absent" ELSE pointer \in {"absent", "none", "base"}
    /\ LET k == IF revision THEN vendored ELSE "base"
       IN  /\ \A f \in Files : Remote(k, f) \in {"absent", vendored}
           /\ pub' = [pc |-> "put", key |-> k,
                      left |-> {f \in Files : Remote(k, f) = "absent"}]
    /\ UNCHANGED <<storeVars, rowVars, procVars, load, api, mig, vendored, dirty>>

(* A conditional put; if it fails the script goes on only when the object  *)
(* is there with this content.                                             *)
PublishPut(f) ==
    /\ pub.pc = "put" /\ f \in pub.left
    /\ \/ /\ Remote(pub.key, f) = "absent"
          /\ objects' = [objects EXCEPT !["s3"][pub.key][f] = vendored]
          /\ pub' = [pub EXCEPT !.left = @ \ {f}]
       \/ UNCHANGED objects /\ pub' = NoScript
    /\ UNCHANGED <<backend, rowVars, procVars, load, api, mig, vendored, dirty>>

(* Every object is verified before the registry transaction commits.       *)
PublishCommit ==
    /\ pub.pc = "put" /\ pub.left = {}
    /\ pointer' = IF \A f \in Files : Remote(pub.key, f) = vendored THEN pub.key ELSE pointer
    /\ pub' = NoScript
    /\ UNCHANGED <<storeVars, row, owned, procVars, load, api, mig, vendored, dirty>>

PublishDies ==
    /\ pub.pc # "idle" /\ pub' = NoScript
    /\ UNCHANGED <<storeVars, rowVars, procVars, load, api, mig, vendored, dirty>>

(* seed: an upsert that leaves a published row alone.                      *)
Seed ==
    /\ pointer = "absent" /\ pointer' = "none"
    /\ UNCHANGED <<storeVars, row, owned, procVars, load, scriptVars, dirty>>

(* A deployment with the other version of the vendored strategy.           *)
Deploy ==
    /\ pub.pc = "idle" /\ vendored = "v1" /\ vendored' = "v2"
    /\ UNCHANGED <<storeVars, rowVars, procVars, load, api, mig, pub, dirty>>

(* claim: user rows without an owner get one, owned rows keep theirs.      *)
Claim(k) ==
    /\ row[k] # "absent" /\ k \notin owned
    /\ owned' = owned \union {k}
    /\ UNCHANGED <<storeVars, row, pointer, procVars, load, scriptVars, dirty>>

ScriptStep ==
    \/ Migrate \/ Seed \/ Deploy \/ PublishCommit \/ PublishDies
    \/ \E revision \in BOOLEAN : PublishPlan(revision)
    \/ \E f \in Files : PublishPut(f)
    \/ \E k \in UserKeys : Claim(k)

Next == RequestStep \/ LoadStep \/ Crash \/ StopApi \/ StartApi \/ ScriptStep

Spec == Init /\ [][Next]_vars

----------------------------------------------------------------------------
(* What readers see.                                                       *)

(* _package_available: both files can be read.                             *)
PackageAvailable(k) == Listed(k) = Files

(* list_strategies: what the catalogue offers.  Without a package a        *)
(* built-in is offered only by the local backend, which vendors its class. *)
Catalogue ==
    {k \in UserKeys : row[k] = "stored" /\ PackageAvailable(k)}
    \union {k \in BuiltinKeys : pointer = k /\ PackageAvailable(k)}
    \union {k \in {"vendored"} : backend = "local" /\ pointer = "none"}

(* get_strategy_source for the owner: the stored text, or nothing.         *)
StrategySource(k) ==
    IF k \in owned /\ row[k] = "stored" THEN Object(k, "source") ELSE "absent"

----------------------------------------------------------------------------
(* Properties.                                                             *)

(* A row never points at a package that is missing, incomplete, half       *)
(* written or made of two versions: whatever storage_key a row has, on the *)
(* backend in use both objects are there with the content that was         *)
(* stored, the catalogue offers it and its owner reads it back.  This is   *)
(* the promise behind the order of submit_strategy, delete_strategy,       *)
(* adopt_staged_source, the cutover and publish_packages.                  *)
RowHasPackage ==
    /\ \A k \in StoreKeys : Referenced(k) =>
          /\ \E v \in Versions : Equal(k, v)
          /\ k \in Catalogue
    /\ \A k \in owned : row[k] = "stored" => StrategySource(k) = "v1"

(* A worker that loads a strategy has imported one complete version of it, *)
(* although its row may be deleted and its objects swept while materialize *)
(* copies them one by one.  A staged row is excepted once it is deleted: a *)
(* sweep that listed it before stores its package again, under the same    *)
(* key, beside the copying worker.                                         *)
LoadedWhole ==
    \A w \in Workers :
        /\ load[w].pc = "loaded"
        /\ load[w].key \in Staged => row[load[w].key] = "stored"
        => \E v \in Versions : \A f \in Files : load[w].got[f] = v

(* An upload that did not become a row, and whose request is over, left    *)
(* nothing in the store, unless the process died, the store's cleanup      *)
(* failed, or the outcome of the insert could not be read back.            *)
FailedUploadLeavesNothing ==
    \A u \in Uploads \ (dirty \union Busy) : row[u] = "absent" => ~Exist(u)

(* No step of anyone changes the content of a complete object, and one is  *)
(* removed only when no row refers to its key any more: put is preceded by *)
(* the collision guard, the scripts write conditionally, and rows go       *)
(* before objects.                                                         *)
StoredNeverReplaced ==
    [][\A b \in Backends, k \in StoreKeys, f \in Files :
          objects[b][k][f] \in Versions =>
             \/ objects'[b][k][f] = objects[b][k][f]
             \/ objects'[b][k][f] = "absent" /\ k \in UserKeys /\ row'[k] # "stored"]_vars

===============================================================================
