------------------------- MODULE StrategyPackageProofs -------------------------
(***************************************************************************)
(* Proofs about StrategyPackage, for every set of requests, workers,       *)
(* uploads and staged rows: a row that names a package has it whole, a     *)
(* stored object is never replaced, a failed upload leaves nothing, and a  *)
(* worker imports one complete version.                                    *)
(***************************************************************************)
EXTENDS StrategyPackage, TLAPS

-------------------------------------------------------------------------------
(* The inductive invariant.                                                 *)

\* Where a request is inside store_strategy_source, where it may write there, and
\* where its upload has no row yet.
InStore == {"exists", "compare", "put_source", "write_source", "put_config", "write_config",
            "cleanup"}
Writing == InStore \ {"exists", "compare"}
Early   == {"list", "sweep", "adopt", "create"} \union InStore

\* A request works for one upload and takes the staged keys in turn; it holds the
\* event loop exactly while it stores one of those.
RequestOK(r) ==
    /\ At(r, "idle") => proc[r].key = NoKey /\ proc[r].upload = NoKey
    /\ At(r, "list") \/ At(r, "sweep") => proc[r].key \notin Uploads
    /\ At(r, "adopt") \/ At(r, "compare") => proc[r].key \in Staged
    /\ At(r, "create") \/ At(r, "verify") => proc[r].key = proc[r].upload
    /\ At(r, "discard") => proc[r].key \in UserKeys
    /\ proc[r].pc \in InStore => proc[r].key \in Staged \/ proc[r].key = proc[r].upload
    /\ proc[r].pc \notin {"idle", "discard"} => proc[r].upload # NoKey
    /\ proc[r].upload # NoKey => proc[r].upload \in used
    /\ proc[r].key \in Uploads => proc[r].key \in used
    /\ loop = r <=> proc[r].pc \in InStore /\ proc[r].key \in Staged

\* Until its row is committed, an upload is known to its own request only.
AloneOK(r) ==
    /\ \A s \in Requests \ {r} : proc[r].upload = proc[s].upload => proc[r].upload = NoKey
    /\ proc[r].pc \in Early =>
          /\ row[proc[r].upload] = "absent"
          /\ \A s \in Requests \ {r} : proc[s].key # proc[r].upload
          /\ \A w \in Workers : load[w].key # proc[r].upload
    /\ At(r, "discard") => row[proc[r].key] = "absent"

\* What the collision guard and the order of the puts establish at each step: a
\* request that may still write, or clean up, does so under a key no row uses.
ContentOK(r) ==
    /\ proc[r].pc \in Early /\ (proc[r].key # proc[r].upload \/ At(r, "exists")) =>
          \A f \in Files : Object(proc[r].upload, f) = "absent"
    /\ At(r, "put_source") =>
          /\ Object(proc[r].key, "source") = "absent"
          /\ Object(proc[r].key, "config") = "absent"
    /\ At(r, "write_source") =>
          /\ Object(proc[r].key, "source") \in {"torn", "absent"}
          /\ Object(proc[r].key, "config") = "absent"
    /\ At(r, "put_config") => Object(proc[r].key, "config") = "absent"
    /\ At(r, "write_config") => Object(proc[r].key, "config") \in {"torn", "absent"}
    /\ (At(r, "put_config") \/ At(r, "write_config"))
         /\ (proc[r].key \in Uploads \/ row[proc[r].key] # "absent") =>
          Object(proc[r].key, "source") = "v1"
    /\ proc[r].pc \in Writing =>
          /\ row[proc[r].key] # "stored"
          /\ row[proc[r].key] # "absent" =>
                \A s \in Requests : At(s, "adopt") => proc[s].key # proc[r].key
    /\ At(r, "create") \/ (At(r, "adopt") /\ row[proc[r].key] # "absent") =>
          Equal(proc[r].key, "v1")

\* A row and its package on the backend in use.
RowOK(k) ==
    /\ row[k] = "stored" => Equal(k, "v1")
    /\ k \in Uploads => row[k] # "staged"
    /\ k \in Uploads \ used =>
          /\ row[k] = "absent"
          /\ \A b \in Backends, f \in Files : objects[b][k][f] = "absent"

\* What an upload without a row left behind.
LeftOK(u) ==
    /\ row[u] = "absent" /\ u \notin Busy => \A f \in Files : Object(u, f) = "absent"
    /\ backend = "local" => \A f \in Files : Remote(u, f) = "absent"

\* A worker reads a package that changes under it only when its row is gone, and
\* then only by losing objects, unless a sweep stores a staged one again.
LoadOK(w) ==
    /\ load[w].pc = "idle" => load[w].key = NoKey
    /\ load[w].pc # "idle" =>
      /\ load[w].key \in StoreKeys
      /\ load[w].key \in Uploads =>
            /\ load[w].key \in used
            /\ \A f \in Files : /\ Object(load[w].key, f) \in {"v1", "absent"}
                                /\ load[w].got[f] \in {"v1", "absent"}
      /\ load[w].key \in Staged /\ row[load[w].key] # "absent" =>
            /\ row[load[w].key] = "stored"
            /\ \A f \in Files : load[w].got[f] \in {"v1", "absent"}
      /\ load[w].key \in BuiltinKeys =>
            /\ backend = "s3"
            /\ \E v \in Versions : \A f \in Files :
                  Object(load[w].key, f) = v /\ load[w].got[f] \in {v, "absent"}
      /\ load[w].pc = "loaded" => \A f \in Files : load[w].got[f] # "absent"

\* The scripts: the cutover runs without the services and has copied what it took
\* from its plan; a publication is for S3 and commits what it verified.
ScriptOK ==
    /\ api = "down" => /\ \A r \in Requests : At(r, "idle")
                       /\ \A w \in Workers : load[w] = NoLoad
    /\ mig.pc # "idle" => api = "down" /\ backend = "local"
    /\ mig.pc = "idle" => mig.left = {}
    /\ \A k \in mig.left : row[k] = "stored"
    /\ mig.pc = "plan" => \A k \in UserKeys : row[k] = "stored" => k \in mig.left
    /\ mig.pc \in {"copy", "ok"} =>
          \A k \in UserKeys \ mig.left : row[k] = "stored" =>
              \A f \in Files : Remote(k, f) = "v1"
    /\ mig.pc = "ok" => mig.left = {}
    /\ pub.pc = "put" => backend = "s3" /\ pub.key \in BuiltinKeys
    /\ pointer \in BuiltinKeys =>
          backend = "s3" /\ \E v \in Versions : Equal(pointer, v)

PackageInvariant ==
    /\ \A r \in Requests : RequestOK(r) /\ AloneOK(r) /\ ContentOK(r)
    /\ \A k \in UserKeys : RowOK(k)
    /\ \A u \in Uploads \ dirty : LeftOK(u)
    /\ \A w \in Workers : LoadOK(w)
    /\ ScriptOK

-------------------------------------------------------------------------------
(* Type correctness.  A request that sweeps or records an upload names a user   *)
(* key, which is part of the shape above.                                       *)

\* The store's writes, object by object.
LEMMA WriteView ==
  ASSUME TypeOK, NEW k \in StoreKeys, NEW f \in Files, NEW c \in Contents, Write(k, f, c)
  PROVE  /\ objects' \in [Backends -> [StoreKeys -> [Files -> Contents]]]
         /\ objects'[backend][k][f] = c
         /\ \A b \in Backends, k2 \in StoreKeys, f2 \in Files :
               b # backend \/ k2 # k \/ f2 # f => objects'[b][k2][f2] = objects[b][k2][f2]
  BY DEF TypeOK, Write

LEMMA SweepView ==
  ASSUME TypeOK, NEW k \in StoreKeys, Swept(k) \/ SweptPartly(k)
  PROVE  /\ objects' \in [Backends -> [StoreKeys -> [Files -> Contents]]]
         /\ \A f \in Files : objects'[backend][k][f] \in {"absent", objects[backend][k][f]}
         /\ Swept(k) => \A f \in Files : objects'[backend][k][f] = "absent"
         /\ \A b \in Backends, k2 \in StoreKeys, f2 \in Files :
               b # backend \/ k2 # k => objects'[b][k2][f2] = objects[b][k2][f2]
<1>1. CASE Swept(k)
  BY <1>1 DEF TypeOK, Swept, Empty, Contents
<1>2. CASE SweptPartly(k)
  <2>1. PICK gone \in SUBSET Files :
            objects' = [objects EXCEPT ![backend][k] =
                          [f \in Files |-> IF f \in gone THEN "absent" ELSE @[f]]]
    BY <1>2 DEF SweptPartly
  <2> QED BY <2>1 DEF TypeOK, Contents, Swept, Empty
<1> QED BY <1>1, <1>2

RequestRecord == [pc : Steps, key : UserKeys \union {NoKey}, upload : Uploads \union {NoKey},
                  pending : SUBSET Staged]

\* A request's step, field by field; the other requests stand still.
Turns(r, step, k, u) ==
    /\ proc' \in [Requests -> RequestRecord]
    /\ proc'[r].pc = step /\ proc'[r].key = k /\ proc'[r].upload = u
    /\ \A s \in Requests \ {r} : proc'[s] = proc[s]

LEMMA ProcView ==
  ASSUME proc \in [Requests -> RequestRecord], NEW r \in Requests, NEW p \in RequestRecord,
         NEW step, NEW k, NEW u, p.pc = step /\ p.key = k /\ p.upload = u,
         proc' = [proc EXCEPT ![r] = p]
  PROVE  Turns(r, step, k, u)
  BY DEF Turns

LEMMA GotoView ==
  ASSUME proc \in [Requests -> RequestRecord], NEW r \in Requests, NEW step \in Steps,
         Goto(r, step)
  PROVE  Turns(r, step, proc[r].key, proc[r].upload)
<1> DEFINE p == [proc[r] EXCEPT !.pc = step]
<1>1. proc[r] \in RequestRecord
  OBVIOUS
<1>2. p \in RequestRecord /\ p.pc = step /\ p.key = proc[r].key /\ p.upload = proc[r].upload
  BY <1>1 DEF RequestRecord
<1>3. proc' = [proc EXCEPT ![r] = p]
  BY DEF Goto
<1> HIDE DEF p
<1> QED BY <1>2, <1>3, ProcView

LEMMA IdleView ==
  ASSUME proc \in [Requests -> RequestRecord], NEW r \in Requests,
         proc' = [proc EXCEPT ![r] = Idle]
  PROVE  Turns(r, "idle", NoKey, NoKey)
<1>1. Idle \in RequestRecord /\ Idle.pc = "idle" /\ Idle.key = NoKey /\ Idle.upload = NoKey
  BY DEF Idle, RequestRecord, Steps
<1> QED BY <1>1, ProcView

\* What each step of a request does to the request.
LEMMA RequestTurns ==
  ASSUME proc \in [Requests -> RequestRecord], NEW r \in Requests
  PROVE  /\ \A u \in Uploads : Submit(r, u) => Turns(r, "list", NoKey, u)
         /\ SweepList(r) => Turns(r, "sweep", proc[r].key, proc[r].upload)
         /\ SweepNext(r) => \E k \in Staged : Turns(r, "exists", k, proc[r].upload)
         /\ SweepDone(r) => Turns(r, "exists", proc[r].upload, proc[r].upload)
         /\ Adopt(r) => Turns(r, "sweep", proc[r].key, proc[r].upload)
         /\ \A k \in UserKeys : DeleteStrategy(r, k) =>
               \/ proc' = proc /\ dirty' = dirty \union ({k} \ Staged)
               \/ Turns(r, "discard", k, NoKey)
<1>1. proc[r] \in RequestRecord
  OBVIOUS
<1>2. ASSUME NEW u \in Uploads, Submit(r, u)
      PROVE  Turns(r, "list", NoKey, u)
  <2> DEFINE p == [Idle EXCEPT !.pc = "list", !.upload = u]
  <2>1. p \in RequestRecord /\ p.pc = "list" /\ p.key = NoKey /\ p.upload = u
    BY DEF Idle, RequestRecord, Steps
  <2>2. proc' = [proc EXCEPT ![r] = p]
    BY <1>2 DEF Submit
  <2> HIDE DEF p
  <2> QED BY <2>1, <2>2, ProcView
<1>3. ASSUME SweepList(r)
      PROVE  Turns(r, "sweep", proc[r].key, proc[r].upload)
  <2> DEFINE p == [proc[r] EXCEPT !.pc = "sweep", !.pending = {k \in Staged : row[k] = "staged"}]
  <2>1. /\ p \in RequestRecord /\ p.pc = "sweep" /\ p.key = proc[r].key
        /\ p.upload = proc[r].upload
    BY <1>1 DEF RequestRecord, Steps
  <2>2. proc' = [proc EXCEPT ![r] = p]
    BY <1>1, <1>3 DEF SweepList
  <2> HIDE DEF p
  <2> QED BY <2>1, <2>2, ProcView
<1>4. ASSUME SweepNext(r)
      PROVE  \E k \in Staged : Turns(r, "exists", k, proc[r].upload)
  <2>1. PICK k \in proc[r].pending :
            proc' = [proc EXCEPT ![r].pc = "exists", ![r].key = k, ![r].pending = @ \ {k}]
    BY <1>4 DEF SweepNext
  <2> DEFINE p == [proc[r] EXCEPT !.pc = "exists", !.key = k, !.pending = @ \ {k}]
  <2>2. k \in Staged /\ p \in RequestRecord /\ p.pc = "exists" /\ p.key = k
        /\ p.upload = proc[r].upload
    BY <1>1, <2>1 DEF UserKeys, RequestRecord, Steps
  <2>3. proc' = [proc EXCEPT ![r] = p]
    BY <1>1, <2>1
  <2> HIDE DEF p
  <2> QED BY <2>2, <2>3, ProcView
<1>5. ASSUME SweepDone(r)
      PROVE  Turns(r, "exists", proc[r].upload, proc[r].upload)
  <2> DEFINE p == [proc[r] EXCEPT !.pc = "exists", !.key = proc[r].upload]
  <2>1. p \in RequestRecord /\ p.pc = "exists" /\ p.key = proc[r].upload
        /\ p.upload = proc[r].upload
    BY <1>1 DEF UserKeys, RequestRecord, Steps
  <2>2. proc' = [proc EXCEPT ![r] = p]
    BY <1>1, <1>5 DEF SweepDone
  <2> HIDE DEF p
  <2> QED BY <2>1, <2>2, ProcView
<1>6. Adopt(r) => Turns(r, "sweep", proc[r].key, proc[r].upload)
  BY GotoView DEF Adopt, Steps
<1>7. ASSUME NEW k \in UserKeys, DeleteStrategy(r, k)
      PROVE  \/ proc' = proc /\ dirty' = dirty \union ({k} \ Staged)
             \/ Turns(r, "discard", k, NoKey)
  <2> DEFINE p == [Idle EXCEPT !.pc = "discard", !.key = k]
  <2>1. p \in RequestRecord /\ p.pc = "discard" /\ p.key = k /\ p.upload = NoKey
    BY DEF Idle, RequestRecord, Steps
  <2>2. \/ proc' = proc /\ dirty' = dirty \union ({k} \ Staged)
        \/ proc' = [proc EXCEPT ![r] = p]
    BY <1>7 DEF DeleteStrategy
  <2> HIDE DEF p
  <2> QED BY <2>1, <2>2, ProcView
<1> QED BY <1>2, <1>3, <1>4, <1>5, <1>6, <1>7

LEMMA StoredView ==
  ASSUME proc \in [Requests -> RequestRecord], NEW r \in Requests, Stored(r)
  PROVE  /\ Sweeping(r) => Turns(r, "adopt", proc[r].key, proc[r].upload)
         /\ ~Sweeping(r) => Turns(r, "create", proc[r].key, proc[r].upload)
         /\ loop' = IF loop = r THEN Free ELSE loop
  BY GotoView DEF Stored, Steps

LEMMA StoreFailedView ==
  ASSUME proc \in [Requests -> RequestRecord], NEW r \in Requests, StoreFailed(r)
  PROVE  /\ Sweeping(r) => Turns(r, "sweep", proc[r].key, proc[r].upload)
         /\ ~Sweeping(r) => Turns(r, "idle", NoKey, NoKey)
         /\ loop' = IF loop = r THEN Free ELSE loop
  BY GotoView, IdleView DEF StoreFailed, Steps

\* A step of the store call, by where it stands: what it does to the request and
\* to the objects under its key.
StoreEffect(r, f, here, writing) ==
    /\ At(r, here) \/ At(r, writing)
    /\ \/ /\ At(r, here) /\ backend = "local"
          /\ Write(proc[r].key, f, "torn")
          /\ Turns(r, writing, proc[r].key, proc[r].upload) /\ loop' = loop
       \/ /\ At(r, writing) \/ backend = "s3"
          /\ Write(proc[r].key, f, "v1")
          /\ f = "source" => Turns(r, "put_config", proc[r].key, proc[r].upload) /\ loop' = loop
          /\ f # "source" => Stored(r)
       \/ /\ objects' = objects \/ (At(r, here) /\ backend = "s3" /\ Write(proc[r].key, f, "v1"))
          /\ Turns(r, "cleanup", proc[r].key, proc[r].upload) /\ loop' = loop
    /\ UNCHANGED <<backend, rowVars, used, load, scriptVars, dirty>>

LEMMA PutView ==
  ASSUME proc \in [Requests -> RequestRecord], NEW r \in Requests, NEW f \in Files,
         NEW here \in Steps, NEW writing \in Steps, 
         StorePut(r, f, here, writing) \/ StoreWrite(r, f, writing)
  PROVE  StoreEffect(r, f, here, writing)
<1> "put_config" \in Steps /\ "cleanup" \in Steps
  BY DEF Steps
<1>1. CASE StorePut(r, f, here, writing)
  BY <1>1, GotoView DEF StorePut, StoreEffect, PutDone
<1>2. CASE StoreWrite(r, f, writing)
  BY <1>2, GotoView DEF StoreWrite, StoreEffect, PutDone
<1> QED BY <1>1, <1>2

LEMMA StoreTurns ==
  ASSUME proc \in [Requests -> RequestRecord], NEW r \in Requests
  PROVE  /\ StoreExists(r) => Turns(r, IF Exist(proc[r].key) THEN "compare" ELSE "put_source",
                                    proc[r].key, proc[r].upload)
         /\ Create(r) => \/ Turns(r, "idle", NoKey, NoKey)
                         \/ Turns(r, "verify", proc[r].key, proc[r].upload)
         /\ Verify(r) => \/ Turns(r, "idle", NoKey, NoKey)
                         \/ /\ Turns(r, "discard", proc[r].key, proc[r].upload)
                            /\ row[proc[r].key] = "absent"
         /\ Discard(r) => Turns(r, "idle", NoKey, NoKey)
<1> {"compare", "put_source", "verify", "discard"} \subseteq Steps
  BY DEF Steps
<1>1. StoreExists(r) => Turns(r, IF Exist(proc[r].key) THEN "compare" ELSE "put_source",
                              proc[r].key, proc[r].upload)
  BY GotoView DEF StoreExists
<1>2. Create(r) => \/ Turns(r, "idle", NoKey, NoKey)
                   \/ Turns(r, "verify", proc[r].key, proc[r].upload)
  BY GotoView, IdleView DEF Create
<1>3. Verify(r) => \/ Turns(r, "idle", NoKey, NoKey)
                   \/ /\ Turns(r, "discard", proc[r].key, proc[r].upload)
                      /\ row[proc[r].key] = "absent"
  BY GotoView, IdleView DEF Verify
<1>4. Discard(r) => Turns(r, "idle", NoKey, NoKey)
  BY IdleView DEF Discard
<1> QED BY <1>1, <1>2, <1>3, <1>4

RequestAction(r) ==
    \/ \E u \in Uploads : Submit(r, u)
    \/ SweepList(r) \/ SweepNext(r) \/ SweepDone(r) \/ StoreStep(r)
    \/ Adopt(r) \/ Create(r) \/ Verify(r) \/ Discard(r)
    \/ \E k \in UserKeys : DeleteStrategy(r, k)

LEMMA RequestType ==
  ASSUME TypeOK, NEW r \in Requests, RequestOK(r), RequestAction(r)
  PROVE  TypeOK'
<1>1. proc \in [Requests -> RequestRecord]
  BY DEF TypeOK, RequestRecord
<1>2. /\ At(r, "create") \/ At(r, "verify") \/ At(r, "discard") \/ proc[r].pc \in InStore
           => proc[r].key \in UserKeys /\ proc[r].key \in StoreKeys
      /\ proc[r].key \in UserKeys => {proc[r].key} \ Staged \subseteq Uploads
  <2>1. proc[r].upload # NoKey => proc[r].upload \in Uploads
    BY <1>1 DEF RequestRecord
  <2> QED BY <2>1 DEF RequestOK, UserKeys, StoreKeys, At, InStore
<1> USE <1>1 DEF RequestRecord, Turns, storeVars, rowVars, scriptVars
<1>3. ASSUME NEW u \in Uploads, Submit(r, u)
      PROVE  TypeOK'
  BY <1>3, RequestTurns DEF Submit, TypeOK
<1>4. CASE SweepList(r) \/ SweepNext(r) \/ SweepDone(r)
  BY <1>4, RequestTurns DEF SweepList, SweepNext, SweepDone, TypeOK
<1>5. CASE Adopt(r)
  BY <1>5, RequestTurns DEF Adopt, TypeOK
<1>6. CASE Create(r)
  BY <1>2, <1>6, StoreTurns DEF Create, TypeOK
<1>7. CASE Verify(r)
  BY <1>2, <1>7, StoreTurns DEF Verify, TypeOK
<1>8. CASE Discard(r)
  BY <1>2, <1>8, StoreTurns, SweepView DEF Discard, TypeOK
<1>9. ASSUME NEW k \in UserKeys, DeleteStrategy(r, k)
      PROVE  TypeOK'
  BY <1>9, RequestTurns DEF DeleteStrategy, TypeOK, UserKeys
<1>10. CASE StoreStep(r)
  <2>1. ASSUME NEW f \in Files, NEW here \in Steps, NEW writing \in Steps,
               here \in InStore, writing \in InStore,
               StorePut(r, f, here, writing) \/ StoreWrite(r, f, writing)
        PROVE  TypeOK'
    BY <1>2, <2>1, PutView, WriteView, StoredView DEF StoreEffect, TypeOK, Contents, Versions, At
  <2>2. CASE StoreExists(r)
    BY <2>2, StoreTurns DEF StoreExists, TypeOK
  <2>3. CASE StoreCompare(r)
    BY <2>3, StoredView, StoreFailedView DEF StoreCompare, TypeOK
  <2>4. CASE StoreCleanup(r)
    BY <1>2, <2>4, StoreFailedView, SweepView DEF StoreCleanup, TypeOK, At, InStore
  <2>5. {"put_source", "write_source", "put_config", "write_config"} \subseteq Steps \intersect InStore
    BY DEF Steps, InStore
  <2> QED BY <1>10, <2>1, <2>2, <2>3, <2>4, <2>5 DEF StoreStep, Files
<1> QED BY <1>3, <1>4, <1>5, <1>6, <1>7, <1>8, <1>9, <1>10 DEF RequestAction

LEMMA LoadType ==
  ASSUME TypeOK, \A w \in Workers : LoadOK(w), LoadStep
  PROVE  TypeOK'
<1> DEFINE Loads == [pc : {"idle", "listing", "copying", "loaded"},
                     key : StoreKeys \union {NoKey}, listed : SUBSET Files,
                     got : [Files -> Contents]]
<1>1. load \in [Workers -> Loads]
  BY DEF TypeOK
<1>2. NoLoad \in Loads
  BY DEF NoLoad, Empty, Contents
<1>3. PICK w \in Workers : \/ \E k \in StoreKeys : LoadStart(w, k)
                           \/ LoadList(w) \/ LoadDone(w)
                           \/ \E f \in Files : LoadCopy(w, f)
  BY DEF LoadStep
<1>4. load' \in [Workers -> Loads]
  <2>1. ASSUME NEW k \in StoreKeys, LoadStart(w, k)
        PROVE  load' \in [Workers -> Loads]
    <3>1. [NoLoad EXCEPT !.pc = "listing", !.key = k] \in Loads
      BY DEF NoLoad, Empty, Contents
    <3> QED BY <1>1, <2>1, <3>1 DEF LoadStart
  <2>2. CASE LoadList(w)
    <3>1. [load[w] EXCEPT !.pc = "copying", !.listed = Listed(load[w].key)] \in Loads
      BY <1>1 DEF Listed
    <3> QED BY <1>1, <1>2, <2>2, <3>1 DEF LoadList
  <2>3. CASE LoadDone(w)
    <3>1. [load[w] EXCEPT !.pc = "loaded"] \in Loads
      BY <1>1
    <3> QED BY <1>1, <1>2, <2>3, <3>1 DEF LoadDone
  <2>4. ASSUME NEW f \in Files, LoadCopy(w, f)
        PROVE  load' \in [Workers -> Loads]
    <3>1. load[w].key \in StoreKeys
      BY <1>1, <2>4 DEF LoadCopy, LoadOK
    <3>2. Object(load[w].key, f) \in Contents
      BY <3>1 DEF TypeOK, Object
    <3>3. [load[w] EXCEPT !.listed = @ \ {f}, !.got[f] = Object(load[w].key, f)] \in Loads
      BY <1>1, <3>2
    <3>4. \/ load' = [load EXCEPT ![w] = NoLoad]
          \/ load' = [load EXCEPT ![w] = [load[w] EXCEPT !.listed = @ \ {f},
                                                        !.got[f] = Object(load[w].key, f)]]
      BY <1>1, <2>4 DEF LoadCopy
    <3> HIDE DEF Loads
    <3> QED BY <1>1, <1>2, <3>3, <3>4
  <2> QED BY <1>3, <2>1, <2>2, <2>3, <2>4
<1> QED BY <1>3, <1>4 DEF TypeOK, LoadStart, LoadList, LoadDone, LoadCopy, storeVars, rowVars,
           procVars, scriptVars

LEMMA RemoteView ==
  ASSUME TypeOK, NEW k \in StoreKeys, NEW f \in Files, NEW c \in Contents,
         objects' = [objects EXCEPT !["s3"][k][f] = c]
  PROVE  /\ objects' \in [Backends -> [StoreKeys -> [Files -> Contents]]]
         /\ objects'["s3"][k][f] = c
         /\ \A b \in Backends, k2 \in StoreKeys, f2 \in Files :
               b # "s3" \/ k2 # k \/ f2 # f => objects'[b][k2][f2] = objects[b][k2][f2]
  BY DEF TypeOK, Backends

\* What a step of the cutover or of a publication makes of its own state.
LEMMA ScriptTypes ==
  ASSUME TypeOK
  PROVE  /\ NoScript \in [pc : {"idle", "plan", "copy", "ok"}, key : {NoKey},
                          left : SUBSET UserKeys]
         /\ NoScript \in [pc : {"idle", "put"}, key : BuiltinKeys \union {NoKey},
                          left : SUBSET Files]
         /\ \A keys \in SUBSET UserKeys :
               [NoScript EXCEPT !.pc = "plan", !.left = keys]
                  \in [pc : {"idle", "plan", "copy", "ok"}, key : {NoKey}, left : SUBSET UserKeys]
         /\ \A step \in {"copy", "ok"} :
               [mig EXCEPT !.pc = step]
                  \in [pc : {"idle", "plan", "copy", "ok"}, key : {NoKey}, left : SUBSET UserKeys]
         /\ \A k : [mig EXCEPT !.left = @ \ {k}]
                  \in [pc : {"idle", "plan", "copy", "ok"}, key : {NoKey}, left : SUBSET UserKeys]
         /\ \A f : [pub EXCEPT !.left = @ \ {f}]
                  \in [pc : {"idle", "put"}, key : BuiltinKeys \union {NoKey}, left : SUBSET Files]
  BY DEF TypeOK, NoScript

LEMMA MigrateType ==
  ASSUME TypeOK, Migrate
  PROVE  TypeOK'
<1> USE DEF TypeOK, storeVars, rowVars, procVars
<1>1. CASE MigrateInventory \/ MigratePlan \/ MigrateExit \/ MigrateDies
  <2>1. {k \in UserKeys : row[k] = "stored"} \in SUBSET UserKeys
    OBVIOUS
  <2>2. mig' \in [pc : {"idle", "plan", "copy", "ok"}, key : {NoKey}, left : SUBSET UserKeys]
    BY <1>1, <2>1, ScriptTypes DEF MigrateInventory, MigratePlan, MigrateExit, MigrateDies
  <2> QED BY <1>1, <2>2 DEF MigrateInventory, MigratePlan, MigrateExit, MigrateDies
<1>2. CASE Switch
  BY <1>2, ScriptTypes DEF Switch, Backends
<1>3. ASSUME NEW k \in UserKeys, MigrateVerify(k)
      PROVE  TypeOK'
  BY <1>3, ScriptTypes DEF MigrateVerify
<1>4. ASSUME NEW k \in UserKeys, NEW f \in Files, MigrateCopy(k, f)
      PROVE  TypeOK'
  <2>1. k \in StoreKeys /\ Local(k, f) \in Contents /\ {k} \ Staged \subseteq Uploads
    BY DEF StoreKeys, UserKeys, Local, Backends
  <2>2. objects' \in [Backends -> [StoreKeys -> [Files -> Contents]]]
    <3>1. \/ objects' = [objects EXCEPT !["s3"][k][f] = Local(k, f)]
          \/ objects' = objects
      BY <1>4 DEF MigrateCopy
    <3> HIDE DEF TypeOK
    <3>2. CASE objects' = objects
      BY <3>2 DEF TypeOK
    <3> QED BY <2>1, <3>1, <3>2, RemoteView
  <2>3. mig' \in [pc : {"idle", "plan", "copy", "ok"}, key : {NoKey}, left : SUBSET UserKeys]
    BY <1>4, ScriptTypes DEF MigrateCopy
  <2> QED BY <1>4, <2>1, <2>2, <2>3 DEF MigrateCopy
<1> QED BY <1>1, <1>2, <1>3, <1>4 DEF Migrate

LEMMA PublishType ==
  ASSUME TypeOK, ScriptOK, ScriptStep, ~Migrate
  PROVE  TypeOK'
<1> USE DEF TypeOK, storeVars, rowVars, procVars, scriptVars
<1>1. ASSUME NEW revision \in BOOLEAN, PublishPlan(revision)
      PROVE  TypeOK'
  <2>1. (IF revision THEN vendored ELSE "base") \in BuiltinKeys
    BY DEF BuiltinKeys
  <2>2. pub' \in [pc : {"idle", "put"}, key : BuiltinKeys \union {NoKey}, left : SUBSET Files]
    BY <1>1, <2>1 DEF PublishPlan
  <2> QED BY <1>1, <2>2 DEF PublishPlan
<1>2. ASSUME NEW f \in Files, PublishPut(f)
      PROVE  TypeOK'
  <2>1. pub.key \in StoreKeys /\ vendored \in Contents
    BY <1>2 DEF PublishPut, ScriptOK, StoreKeys, Contents
  <2>2. objects' \in [Backends -> [StoreKeys -> [Files -> Contents]]]
    <3>1. \/ objects' = [objects EXCEPT !["s3"][pub.key][f] = vendored]
          \/ objects' = objects
      BY <1>2 DEF PublishPut
    <3> HIDE DEF TypeOK
    <3>2. CASE objects' = objects
      BY <3>2 DEF TypeOK
    <3> QED BY <2>1, <3>1, <3>2, RemoteView
  <2>3. pub' \in [pc : {"idle", "put"}, key : BuiltinKeys \union {NoKey}, left : SUBSET Files]
    BY <1>2, ScriptTypes DEF PublishPut
  <2> QED BY <1>2, <2>2, <2>3 DEF PublishPut
<1>3. CASE PublishCommit \/ PublishDies
  <2>1. pointer' \in {"absent", "none"} \union BuiltinKeys
    BY <1>3 DEF PublishCommit, PublishDies, ScriptOK
  <2> QED BY <1>3, <2>1, ScriptTypes DEF PublishCommit, PublishDies
<1>4. CASE Seed \/ Deploy
  BY <1>4 DEF Seed, Deploy, Versions
<1>5. ASSUME NEW k \in UserKeys, Claim(k)
      PROVE  TypeOK'
  BY <1>5 DEF Claim
<1> QED BY <1>1, <1>2, <1>3, <1>4, <1>5 DEF ScriptStep

LEMMA TypeKept ==
  ASSUME TypeOK, PackageInvariant, [Next]_vars
  PROVE  TypeOK'
<1>1. CASE RequestStep
  BY <1>1, RequestType DEF RequestStep, RequestAction, PackageInvariant
<1>2. CASE LoadStep
  BY <1>2, LoadType DEF PackageInvariant
<1>3. CASE Crash \/ StopApi
  <2>1. Idle \in RequestRecord
    BY DEF Idle, RequestRecord, Steps
  <2>2. NoLoad \in [pc : {"idle", "listing", "copying", "loaded"},
                    key : StoreKeys \union {NoKey}, listed : SUBSET Files,
                    got : [Files -> Contents]]
    BY DEF NoLoad, Empty, Contents
  <2>3. Busy \ Staged \subseteq Uploads
    BY DEF Busy, UserKeys
  <2> QED BY <1>3, <2>1, <2>2, <2>3 DEF Crash, StopApi, Halt, TypeOK, RequestRecord, storeVars,
             rowVars
<1>4. CASE StartApi
  BY <1>4, ScriptTypes DEF StartApi, TypeOK, storeVars, rowVars, procVars
<1>5. CASE ScriptStep
  BY <1>5, MigrateType, PublishType DEF PackageInvariant
<1>6. CASE UNCHANGED vars
  BY <1>6 DEF TypeOK, vars, storeVars, rowVars, procVars, scriptVars
<1> QED BY <1>1, <1>2, <1>3, <1>4, <1>5, <1>6 DEF Next

-------------------------------------------------------------------------------
(* What a request's step may touch.                                         *)

\* Objects change under the request's own key only: while it stores, or because
\* it discards them.
ObjectsMove(r) ==
    \A b \in Backends, k \in StoreKeys, f \in Files :
        objects'[b][k][f] # objects[b][k][f] =>
            /\ b = backend /\ k = proc[r].key
            /\ proc[r].pc \in Writing \/ (At(r, "discard") /\ objects'[b][k][f] = "absent")

\* A row disappears, is adopted by a request that owns the loop, or is created.
RowsMove(r) ==
    \A k \in UserKeys : row'[k] # row[k] =>
        \/ row'[k] = "absent" /\ At(r, "idle")
        \/ /\ row'[k] = "stored" /\ k = proc[r].key
           /\ \/ At(r, "create") /\ proc'[r].pc \notin Early
              \/ At(r, "adopt") /\ row[k] # "absent" /\ loop = Free

\* The request keeps its upload until it is over, and takes a key that is staged,
\* its own, or that of a row it deleted; it discards only under an absent row.
KeysMove(r) ==
    /\ proc' \in [Requests -> RequestRecord]
    /\ \A s \in Requests \ {r} : proc'[s] = proc[s] /\ (loop' = s <=> loop = s)
    /\ \/ /\ proc'[r].upload \in {proc[r].upload, NoKey}
          /\ proc'[r].pc \in Early =>
                proc[r].pc \in Early /\ proc'[r].upload = proc[r].upload
       \/ /\ \E u \in Uploads : Submit(r, u)
          /\ proc'[r].upload \in Uploads \ used /\ proc'[r].pc = "list" /\ proc'[r].key = NoKey
    /\ proc'[r].pc = "discard" => row'[proc'[r].key] = "absent"
    /\ \/ proc'[r].key \in {proc[r].key, proc[r].upload, NoKey} \union Staged
       \/ proc'[r].key \in UserKeys /\ row[proc'[r].key] # "absent"
    /\ proc'[r].pc = "adopt" =>
          \/ proc'[r] = proc[r]
          \/ proc[r].pc \in InStore /\ proc[r].key \in Staged /\ proc'[r].key = proc[r].key

RequestMoves(r) ==
    /\ ObjectsMove(r) /\ RowsMove(r) /\ KeysMove(r)
    /\ api = "up" /\ used \subseteq used' /\ dirty \subseteq dirty'
    /\ UNCHANGED <<backend, pointer, load, scriptVars>>

LEMMA StoreMoves ==
  ASSUME TypeOK, NEW r \in Requests, RequestOK(r), ScriptOK, StoreStep(r)
  PROVE  RequestMoves(r)
<1>1. proc \in [Requests -> RequestRecord] /\ Free \notin Requests
  BY KeysAssumption DEF TypeOK, RequestRecord
<1>2. /\ proc[r].pc \in InStore => proc[r].key \in StoreKeys
      /\ api = "up" \/ At(r, "idle")
  <2>1. proc[r].upload # NoKey => proc[r].upload \in Uploads
    BY <1>1 DEF RequestRecord
  <2>2. api \in {"up", "down"}
    BY DEF TypeOK
  <2> QED BY <2>1, <2>2 DEF RequestOK, ScriptOK, StoreKeys, UserKeys, InStore
<1> USE <1>1 DEF At, Turns, RequestMoves, KeysMove, Early, InStore, rowVars, storeVars
<1>3. ASSUME UNCHANGED <<objects, row>>
      PROVE  ObjectsMove(r) /\ RowsMove(r)
  BY <1>3 DEF ObjectsMove, RowsMove
<1>4. CASE StoreExists(r)
  BY <1>2, <1>3, <1>4, StoreTurns DEF StoreExists
<1>5. CASE StoreCompare(r)
  <2>1. Stored(r) \/ StoreFailed(r)
    BY <1>5 DEF StoreCompare
  <2>2. proc[r].pc \in InStore
    BY <1>5 DEF StoreCompare, InStore
  <2> QED BY <1>2, <1>3, <1>5, <2>1, <2>2, StoredView, StoreFailedView DEF StoreCompare, Sweeping
<1>6. CASE StoreCleanup(r)
  <2>1. proc[r].pc \in InStore /\ proc[r].pc \in Writing
    BY <1>6 DEF StoreCleanup, InStore, Writing
  <2>2. ObjectsMove(r) /\ RowsMove(r)
    BY <1>2, <1>6, <2>1, SweepView DEF StoreCleanup, ObjectsMove, RowsMove
  <2>3. KeysMove(r)
    BY <1>6, <2>1, StoreFailedView DEF StoreCleanup
  <2> QED BY <1>2, <1>6, <2>1, <2>2, <2>3 DEF StoreCleanup
<1>7. ASSUME NEW f \in Files, NEW here \in Steps, NEW writing \in Steps,
             here \in Writing, writing \in Writing,
             StorePut(r, f, here, writing) \/ StoreWrite(r, f, writing)
      PROVE  RequestMoves(r)
  <2>1. StoreEffect(r, f, here, writing)
    BY <1>7, PutView
  <2>2. proc[r].pc \in InStore /\ proc[r].pc \in Writing
    BY <1>7, <2>1 DEF StoreEffect, Writing
  <2>3. ObjectsMove(r) /\ RowsMove(r)
    <3>1. objects' = objects \/ \E c \in Contents : Write(proc[r].key, f, c)
      BY <2>1 DEF StoreEffect, Contents, Versions
    <3> QED BY <1>2, <2>1, <2>2, <3>1, WriteView DEF StoreEffect, ObjectsMove, RowsMove
  <2>4. KeysMove(r)
    BY <1>7, <2>1, <2>2, StoredView DEF StoreEffect, Sweeping, Writing, InStore
  <2> QED BY <1>2, <2>1, <2>2, <2>3, <2>4 DEF StoreEffect, Writing, InStore
<1>8. {"put_source", "write_source", "put_config", "write_config"} \subseteq Steps \intersect Writing
  BY DEF Steps, InStore, Writing
<1> QED BY <1>4, <1>5, <1>6, <1>7, <1>8 DEF StoreStep, Files

LEMMA EveryRequestMoves ==
  ASSUME TypeOK, NEW r \in Requests, RequestOK(r), ScriptOK, RequestAction(r)
  PROVE  RequestMoves(r)
<1>1. proc \in [Requests -> RequestRecord] /\ Free \notin Requests
  BY KeysAssumption DEF TypeOK, RequestRecord
<1>2. api = "up" \/ At(r, "idle")
  BY DEF TypeOK, ScriptOK
<1> USE <1>1 DEF At, Turns, RequestMoves, KeysMove, Early, InStore, rowVars, storeVars, OnLoop
<1>3. ASSUME UNCHANGED <<objects, row>>
      PROVE  ObjectsMove(r) /\ RowsMove(r)
  BY <1>3 DEF ObjectsMove, RowsMove
<1>4. ASSUME NEW u \in Uploads, Submit(r, u)
      PROVE  RequestMoves(r)
  BY <1>3, <1>4, RequestTurns DEF Submit
<1>5. CASE SweepList(r) \/ SweepDone(r)
  BY <1>3, <1>5, RequestTurns DEF SweepList, SweepDone
<1>6. CASE SweepNext(r)
  BY <1>3, <1>6, RequestTurns DEF SweepNext
<1>7. CASE Adopt(r)
  <2>1. ObjectsMove(r) /\ RowsMove(r)
    BY <1>7 DEF Adopt, ObjectsMove, RowsMove, TypeOK
  <2> QED BY <1>7, <2>1, RequestTurns DEF Adopt
<1>8. CASE Create(r)
  <2>1. ObjectsMove(r) /\ RowsMove(r)
    BY <1>8, StoreTurns DEF Create, ObjectsMove, RowsMove, TypeOK
  <2> QED BY <1>8, <2>1, StoreTurns DEF Create
<1>9. CASE Verify(r)
  BY <1>2, <1>3, <1>9, StoreTurns DEF Verify
<1>10. CASE Discard(r)
  <2>1. proc[r].key \in StoreKeys
    BY <1>10 DEF Discard, RequestOK, StoreKeys
  <2>2. ObjectsMove(r) /\ RowsMove(r)
    BY <1>10, <2>1, SweepView DEF Discard, ObjectsMove, RowsMove
  <2> QED BY <1>2, <1>10, <2>2, StoreTurns DEF Discard
<1>11. ASSUME NEW k \in UserKeys, DeleteStrategy(r, k)
       PROVE  RequestMoves(r)
  <2>1. ObjectsMove(r) /\ RowsMove(r)
    BY <1>11 DEF DeleteStrategy, ObjectsMove, RowsMove, TypeOK
  <2>2. /\ proc' = proc \/ Turns(r, "discard", k, NoKey)
        /\ At(r, "idle") /\ row[k] # "absent" /\ row'[k] = "absent" /\ loop' = loop
    BY <1>11, RequestTurns DEF DeleteStrategy, TypeOK
  <2>3. KeysMove(r)
    BY <2>2
  <2> QED BY <1>11, <2>1, <2>3 DEF DeleteStrategy
<1> QED BY <1>4, <1>5, <1>6, <1>7, <1>8, <1>9, <1>10, <1>11, StoreMoves DEF RequestAction

-------------------------------------------------------------------------------
(* A request's step and the other requests.                                 *)

\* Two requests never store under one key: the sweep holds the loop, and an upload
\* has one request.
LEMMA StoresAlone ==
  ASSUME TypeOK, PackageInvariant, NEW r \in Requests, NEW s \in Requests, s # r,
         proc[r].pc \in InStore, proc[s].pc \in InStore
  PROVE  proc[r].key # proc[s].key
<1> RequestOK(r) /\ RequestOK(s) /\ AloneOK(s)
  BY DEF PackageInvariant
<1>1. proc[s].upload \in Uploads /\ proc[r].upload \in Uploads
  BY DEF TypeOK, RequestOK, At, InStore
<1> QED BY <1>1, KeysAssumption DEF RequestOK, AloneOK, Early

LEMMA OthersKept ==
  ASSUME TypeOK, PackageInvariant, NEW r \in Requests, RequestMoves(r),
         NEW s \in Requests, s # r
  PROVE  RequestOK(s)' /\ AloneOK(s)' /\ ContentOK(s)'
<1> /\ RequestOK(r) /\ AloneOK(r) /\ ContentOK(r)
    /\ RequestOK(s) /\ AloneOK(s) /\ ContentOK(s)
    /\ \A k \in UserKeys : RowOK(k)
  BY DEF PackageInvariant
<1>1. /\ proc'[s] = proc[s] /\ (loop' = s <=> loop = s)
      /\ used \subseteq used' /\ load' = load /\ backend' = backend
  BY DEF RequestMoves, KeysMove
<1>2. RequestOK(s)'
  BY <1>1 DEF RequestOK, At
<1>3. /\ proc[r].upload # NoKey => proc[r].upload \in Uploads
      /\ proc[s].upload # NoKey => proc[s].upload \in Uploads
      /\ proc[s].pc \in Early => proc[s].upload \in Uploads
  BY DEF TypeOK, RequestOK, At, Early, InStore
<1>4. AloneOK(s)'
  <2>1. proc'[s].upload = proc'[r].upload => proc'[s].upload = NoKey
    BY <1>1, <1>3 DEF AloneOK, RequestOK, RequestMoves, KeysMove
  <2>2. proc[s].pc \in Early => row'[proc[s].upload] = "absent"
    BY <1>3 DEF AloneOK, RequestMoves, RowsMove, RequestOK, At, UserKeys
  <2>3. proc[s].pc \in Early => proc'[r].key # proc[s].upload
    BY <1>3, KeysAssumption DEF AloneOK, RequestMoves, KeysMove, UserKeys
  <2>4. ASSUME At(s, "discard")
        PROVE  row'[proc[s].key] = "absent"
    <3>1. proc[s].key \in UserKeys /\ row[proc[s].key] = "absent"
      BY <2>4 DEF RequestOK, AloneOK
    <3>2. ~(At(r, "create") /\ proc[r].key = proc[s].key)
      BY DEF At, Early, RequestOK, AloneOK
    <3> QED BY <3>1, <3>2 DEF RequestMoves, RowsMove
  <2>5. \A t \in Requests \ {s} : t # r => proc'[t] = proc[t]
    BY DEF RequestMoves, KeysMove
  <2> QED BY <1>1, <2>1, <2>2, <2>3, <2>4, <2>5 DEF AloneOK, At
<1>5. ContentOK(s)'
  <2>1. \A k \in StoreKeys, f \in Files : k # proc[r].key => Object(k, f)' = Object(k, f)
    BY <1>1 DEF Object, RequestMoves, ObjectsMove, TypeOK
  <2>2. proc[s].pc \in Early => proc[s].upload # proc[r].key /\ proc[s].upload \in StoreKeys
    BY <1>3 DEF AloneOK, StoreKeys, UserKeys
  <2>3. proc[s].pc \in InStore => /\ proc[s].key \in UserKeys /\ proc[s].key \in StoreKeys
                                 /\ proc[s].pc \in Early
    BY <1>3 DEF RequestOK, StoreKeys, UserKeys, Early
  \* Under the key of s the step can only have discarded objects.
  <2>4. ASSUME proc[s].pc \in InStore, NEW f \in Files
        PROVE  /\ Object(proc[s].key, f)' \in {Object(proc[s].key, f), "absent"}
               /\ proc[s].key \in Uploads \/ row[proc[s].key] # "absent" =>
                     Object(proc[s].key, f)' = Object(proc[s].key, f)
    <3>1. CASE proc[s].key # proc[r].key
      BY <1>1, <2>1, <2>3, <2>4, <3>1
    <3>2. CASE proc[s].key = proc[r].key
      <4>1. proc[r].pc \notin InStore
        BY <2>4, <3>2, StoresAlone
      <4>2. Object(proc[s].key, f)' # Object(proc[s].key, f) =>
                At(r, "discard") /\ Object(proc[s].key, f)' = "absent"
        BY <1>1, <2>3, <2>4, <4>1 DEF Object, RequestMoves, ObjectsMove, Writing, TypeOK
      <4>3. At(r, "discard") => row[proc[s].key] = "absent" /\ proc[s].key \notin Uploads
        BY <1>3, <2>2, <2>3, <2>4, <3>2, KeysAssumption DEF AloneOK, RequestOK
      <4> QED BY <4>2, <4>3
    <3> QED BY <3>1, <3>2
  \* Nobody adopts or creates its row.
  <2>5. ASSUME proc[s].pc \in InStore, row'[proc[s].key] # row[proc[s].key]
        PROVE  row'[proc[s].key] = "absent"
    <3>1. ~(At(r, "create") /\ proc[r].key = proc[s].key)
      BY <1>3, <2>2, <2>3, <2>5, KeysAssumption DEF RequestOK, AloneOK, At, Early
    <3>2. loop = Free => proc[s].key \notin Staged
      BY <2>5, KeysAssumption DEF RequestOK
    <3>3. At(r, "adopt") => proc[r].key \in Staged
      BY DEF RequestOK
    <3> QED BY <2>3, <2>5, <3>1, <3>2, <3>3 DEF RequestMoves, RowsMove
  <2>6. proc[s].pc \in Writing => row'[proc[s].key] # "stored"
    BY <2>5 DEF ContentOK, Writing
  <2>7. ASSUME proc[s].pc \in Writing, row'[proc[s].key] # "absent", At(r, "adopt")'
        PROVE  proc'[r].key # proc[s].key
    <3>1. row[proc[s].key] # "absent" /\ proc[s].pc \in InStore
      BY <2>5, <2>7 DEF Writing
    <3>2. CASE proc'[r] = proc[r]
      BY <2>7, <3>1, <3>2 DEF At, ContentOK
    <3>3. CASE proc[r].pc \in InStore /\ proc'[r].key = proc[r].key
      BY <3>1, <3>3, StoresAlone
    <3> QED BY <2>7, <3>2, <3>3 DEF RequestMoves, KeysMove, At
  <2>8. At(s, "create") => Equal(proc[s].key, "v1")'
    BY <1>1, <2>1, <2>2 DEF ContentOK, Equal, RequestOK, At, Early
  <2>9. ASSUME At(s, "adopt"), row'[proc[s].key] # "absent"
        PROVE  Equal(proc[s].key, "v1")'
    <3>1. proc[s].key \in Staged /\ proc[s].key \in StoreKeys
      BY <2>9 DEF RequestOK, StoreKeys, UserKeys
    <3>2. row[proc[s].key] # "absent"
      BY <1>3, <2>9, <3>1, KeysAssumption DEF RequestMoves, RowsMove, UserKeys, RequestOK, At
    <3>3. Equal(proc[s].key, "v1")
      BY <2>9, <3>2 DEF ContentOK
    <3>4. proc[r].key = proc[s].key => ~(proc[r].pc \in Writing) /\ ~At(r, "discard")
      BY <2>9, <3>2 DEF ContentOK, AloneOK
    <3>5. \A f \in Files : Object(proc[s].key, f)' = Object(proc[s].key, f)
      BY <1>1, <3>1, <3>4 DEF Object, RequestMoves, ObjectsMove, TypeOK
    <3> QED BY <3>3, <3>5 DEF Equal
  <2>10. proc[s].pc \in Early /\ (proc[s].key # proc[s].upload \/ At(s, "exists")) =>
            \A f \in Files : Object(proc[s].upload, f)' = "absent"
    BY <1>1, <2>1, <2>2 DEF ContentOK
  <2>11. \A t \in Requests : At(t, "adopt")' /\ t # r => At(t, "adopt") /\ proc'[t] = proc[t]
    BY DEF RequestMoves, KeysMove, At
  <2>12. proc[s].pc \in Writing => proc[s].pc \in InStore
    BY DEF Writing
  <2>13. /\ "source" \in Files /\ "config" \in Files
         /\ \A step : At(s, step)' = At(s, step)
         /\ At(s, "put_source") \/ At(s, "write_source") \/ At(s, "put_config")
              \/ At(s, "write_config") => proc[s].pc \in InStore
    BY <1>1 DEF At, InStore, Files
  <2> QED BY <1>1, <2>4, <2>5, <2>6, <2>7, <2>8, <2>9, <2>10, <2>11, <2>12, <2>13 DEF ContentOK
<1> QED BY <1>2, <1>4, <1>5

-------------------------------------------------------------------------------
(* A request's step and the request itself.                                 *)

LEMMA RequestShape ==
  ASSUME TypeOK, PackageInvariant, NEW r \in Requests, RequestAction(r)
  PROVE  RequestOK(r)'
<1> RequestOK(r) /\ AloneOK(r) /\ ContentOK(r) /\ \A k \in UserKeys : RowOK(k)
  BY DEF PackageInvariant
<1>1. /\ proc \in [Requests -> RequestRecord]
      /\ proc[r].upload # NoKey => proc[r].upload \in Uploads
  BY DEF TypeOK, RequestRecord
<1> USE KeysAssumption, <1>1 DEF RequestOK, Turns, At, OnLoop, InStore
<1>2. ASSUME NEW u \in Uploads, Submit(r, u)
      PROVE  RequestOK(r)'
  <2>1. Turns(r, "list", NoKey, u) /\ loop # r /\ loop' = loop /\ u \in used'
    BY <1>2, RequestTurns DEF Submit
  <2> QED BY <2>1
<1>3. CASE SweepList(r)
  <2>1. At(r, "list") /\ Turns(r, "sweep", proc[r].key, proc[r].upload) /\ UNCHANGED <<loop, used>>
    BY <1>3, RequestTurns DEF SweepList
  <2> QED BY <2>1
<1>4. CASE SweepNext(r)
  <2>1. At(r, "sweep") /\ loop' = r /\ used' = used
    BY <1>4 DEF SweepNext
  <2>2. PICK k \in Staged : Turns(r, "exists", k, proc[r].upload)
    BY <1>4, RequestTurns
  <2> QED BY <2>1, <2>2
<1>5. CASE SweepDone(r)
  <2>1. At(r, "sweep") /\ loop # r /\ Turns(r, "exists", proc[r].upload, proc[r].upload)
        /\ UNCHANGED <<loop, used>>
    BY <1>5, RequestTurns DEF SweepDone
  <2> QED BY <2>1
<1>6. CASE Adopt(r)
  BY <1>6, RequestTurns DEF Adopt
<1>7. CASE Create(r)
  BY <1>7, StoreTurns DEF Create
<1>8. CASE Verify(r)
  BY <1>8, StoreTurns DEF Verify, UserKeys
<1>9. CASE Discard(r)
  BY <1>9, StoreTurns DEF Discard
<1>10. ASSUME NEW k \in UserKeys, DeleteStrategy(r, k)
       PROVE  RequestOK(r)'
  <2>1. k \in Uploads => k \in used
    BY <1>10 DEF DeleteStrategy, RowOK
  <2>2. At(r, "idle") /\ UNCHANGED <<loop, used>> /\ (proc' = proc \/ Turns(r, "discard", k, NoKey))
    BY <1>10, RequestTurns DEF DeleteStrategy
  <2> QED BY <2>1, <2>2
<1>11. CASE StoreExists(r)
  <2>1. Exist(proc[r].key) => proc[r].key \in Staged
    BY <1>11 DEF StoreExists, ContentOK, Exist, Listed, Early
  <2> QED BY <1>11, <2>1, StoreTurns DEF StoreExists
<1>12. CASE StoreCompare(r)
  BY <1>12, StoredView, StoreFailedView DEF StoreCompare, Sweeping
<1>13. CASE StoreCleanup(r)
  BY <1>13, StoreFailedView DEF StoreCleanup, Sweeping
<1>14. ASSUME NEW f \in Files, NEW here \in Steps, NEW writing \in Steps,
              here \in InStore \ {"compare"}, writing \in InStore \ {"compare"},
              StorePut(r, f, here, writing) \/ StoreWrite(r, f, writing)
       PROVE  RequestOK(r)'
  <2>1. StoreEffect(r, f, here, writing)
    BY <1>14, PutView
  <2> QED BY <1>14, <2>1, StoredView DEF StoreEffect, Sweeping
<1>15. {"put_source", "write_source", "put_config", "write_config"} \subseteq Steps
  BY DEF Steps
<1> QED BY <1>2, <1>3, <1>4, <1>5, <1>6, <1>7, <1>8, <1>9, <1>10, <1>11, <1>12, <1>13, <1>14, <1>15
        DEF RequestAction, StoreStep, Files

LEMMA RequestAlone ==
  ASSUME TypeOK, PackageInvariant, NEW r \in Requests, RequestAction(r)
  PROVE  AloneOK(r)'
<1> /\ \A s \in Requests : RequestOK(s) /\ AloneOK(s)
    /\ \A k \in UserKeys : RowOK(k)
    /\ \A w \in Workers : LoadOK(w)
  BY DEF PackageInvariant
<1>1. RequestMoves(r)
  BY EveryRequestMoves DEF PackageInvariant
<1>2. /\ proc \in [Requests -> RequestRecord]
      /\ proc[r].upload # NoKey => proc[r].upload \in Uploads
  BY DEF TypeOK, RequestRecord
<1>3. \A s \in Requests \ {r} : proc'[s] = proc[s]
  BY <1>1 DEF RequestMoves, KeysMove
<1> USE KeysAssumption
\* A fresh key is nobody's.
<1>4. ASSUME NEW u \in Uploads, Submit(r, u)
      PROVE  AloneOK(r)'
  <2>1. u \notin used /\ u \in UserKeys /\ u # NoKey
    BY <1>4 DEF Submit, UserKeys
  <2>2. proc'[r].upload = u /\ At(r, "list")' /\ row' = row /\ load' = load
    BY <1>2, <1>4, RequestTurns DEF Submit, Turns, At, rowVars
  <2>3. row[u] = "absent"
    BY <2>1 DEF RowOK
  <2>4. \A s \in Requests \ {r} : proc[s].upload # u /\ proc[s].key # u
    BY <2>1 DEF RequestOK
  <2>5. \A w \in Workers : load[w].key # u
    BY <2>1 DEF LoadOK
  <2> QED BY <1>3, <2>2, <2>3, <2>4, <2>5 DEF AloneOK, At
<1>5. CASE ~\E u \in Uploads : Submit(r, u)
  <2>1. \A s \in Requests \ {r} : proc'[r].upload = proc'[s].upload => proc'[r].upload = NoKey
    BY <1>1, <1>3, <1>5 DEF AloneOK, RequestMoves, KeysMove
  <2>2. proc'[r].pc \in Early => /\ proc'[r].upload = proc[r].upload /\ proc[r].pc \in Early
                                 /\ row'[proc[r].upload] = "absent"
    <3> SUFFICES ASSUME proc'[r].pc \in Early
                 PROVE  /\ proc'[r].upload = proc[r].upload /\ proc[r].pc \in Early
                        /\ row'[proc[r].upload] = "absent"
      OBVIOUS
    <3>1. proc'[r].upload = proc[r].upload /\ proc[r].pc \in Early
      BY <1>1, <1>5 DEF RequestMoves, KeysMove
    <3>2. proc[r].upload \in UserKeys /\ row[proc[r].upload] = "absent"
      BY <1>2, <3>1 DEF RequestOK, AloneOK, At, Early, InStore, UserKeys
    <3> QED BY <1>1, <3>1, <3>2 DEF RequestMoves, RowsMove
  <2>3. At(r, "discard")' => row'[proc'[r].key] = "absent"
    BY <1>1 DEF RequestMoves, KeysMove, At
  <2> QED BY <1>1, <1>3, <2>1, <2>2, <2>3 DEF AloneOK, RequestMoves, At
<1> QED BY <1>4, <1>5

\* The request's own objects, step by step of store_strategy_source.
LEMMA RequestContent ==
  ASSUME TypeOK, PackageInvariant, NEW r \in Requests, RequestAction(r)
  PROVE  ContentOK(r)'
<1> /\ \A s \in Requests : RequestOK(s) /\ AloneOK(s) /\ ContentOK(s)
    /\ \A k \in UserKeys : RowOK(k)
  BY DEF PackageInvariant
<1>1. RequestMoves(r) /\ backend' = backend
  BY EveryRequestMoves DEF PackageInvariant, RequestMoves
<1>2. /\ proc \in [Requests -> RequestRecord] /\ backend \in Backends
      /\ proc[r].upload # NoKey => proc[r].upload \in Uploads
      /\ proc[r].pc \in Early => proc[r].upload \in Uploads /\ proc[r].upload \in StoreKeys
      /\ proc[r].pc \in InStore => /\ proc[r].key \in UserKeys /\ proc[r].key \in StoreKeys
                                   /\ proc[r].pc \in Early
  BY DEF TypeOK, RequestRecord, RequestOK, At, Early, InStore, StoreKeys, UserKeys
<1>3. \A k \in StoreKeys, f \in Files : k # proc[r].key => objects'[backend][k][f] = Object(k, f)
  BY <1>1, <1>2 DEF Object, RequestMoves, ObjectsMove
<1> USE KeysAssumption DEF Turns
\* Steps that are over with the store, or have not reached it.
<1>4. CASE proc'[r].pc \in {"idle", "verify", "discard"}
  BY <1>4 DEF ContentOK, At, Early, InStore, Writing
<1>5. ASSUME NEW u \in Uploads, Submit(r, u)
      PROVE  ContentOK(r)'
  <2>1. Turns(r, "list", NoKey, u) /\ objects' = objects /\ u \notin used
    BY <1>2, <1>5, RequestTurns DEF Submit, storeVars
  <2>2. \A f \in Files : Object(u, f) = "absent"
    BY <1>2, <2>1 DEF RowOK, Object, UserKeys
  <2> QED BY <1>1, <2>1, <2>2 DEF ContentOK, At, Early, InStore, Writing, Object
<1>6. CASE SweepList(r) \/ SweepNext(r) \/ SweepDone(r)
  <2>1. /\ At(r, "list") \/ At(r, "sweep")
        /\ proc'[r].pc \in {"sweep", "exists"} /\ proc'[r].upload = proc[r].upload
        /\ objects' = objects
    BY <1>2, <1>6, RequestTurns DEF SweepList, SweepNext, SweepDone, storeVars
  <2>2. \A f \in Files : Object(proc[r].upload, f) = "absent"
    BY <1>2, <2>1 DEF ContentOK, RequestOK, At, Early, InStore
  <2> QED BY <1>1, <2>1, <2>2 DEF ContentOK, At, Early, InStore, Writing, Object
<1>7. CASE Adopt(r)
  <2>1. /\ At(r, "adopt") /\ objects' = objects
        /\ proc'[r].pc = "sweep" /\ proc'[r].upload = proc[r].upload
    BY <1>2, <1>7, RequestTurns DEF Adopt, storeVars
  <2>2. \A f \in Files : Object(proc[r].upload, f) = "absent"
    BY <1>2, <2>1 DEF ContentOK, RequestOK, At, Early, InStore
  <2> QED BY <1>1, <2>1, <2>2 DEF ContentOK, At, Early, InStore, Writing, Object
\* The guard: nothing is under the key, so no row and no request counts on it.
<1>8. CASE StoreExists(r)
  <2>1. /\ At(r, "exists") /\ objects' = objects /\ row' = row
        /\ Turns(r, IF Exist(proc[r].key) THEN "compare" ELSE "put_source",
                 proc[r].key, proc[r].upload)
    BY <1>2, <1>8, StoreTurns DEF StoreExists, storeVars, rowVars
  <2>2. \A f \in Files : Object(proc[r].upload, f) = "absent"
    BY <1>2, <2>1 DEF ContentOK, At, Early, InStore
  <2>3. CASE Exist(proc[r].key)
    BY <1>1, <2>1, <2>2, <2>3 DEF ContentOK, At, Early, InStore, Writing, Object
  <2>4. CASE ~Exist(proc[r].key)
    <3>1. \A f \in Files : Object(proc[r].key, f) = "absent"
      BY <2>4 DEF Exist, Listed
    <3>2. ~Equal(proc[r].key, "v1")
      BY <3>1 DEF Equal, Files
    <3>3. row[proc[r].key] # "stored"
      BY <1>2, <2>1, <3>2 DEF RowOK, At, InStore
    <3>4. ASSUME row[proc[r].key] # "absent", NEW s \in Requests, At(s, "adopt")'
          PROVE  proc'[s].key # proc[r].key
      <4>1. s # r /\ proc'[s] = proc[s]
        BY <2>1, <2>4, <3>4 DEF At
      <4>2. At(s, "adopt") /\ ContentOK(s)
        BY <3>4, <4>1 DEF At
      <4> QED BY <3>2, <3>4, <4>1, <4>2 DEF ContentOK
    <3>5. At(r, "put_source")' /\ proc'[r].key = proc[r].key /\ proc'[r].upload = proc[r].upload
      BY <2>1, <2>4 DEF At
    <3> QED BY <1>1, <2>1, <2>2, <3>1, <3>3, <3>4, <3>5
            DEF ContentOK, At, Early, InStore, Writing, Object, Files
  <2> QED BY <2>3, <2>4
<1>9. CASE StoreCompare(r)
  <2>1. /\ At(r, "compare") /\ objects' = objects /\ row' = row
        /\ IF Equal(proc[r].key, "v1") THEN Stored(r) ELSE StoreFailed(r)
    BY <1>9 DEF StoreCompare, storeVars, rowVars
  <2>2. proc[r].key \in Staged /\ proc[r].key # proc[r].upload
    BY <1>2, <2>1 DEF RequestOK, At, Early, InStore
  <2>3. \A f \in Files : Object(proc[r].upload, f) = "absent"
    BY <1>2, <2>1, <2>2 DEF ContentOK, At, Early, InStore
  <2>4. /\ proc'[r].key = proc[r].key /\ proc'[r].upload = proc[r].upload
        /\ proc'[r].pc = IF Equal(proc[r].key, "v1") THEN "adopt" ELSE "sweep"
    BY <1>2, <2>1, <2>2, StoredView, StoreFailedView DEF Sweeping
  <2> QED BY <1>1, <2>1, <2>3, <2>4 DEF ContentOK, At, Early, InStore, Writing, Object, Equal
<1>10. CASE StoreCleanup(r)
  <2>1. At(r, "cleanup") /\ StoreFailed(r)
    BY <1>10 DEF StoreCleanup
  <2>2. CASE proc[r].key \in Staged
    <3>1. \A f \in Files : Object(proc[r].upload, f)' = "absent"
      <4>1. proc[r].upload # proc[r].key /\ proc'[r].upload = proc[r].upload
        BY <1>2, <2>1, <2>2, StoreFailedView DEF At, Early, InStore, Sweeping
      <4>2. \A f \in Files : Object(proc[r].upload, f) = "absent"
        BY <1>2, <2>1, <4>1 DEF ContentOK, At, Early, InStore
      <4> QED BY <1>1, <1>2, <1>3, <2>1, <4>1, <4>2 DEF At, Early, InStore, Object
    <3>2. proc'[r].pc = "sweep"
      BY <1>2, <2>1, <2>2, StoreFailedView DEF Sweeping
    <3> QED BY <3>1, <3>2 DEF ContentOK, At, Early, InStore, Writing
  <2>3. CASE proc[r].key \notin Staged
    BY <1>2, <1>4, <2>1, <2>3, StoreFailedView DEF Sweeping
  <2> QED BY <2>2, <2>3
\* What every put keeps.
<1>11. ASSUME proc[r].pc \in Writing, row' = row, proc'[r].upload = proc[r].upload,
              proc'[r].key = proc[r].key
       PROVE  /\ \A f \in Files : proc[r].key # proc[r].upload =>
                     Object(proc[r].upload, f)' = "absent"
              /\ row'[proc[r].key] # "stored"
              /\ row'[proc[r].key] # "absent" =>
                    \A s \in Requests \ {r} : At(s, "adopt")' => proc'[s].key # proc[r].key
  <2>1. /\ row[proc[r].key] # "stored"
        /\ row[proc[r].key] # "absent" =>
              \A s \in Requests : At(s, "adopt") => proc[s].key # proc[r].key
    BY <1>11 DEF ContentOK
  <2>2. \A s \in Requests \ {r} : proc'[s] = proc[s]
    BY <1>1 DEF RequestMoves, KeysMove
  <2>3. proc[r].pc \in Early /\ proc[r].pc \in InStore
    BY <1>11 DEF Early, InStore, Writing
  <2>4. ASSUME NEW f \in Files, proc[r].key # proc[r].upload
        PROVE  Object(proc[r].upload, f)' = "absent"
    <3>1. Object(proc[r].upload, f) = "absent"
      BY <2>3, <2>4 DEF ContentOK
    <3> QED BY <1>1, <1>2, <1>3, <1>11, <2>3, <2>4, <3>1 DEF Object
  <2> QED BY <1>11, <2>1, <2>2, <2>4 DEF At
<1>12. ASSUME StorePut(r, "source", "put_source", "write_source")
                \/ StoreWrite(r, "source", "write_source")
       PROVE  ContentOK(r)'
  <2>1. StoreEffect(r, "source", "put_source", "write_source")
    BY <1>2, <1>12, PutView DEF Files, Steps
  <2>2. /\ At(r, "put_source") \/ At(r, "write_source")
        /\ proc'[r].upload = proc[r].upload /\ proc'[r].key = proc[r].key
        /\ proc'[r].pc \in {"write_source", "put_config", "cleanup"} /\ row' = row
    BY <2>1 DEF StoreEffect, rowVars
  <2>3. proc[r].pc \in Writing /\ proc[r].key \in StoreKeys
    BY <1>2, <2>2 DEF At, Writing, InStore
  <2>4. /\ Object(proc[r].key, "config")' = "absent"
        /\ proc'[r].pc = "write_source" => Object(proc[r].key, "source")' = "torn"
        /\ proc'[r].pc = "put_config" => Object(proc[r].key, "source")' = "v1"
    <3>1. Object(proc[r].key, "config") = "absent"
      BY <2>2 DEF ContentOK
    <3>2. objects' = objects \/ \E c \in Contents : Write(proc[r].key, "source", c)
      BY <2>1 DEF StoreEffect, Contents, Versions
    <3>3. Object(proc[r].key, "config")' = "absent"
      BY <1>1, <1>2, <2>2, <2>3, <3>1, <3>2, WriteView DEF Object, Files
    <3>4. /\ proc'[r].pc = "write_source" => Write(proc[r].key, "source", "torn")
          /\ proc'[r].pc = "put_config" => Write(proc[r].key, "source", "v1")
      BY <2>1 DEF StoreEffect
    <3> QED BY <1>1, <2>2, <2>3, <3>3, <3>4, WriteView DEF Object, Files, Contents, Versions
  <2>5. At(r, "adopt")' => FALSE
    BY <2>2 DEF At
  <2> QED BY <1>11, <2>2, <2>3, <2>4, <2>5 DEF ContentOK, At, Early, InStore
<1>13. ASSUME StorePut(r, "config", "put_config", "write_config")
                \/ StoreWrite(r, "config", "write_config")
       PROVE  ContentOK(r)'
  <2>1. StoreEffect(r, "config", "put_config", "write_config")
    BY <1>2, <1>13, PutView DEF Files, Steps
  <2>2. /\ At(r, "put_config") \/ At(r, "write_config")
        /\ proc'[r].upload = proc[r].upload /\ proc'[r].key = proc[r].key
        /\ proc'[r].pc \in {"write_config", "cleanup", "adopt", "create"} /\ row' = row
        /\ proc'[r].pc = "create" => proc[r].key \notin Staged
    BY <1>2, <2>1, StoredView DEF StoreEffect, rowVars, Sweeping
  <2>3. proc[r].pc \in Writing /\ proc[r].key \in StoreKeys /\ proc[r].key \in UserKeys
    BY <1>2, <2>2 DEF At, Writing, InStore
  <2>4. /\ proc'[r].pc = "write_config" => Object(proc[r].key, "config")' = "torn"
        /\ proc'[r].pc \in {"adopt", "create"} => Object(proc[r].key, "config")' = "v1"
    <3>1. /\ proc'[r].pc = "write_config" => Write(proc[r].key, "config", "torn")
          /\ proc'[r].pc \in {"adopt", "create"} => Write(proc[r].key, "config", "v1")
      BY <1>2, <2>1, StoredView DEF StoreEffect
    <3> QED BY <1>1, <2>2, <2>3, <3>1, WriteView DEF Object, Files, Contents, Versions
  <2>5. proc[r].key \in Uploads \/ row[proc[r].key] # "absent" =>
            Object(proc[r].key, "source")' = "v1"
    <3>1. proc[r].key \in Uploads \/ row[proc[r].key] # "absent" =>
              Object(proc[r].key, "source") = "v1"
      BY <2>2 DEF ContentOK
    <3>2. objects' = objects \/ \E c \in Contents : Write(proc[r].key, "config", c)
      BY <2>1 DEF StoreEffect, Contents, Versions
    <3> QED BY <1>1, <1>2, <2>2, <2>3, <3>1, <3>2, WriteView DEF Object, Files
  <2> QED BY <1>11, <2>2, <2>3, <2>4, <2>5
          DEF ContentOK, At, Early, InStore, Writing, Equal, Files, UserKeys
<1>14. CASE Create(r) \/ Verify(r) \/ Discard(r)
  BY <1>2, <1>4, <1>14, StoreTurns
<1>15. ASSUME NEW k \in UserKeys, DeleteStrategy(r, k)
       PROVE  ContentOK(r)'
  <2>1. proc'[r].pc \in {"idle", "discard"}
    BY <1>2, <1>15, RequestTurns DEF DeleteStrategy, At
  <2> QED BY <1>4, <2>1
<1> QED BY <1>5, <1>6, <1>7, <1>8, <1>9, <1>10, <1>12, <1>13, <1>14, <1>15
        DEF RequestAction, StoreStep

-------------------------------------------------------------------------------
(* A request's step and everybody else: rows, workers, scripts.             *)

LEMMA RequestRows ==
  ASSUME TypeOK, PackageInvariant, NEW r \in Requests, RequestMoves(r), NEW k \in UserKeys
  PROVE  RowOK(k)'
<1> RequestOK(r) /\ AloneOK(r) /\ ContentOK(r) /\ RowOK(k)
  BY DEF PackageInvariant
<1>1. k \in StoreKeys /\ backend' = backend /\ backend \in Backends
  BY DEF StoreKeys, RequestMoves, TypeOK
<1>2. At(r, "create") \/ At(r, "adopt") => ~(proc[r].pc \in Writing) /\ ~At(r, "discard")
  BY DEF At, Writing, InStore
<1>3. row'[k] = "stored" => Equal(k, "v1")'
  <2>1. row'[k] = "stored" => Equal(k, "v1")
    BY DEF RequestMoves, RowsMove, RowOK, ContentOK
  <2>2. ASSUME row'[k] = "stored", NEW f \in Files
        PROVE  Object(k, f)' = Object(k, f)
    <3>1. k = proc[r].key => ~(proc[r].pc \in Writing) /\ ~At(r, "discard")
      BY <1>2, <2>2 DEF RequestMoves, RowsMove, ContentOK, AloneOK
    <3> QED BY <1>1, <3>1 DEF Object, RequestMoves, ObjectsMove
  <2> QED BY <2>1, <2>2 DEF Equal
<1>4. k \in Uploads => row'[k] # "staged"
  BY DEF RequestMoves, RowsMove, RowOK
<1>5. ASSUME k \in Uploads \ used'
      PROVE  row'[k] = "absent" /\ \A b \in Backends, f \in Files : objects'[b][k][f] = "absent"
  <2>1. k \in Uploads \ used /\ proc[r].key # k
    BY <1>5 DEF RequestMoves, RequestOK
  <2> QED BY <1>1, <2>1 DEF RequestMoves, RowsMove, ObjectsMove, RowOK
<1> QED BY <1>3, <1>4, <1>5 DEF RowOK

LEMMA RequestLoads ==
  ASSUME TypeOK, PackageInvariant, NEW r \in Requests, RequestMoves(r), NEW w \in Workers
  PROVE  LoadOK(w)'
<1> /\ RequestOK(r) /\ AloneOK(r) /\ ContentOK(r) /\ LoadOK(w)
    /\ \A k \in UserKeys : RowOK(k)
  BY DEF PackageInvariant
<1>1. /\ load' = load /\ backend' = backend /\ backend \in Backends /\ used \subseteq used'
      /\ proc[r].upload # NoKey => proc[r].upload \in Uploads
  BY DEF RequestMoves, TypeOK
<1> DEFINE k == load[w].key
<1> SUFFICES ASSUME load[w].pc # "idle"
             PROVE  LoadOK(w)'
  BY <1>1 DEF LoadOK
<1>2. k \in StoreKeys
  BY DEF LoadOK
<1>3. ASSUME NEW f \in Files
      PROVE  k # proc[r].key => Object(k, f)' = Object(k, f)
  BY <1>1, <1>2 DEF Object, RequestMoves, ObjectsMove
<1>4. ASSUME k \in Uploads, NEW f \in Files
      PROVE  Object(k, f)' \in {Object(k, f), "absent"}
  <2>1. k = proc[r].key => proc[r].pc \notin InStore
    BY <1>1, <1>4, KeysAssumption DEF RequestOK, AloneOK, Early
  <2> QED BY <1>1, <1>2, <2>1 DEF Object, RequestMoves, ObjectsMove, Writing
<1>5. k \in Staged /\ row'[k] # "absent" => row[k] # "absent" /\ row'[k] = "stored"
  BY <1>1, KeysAssumption DEF RequestMoves, RowsMove, LoadOK, RequestOK, At, UserKeys
<1>6. k \in BuiltinKeys => \A f \in Files : Object(k, f)' = Object(k, f)
  <2>1. proc[r].key \in UserKeys \/ (proc[r].pc \notin Writing /\ ~At(r, "discard"))
    BY <1>1 DEF RequestOK, Writing, At, InStore, UserKeys
  <2>2. k \in BuiltinKeys => k \notin UserKeys
    BY KeysAssumption DEF BuiltinKeys, UserKeys, Versions
  <2> QED BY <1>1, <1>2, <2>1, <2>2 DEF Object, RequestMoves, ObjectsMove
<1>7. k \in BuiltinKeys =>
          \E v \in Versions : \A f \in Files : Object(k, f)' = v /\ load[w].got[f] \in {v, "absent"}
  BY <1>6 DEF LoadOK
<1>8. k \in Uploads => /\ k \in used'
                      /\ \A f \in Files : /\ Object(k, f)' \in {"v1", "absent"}
                                          /\ load[w].got[f] \in {"v1", "absent"}
  BY <1>1, <1>4 DEF LoadOK
<1>9. k \in BuiltinKeys => backend = "s3"
  BY DEF LoadOK
<1>10. /\ k \in Staged /\ row'[k] # "absent" =>
             \A f \in Files : load[w].got[f] \in {"v1", "absent"}
       /\ load[w].pc = "loaded" => \A f \in Files : load[w].got[f] # "absent"
  BY <1>5 DEF LoadOK
<1> QED BY <1>1, <1>2, <1>5, <1>7, <1>8, <1>9, <1>10 DEF LoadOK

\* A request that gives up its key has swept it, or a fault is on record.
LEMMA RequestLeft ==
  ASSUME TypeOK, PackageInvariant, NEW r \in Requests, RequestAction(r), RequestMoves(r),
         NEW u \in Uploads \ dirty'
  PROVE  LeftOK(u)'
<1> /\ RequestOK(r) /\ AloneOK(r) /\ ContentOK(r) /\ RowOK(u)
  BY DEF PackageInvariant, UserKeys
<1>1. /\ u \in StoreKeys /\ u \in UserKeys /\ backend' = backend /\ backend \in Backends
      /\ u \notin dirty
      /\ proc \in [Requests -> RequestRecord]
  BY DEF StoreKeys, UserKeys, RequestMoves, TypeOK, RequestRecord
<1>2. LeftOK(u)
  BY <1>1 DEF PackageInvariant
<1>3. backend = "local" => \A f \in Files : Remote(u, f)' = "absent"
  BY <1>1, <1>2 DEF LeftOK, Remote, RequestMoves, ObjectsMove, Backends
<1>4. \A s \in Requests \ {r} : At(s, "idle")' = At(s, "idle") /\ proc'[s].key = proc[s].key
  BY DEF RequestMoves, KeysMove, At
<1> SUFFICES ASSUME row'[u] = "absent", u \notin Busy'
             PROVE  \A f \in Files : Object(u, f)' = "absent"
  BY <1>1, <1>3 DEF LeftOK
<1>5. ~(At(r, "idle")' = FALSE /\ proc'[r].key = u)
  BY <1>1 DEF Busy
<1>6. CASE row[u] # "absent"
  <2>1. At(r, "idle") /\ row'[u] # row[u]
    BY <1>1, <1>6 DEF RequestMoves, RowsMove
  <2>2. PICK k \in UserKeys : DeleteStrategy(r, k)
    BY <2>1 DEF RequestAction, Submit, StoreStep, StoreExists, StoreCompare, StorePut, StoreWrite,
       StoreCleanup, SweepList, SweepNext, SweepDone, Adopt, Create, Verify, Discard, At, rowVars
  <2>3. k = u
    BY <1>1, <2>1, <2>2 DEF DeleteStrategy, TypeOK
  <2>4. Turns(r, "discard", u, NoKey)
    BY <1>1, <2>2, <2>3, RequestTurns, KeysAssumption
  <2> QED BY <1>1, <1>5, <2>4 DEF Turns, At
<1>7. CASE row[u] = "absent" /\ proc[r].key # u
  <2>1. u \notin Busy
    BY <1>4, <1>7 DEF Busy
  <2> QED BY <1>1, <1>2, <1>7, <2>1 DEF LeftOK, Object, RequestMoves, ObjectsMove
<1>8. CASE row[u] = "absent" /\ proc[r].key = u
  <2>1. ASSUME proc[r].pc \in InStore \union {"verify", "create"}, proc'[r].key = u,
               proc'[r].pc # "idle"
        PROVE  FALSE
    BY <1>5, <2>1 DEF At
  <2>2. u # NoKey /\ u \notin Staged /\ ~Sweeping(r)
    BY <1>8, KeysAssumption DEF Sweeping
  <2>3. \A f \in Files : Swept(u) => Object(u, f)' = "absent"
    BY <1>1, SweepView DEF Object
  <2> USE <1>1, <1>8, <2>2 DEF Turns, At, InStore
  <2>4. ~(\E x \in Uploads : Submit(r, x)) /\ ~(\E k \in UserKeys : DeleteStrategy(r, k))
    BY DEF Submit, DeleteStrategy, RequestOK
  <2>5. ~SweepList(r) /\ ~SweepNext(r) /\ ~SweepDone(r) /\ ~Adopt(r) /\ ~StoreCompare(r)
    BY DEF SweepList, SweepNext, SweepDone, Adopt, StoreCompare, RequestOK
  <2>6. ~StoreExists(r)
    BY <2>1, StoreTurns DEF StoreExists
  <2>7. ASSUME NEW f \in Files, NEW here \in Steps, NEW writing \in Steps,
               here \in InStore, writing \in InStore,
               StorePut(r, f, here, writing) \/ StoreWrite(r, f, writing)
        PROVE  FALSE
    <3>1. StoreEffect(r, f, here, writing)
      BY <2>7, PutView
    <3> QED BY <2>1, <2>7, <3>1, StoredView DEF StoreEffect
  <2>8. CASE StoreCleanup(r)
    BY <2>3, <2>8 DEF StoreCleanup
  <2>9. ~Create(r)
    <3>1. ASSUME Create(r)
          PROVE  row'[u] = "stored" \/ proc'[r].pc = "verify"
      BY <3>1, GotoView DEF Create, TypeOK, Steps
    <3> QED BY <2>1, <3>1, StoreTurns DEF Create
  <2>10. ~Verify(r)
    <3>1. ASSUME Verify(r)
          PROVE  Goto(r, "discard")
      BY <3>1 DEF Verify
    <3> QED BY <2>1, <3>1, GotoView DEF Verify, Steps
  <2>11. CASE Discard(r)
    BY <2>3, <2>11 DEF Discard
  <2>12. {"put_source", "write_source", "put_config", "write_config"} \subseteq Steps
    BY DEF Steps
  <2> QED BY <2>4, <2>5, <2>6, <2>7, <2>8, <2>9, <2>10, <2>11, <2>12
          DEF RequestAction, StoreStep, Files
<1> QED BY <1>6, <1>7, <1>8

LEMMA RequestScripts ==
  ASSUME TypeOK, PackageInvariant, NEW r \in Requests, RequestMoves(r)
  PROVE  ScriptOK'
<1> RequestOK(r) /\ ScriptOK
  BY DEF PackageInvariant
<1>1. api' = "up" /\ UNCHANGED <<backend, pointer, mig, pub>> /\ backend \in Backends
  BY DEF RequestMoves, scriptVars, TypeOK
<1>2. mig.pc = "idle"
  BY DEF RequestMoves, ScriptOK
<1>3. ASSUME pointer \in BuiltinKeys
      PROVE  \A f \in Files : Object(pointer, f)' = Object(pointer, f)
  <2>1. pointer \in StoreKeys /\ pointer \notin UserKeys
    BY <1>3, KeysAssumption DEF StoreKeys, BuiltinKeys, UserKeys, Versions
  <2>2. proc[r].upload # NoKey => proc[r].upload \in UserKeys
    BY DEF TypeOK, UserKeys
  <2>3. proc[r].key \in UserKeys \/ (proc[r].pc \notin Writing /\ ~At(r, "discard"))
    BY <2>2 DEF RequestOK, Writing, At, InStore, UserKeys
  <2> QED BY <1>1, <2>1, <2>3 DEF Object, RequestMoves, ObjectsMove
<1>4. pointer \in BuiltinKeys => \E v \in Versions : Equal(pointer, v)'
  BY <1>3 DEF ScriptOK, Equal
<1> QED BY <1>1, <1>2, <1>4 DEF ScriptOK

LEMMA RequestKept ==
  ASSUME TypeOK, PackageInvariant, RequestStep
  PROVE  PackageInvariant'
<1>1. PICK r \in Requests : RequestAction(r)
  BY DEF RequestStep, RequestAction
<1>2. RequestMoves(r)
  BY <1>1, EveryRequestMoves DEF PackageInvariant
<1>3. \A s \in Requests : RequestOK(s)' /\ AloneOK(s)' /\ ContentOK(s)'
  <2> TAKE s \in Requests
  <2>1. CASE s = r
    BY <1>1, <2>1, RequestShape, RequestAlone, RequestContent
  <2>2. CASE s # r
    BY <1>2, <2>2, OthersKept
  <2> QED BY <2>1, <2>2
<1>4. \A k \in UserKeys : RowOK(k)'
  BY <1>2, RequestRows
<1>5. \A u \in Uploads \ dirty' : LeftOK(u)'
  BY <1>1, <1>2, RequestLeft
<1>6. \A w \in Workers : LoadOK(w)'
  BY <1>2, RequestLoads
<1>7. ScriptOK'
  BY <1>2, RequestScripts
<1> QED BY <1>3, <1>4, <1>5, <1>6, <1>7 DEF PackageInvariant

-------------------------------------------------------------------------------
(* The workers, the end of the process, and the scripts.                    *)

LoadRecord == [pc : {"idle", "listing", "copying", "loaded"}, key : StoreKeys \union {NoKey},
               listed : SUBSET Files, got : [Files -> Contents]]

\* A worker's step, field by field.
LoadMoves(w) ==
    LET l == load[w]
        n == load'[w]
    IN  /\ \A x \in Workers \ {w} : load'[x] = load[x]
        /\ \/ n = NoLoad /\ l.pc # "idle"
           \/ /\ l.pc \in {"idle", "loaded"} /\ api = "up"
              /\ n.pc = "listing" /\ n.key \in StoreKeys /\ Referenced(n.key)
              /\ \A f \in Files : n.got[f] = "absent"
           \/ /\ l.pc # "idle" /\ n.pc = "copying" /\ n.key = l.key
              /\ \A f \in Files : n.got[f] \in {l.got[f], Object(l.key, f)}
           \/ /\ l.pc # "idle" /\ n.pc = "loaded" /\ n.key = l.key /\ n.got = l.got
              /\ \A f \in Files : l.got[f] # "absent"

LEMMA LoadView ==
  ASSUME load \in [Workers -> LoadRecord], NEW w \in Workers, NEW n,
         load' = [load EXCEPT ![w] = n]
  PROVE  load'[w] = n /\ \A x \in Workers \ {w} : load'[x] = load[x]
  OBVIOUS

LEMMA WorkerMoves ==
  ASSUME TypeOK, NEW w \in Workers,
         \/ \E k \in StoreKeys : LoadStart(w, k)
         \/ LoadList(w) \/ LoadDone(w)
         \/ \E f \in Files : LoadCopy(w, f)
  PROVE  LoadMoves(w)
<1>1. load \in [Workers -> LoadRecord] /\ load[w] \in LoadRecord
  BY DEF TypeOK, LoadRecord
<1>2. ASSUME NEW k \in StoreKeys, LoadStart(w, k)
      PROVE  LoadMoves(w)
  <2> DEFINE n == [NoLoad EXCEPT !.pc = "listing", !.key = k]
  <2>1. n.pc = "listing" /\ n.key = k /\ \A f \in Files : n.got[f] = "absent"
    BY DEF NoLoad, Empty
  <2>2. load' = [load EXCEPT ![w] = n] /\ load[w].pc \in {"idle", "loaded"} /\ api = "up"
        /\ Referenced(k)
    BY <1>2 DEF LoadStart
  <2> HIDE DEF n
  <2> QED BY <1>1, <2>1, <2>2, LoadView DEF LoadMoves
<1>3. CASE LoadList(w)
  <2> DEFINE n == [load[w] EXCEPT !.pc = "copying", !.listed = Listed(load[w].key)]
  <2>1. n.pc = "copying" /\ n.key = load[w].key /\ n.got = load[w].got
    BY <1>1 DEF LoadRecord
  <2>2. /\ load' = [load EXCEPT ![w] = n] \/ load' = [load EXCEPT ![w] = NoLoad]
        /\ load[w].pc = "listing"
    BY <1>1, <1>3 DEF LoadList
  <2> HIDE DEF n
  <2> QED BY <1>1, <2>1, <2>2, LoadView DEF LoadMoves
<1>4. CASE LoadDone(w)
  <2> DEFINE n == [load[w] EXCEPT !.pc = "loaded"]
  <2>1. n.pc = "loaded" /\ n.key = load[w].key /\ n.got = load[w].got
    BY <1>1 DEF LoadRecord
  <2>2. /\ \/ load' = [load EXCEPT ![w] = n] /\ \A f \in Files : load[w].got[f] # "absent"
           \/ load' = [load EXCEPT ![w] = NoLoad]
        /\ load[w].pc = "copying"
    BY <1>1, <1>4 DEF LoadDone
  <2> HIDE DEF n
  <2> QED BY <1>1, <2>1, <2>2, LoadView DEF LoadMoves
<1>5. ASSUME NEW f \in Files, LoadCopy(w, f)
      PROVE  LoadMoves(w)
  <2> DEFINE n == [load[w] EXCEPT !.listed = @ \ {f}, !.got[f] = Object(load[w].key, f)]
  <2>1. /\ n.pc = load[w].pc /\ n.key = load[w].key
        /\ \A g \in Files : n.got[g] \in {load[w].got[g], Object(load[w].key, g)}
    BY <1>1 DEF LoadRecord
  <2>2. /\ load' = [load EXCEPT ![w] = n] \/ load' = [load EXCEPT ![w] = NoLoad]
    BY <1>1, <1>5 DEF LoadCopy, LoadRecord
  <2>3. load[w].pc = "copying"
    BY <1>5 DEF LoadCopy
  <2> HIDE DEF n
  <2> QED BY <1>1, <2>1, <2>2, <2>3, LoadView DEF LoadMoves
<1> QED BY <1>2, <1>3, <1>4, <1>5

\* What the invariant says of rows and requests does not read the workers' loads,
\* except that an upload without a row is not loaded.
LEMMA LoadKept ==
  ASSUME TypeOK, PackageInvariant, LoadStep
  PROVE  PackageInvariant'
<1> /\ \A r \in Requests : RequestOK(r) /\ AloneOK(r) /\ ContentOK(r)
    /\ \A k \in UserKeys : RowOK(k)
    /\ \A w \in Workers : LoadOK(w)
    /\ ScriptOK
  BY DEF PackageInvariant
<1>1. PICK w \in Workers : \/ \E k \in StoreKeys : LoadStart(w, k)
                           \/ LoadList(w) \/ LoadDone(w)
                           \/ \E f \in Files : LoadCopy(w, f)
  BY DEF LoadStep
<1>2. UNCHANGED <<storeVars, rowVars, procVars, scriptVars, dirty>>
  BY <1>1 DEF LoadStart, LoadList, LoadDone, LoadCopy
<1>3. /\ \A x \in Workers \ {w} : load'[x] = load[x]
      /\ load[w].pc # "idle" \/ api = "up"
      /\ \/ load'[w].key \in {load[w].key, NoKey}
         \/ load'[w].key \in StoreKeys /\ Referenced(load'[w].key)
  BY <1>1, WorkerMoves DEF LoadMoves, NoLoad
<1>4. LoadOK(w)'
  <2>1. LoadMoves(w)
    BY <1>1, WorkerMoves
  <2>2. \A k, f : Object(k, f)' = Object(k, f)
    BY <1>2 DEF Object, storeVars
  <2>3. row' = row /\ used' = used /\ backend' = backend
    BY <1>2 DEF storeVars, rowVars, procVars
  <2>4. CASE load'[w] = NoLoad
    BY <2>4 DEF LoadOK, NoLoad
  <2>5. CASE load'[w].pc = "listing" /\ load'[w].key \in StoreKeys /\ Referenced(load'[w].key)
             /\ \A f \in Files : load'[w].got[f] = "absent"
    <3> DEFINE k == load'[w].key
    <3>1. k \in UserKeys => row[k] = "stored" /\ (k \in Uploads => k \in used)
      BY <2>5 DEF Referenced, RowOK
    <3>2. k \in UserKeys => \A f \in Files : Object(k, f) = "v1"
      BY <3>1 DEF RowOK, Equal
    <3>3. k \in BuiltinKeys =>
              backend = "s3" /\ \E v \in Versions : \A f \in Files : Object(k, f) = v
      BY <2>5, KeysAssumption DEF Referenced, ScriptOK, Equal, BuiltinKeys, UserKeys, Versions
    <3> QED BY <2>2, <2>3, <2>5, <3>1, <3>2, <3>3 DEF LoadOK, UserKeys
  <2>6. CASE load[w].pc # "idle" /\ load'[w].pc = "copying" /\ load'[w].key = load[w].key
             /\ \A f \in Files : load'[w].got[f] \in {load[w].got[f], Object(load[w].key, f)}
    <3>1. LoadOK(w) /\ load[w].key \in StoreKeys
      BY <2>6 DEF LoadOK
    <3>2. load[w].key \in Staged /\ row[load[w].key] # "absent" =>
              \A f \in Files : Object(load[w].key, f) = "v1"
      BY <2>6, <3>1 DEF LoadOK, RowOK, Equal, UserKeys
    <3> QED BY <2>2, <2>3, <2>6, <3>1, <3>2 DEF LoadOK
  <2>7. CASE /\ load[w].pc # "idle" /\ load'[w].pc = "loaded" /\ load'[w].key = load[w].key
             /\ load'[w].got = load[w].got /\ \A f \in Files : load[w].got[f] # "absent"
    BY <2>2, <2>3, <2>7 DEF LoadOK
  <2> QED BY <2>1, <2>4, <2>5, <2>6, <2>7 DEF LoadMoves
<1>5. ASSUME NEW r \in Requests
      PROVE  RequestOK(r)' /\ AloneOK(r)' /\ ContentOK(r)'
  <2>1. RequestOK(r)' /\ ContentOK(r)'
    BY <1>2 DEF RequestOK, ContentOK, At, Object, Equal, storeVars, rowVars, procVars
  <2>2. proc[r].pc \in Early => load'[w].key # proc[r].upload
    <3>1. proc[r].pc \in Early => proc[r].upload \in UserKeys
      BY DEF TypeOK, RequestOK, At, Early, InStore, UserKeys
    <3> QED BY <1>3, <3>1, KeysAssumption DEF AloneOK, Referenced, UserKeys
  <2> QED BY <1>2, <1>3, <2>1, <2>2 DEF AloneOK, At, rowVars, procVars
<1>6. \A k \in UserKeys : RowOK(k)'
  BY <1>2 DEF RowOK, Equal, Object, storeVars, rowVars, procVars
<1>7. \A u \in Uploads \ dirty' : LeftOK(u)'
  BY <1>2 DEF PackageInvariant, LeftOK, Busy, At, Object, Remote, storeVars, rowVars, procVars
<1>8. ScriptOK'
  <2>1. api = "up"
    BY <1>3 DEF ScriptOK, NoLoad, TypeOK
  <2> QED BY <1>2, <2>1 DEF ScriptOK, At, Equal, Object, Remote, storeVars, rowVars, procVars,
             scriptVars
<1>9. \A x \in Workers \ {w} : LoadOK(x)'
  BY <1>2, <1>3 DEF LoadOK, Object, storeVars, rowVars, procVars
<1> QED BY <1>4, <1>5, <1>6, <1>7, <1>8, <1>9 DEF PackageInvariant

LEMMA HaltKept ==
  ASSUME TypeOK, PackageInvariant, NEW state \in {"up", "down"}, Halt(state)
  PROVE  PackageInvariant'
<1>1. /\ \A r \in Requests : proc'[r] = Idle
      /\ \A w \in Workers : load'[w] = NoLoad
      /\ loop' = Free /\ api = "up" /\ dirty' = dirty \union (Busy \ Staged)
      /\ UNCHANGED <<storeVars, rowVars, used, mig, pub>>
  BY DEF Halt
<1>2. Idle.pc = "idle" /\ Idle.key = NoKey /\ Idle.upload = NoKey
      /\ NoLoad.pc = "idle" /\ NoLoad.key = NoKey
  BY DEF Idle, NoLoad
<1>3. \A r \in Requests : RequestOK(r)' /\ AloneOK(r)' /\ ContentOK(r)'
  BY <1>1, <1>2, KeysAssumption
     DEF RequestOK, AloneOK, ContentOK, At, Early, InStore, Writing
<1>4. \A k \in UserKeys : RowOK(k)'
  BY <1>1 DEF PackageInvariant, RowOK, Equal, Object, storeVars, rowVars
<1>5. \A u \in Uploads \ dirty' : LeftOK(u)'
  <2> TAKE u \in Uploads \ dirty'
  <2>1. u \notin dirty /\ u \notin Busy
    BY <1>1, KeysAssumption
  <2> QED BY <1>1, <2>1 DEF PackageInvariant, LeftOK, Object, Remote, storeVars, rowVars
<1>6. \A w \in Workers : LoadOK(w)'
  BY <1>1, <1>2 DEF LoadOK
<1>7. ScriptOK'
  <2>1. mig.pc = "idle"
    BY <1>1 DEF PackageInvariant, ScriptOK
  <2> QED BY <1>1, <1>2, <2>1 DEF PackageInvariant, ScriptOK, At, Equal, Object, storeVars, rowVars
<1> QED BY <1>3, <1>4, <1>5, <1>6, <1>7 DEF PackageInvariant

\* A step that leaves requests, rows, workers and objects alone concerns the scripts.
LEMMA QuietStep ==
  ASSUME PackageInvariant, ScriptOK',
         UNCHANGED <<backend, objects, row, proc, loop, used, load, dirty>>
  PROVE  PackageInvariant'
<1>1. \A r \in Requests : RequestOK(r)' /\ AloneOK(r)' /\ ContentOK(r)'
  BY DEF PackageInvariant, RequestOK, AloneOK, ContentOK, At, Object, Equal
<1>2. \A k \in UserKeys : RowOK(k)'
  BY DEF PackageInvariant, RowOK, Equal, Object
<1>3. \A u \in Uploads \ dirty' : LeftOK(u)'
  BY DEF PackageInvariant, LeftOK, Busy, At, Object, Remote
<1>4. \A w \in Workers : LoadOK(w)'
  BY DEF PackageInvariant, LoadOK, Object
<1> QED BY <1>1, <1>2, <1>3, <1>4 DEF PackageInvariant

LEMMA MigrateKept ==
  ASSUME TypeOK, PackageInvariant, Migrate \/ StartApi
  PROVE  PackageInvariant'
<1> /\ ScriptOK
    /\ \A k \in UserKeys : RowOK(k)
  BY DEF PackageInvariant
<1>1. /\ mig \in [pc : {"idle", "plan", "copy", "ok"}, key : {NoKey}, left : SUBSET UserKeys]
      /\ NoScript.pc = "idle" /\ NoScript.left = {}
  BY DEF TypeOK, NoScript
<1> USE DEF Object, Remote, Local, Equal, At
<1>2. CASE MigrateInventory
  <2> DEFINE keys == {k \in UserKeys : row[k] = "stored"}
  <2>1. mig' = [NoScript EXCEPT !.pc = "plan", !.left = keys] /\ api = "down" /\ backend = "local"
        /\ UNCHANGED <<storeVars, rowVars, procVars, load, api, pub, vendored, dirty>>
    BY <1>2 DEF MigrateInventory
  <2>2. mig'.pc = "plan" /\ mig'.left = keys
    BY <2>1 DEF NoScript
  <2>3. ScriptOK'
    BY <2>1, <2>2 DEF ScriptOK, storeVars, rowVars, procVars
  <2> QED BY <2>1, <2>3, QuietStep DEF storeVars, rowVars, procVars
<1>3. CASE MigratePlan \/ MigrateExit
  <2>1. /\ \/ mig' = NoScript
           \/ mig.pc = "plan" /\ mig'.pc = "copy" /\ mig'.left = mig.left
           \/ mig.pc = "copy" /\ mig.left = {} /\ mig'.pc = "ok" /\ mig'.left = mig.left
        /\ mig.pc # "idle"
    <3>1. CASE MigratePlan
      <4>1. mig.pc = "plan" /\ (mig' = NoScript \/ mig' = [mig EXCEPT !.pc = "copy"])
        BY <3>1 DEF MigratePlan
      <4>2. [mig EXCEPT !.pc = "copy"].pc = "copy" /\ [mig EXCEPT !.pc = "copy"].left = mig.left
        BY <1>1
      <4> QED BY ONLY <4>1, <4>2
    <3>2. CASE MigrateExit
      BY <1>1, <3>2 DEF MigrateExit
    <3> QED BY <1>3, <3>1, <3>2
  <2>2. UNCHANGED <<storeVars, rowVars, procVars, load, api, pub, vendored, dirty>>
    BY <1>3 DEF MigratePlan, MigrateExit
  <2>3. ScriptOK'
    BY <1>1, <2>1, <2>2 DEF ScriptOK, storeVars, rowVars, procVars
  <2> QED BY <2>2, <2>3, QuietStep DEF storeVars, rowVars, procVars
<1>4. CASE MigrateDies \/ StartApi
  <2>1. /\ mig' = NoScript /\ api' \in {api, "up"}
        /\ UNCHANGED <<storeVars, rowVars, procVars, load, pub, vendored, dirty>>
    BY <1>4 DEF MigrateDies, StartApi
  <2>2. ScriptOK'
    BY <1>1, <2>1 DEF ScriptOK, storeVars, rowVars, procVars
  <2> QED BY <2>1, <2>2, QuietStep DEF storeVars, rowVars, procVars
\* What reads back equal to a stored row's package is that package.
<1>5. ASSUME NEW k \in UserKeys, MigrateVerify(k)
      PROVE  PackageInvariant'
  <2>1. /\ mig.pc = "copy" /\ k \in mig.left
        /\ \/ mig' = NoScript
           \/ /\ mig'.pc = "copy" /\ mig'.left = mig.left \ {k}
              /\ \A f \in Files : Remote(k, f) = Local(k, f)
        /\ UNCHANGED <<storeVars, rowVars, procVars, load, api, pub, vendored, dirty>>
    BY <1>1, <1>5 DEF MigrateVerify
  <2>2. \A f \in Files : Local(k, f) = "v1"
    BY <2>1 DEF ScriptOK, RowOK
  <2>3. ScriptOK'
    BY <1>1, <2>1, <2>2 DEF ScriptOK, storeVars, rowVars, procVars
  <2> QED BY <2>1, <2>3, QuietStep DEF storeVars, rowVars, procVars
\* A conditional put beside the backend in use, on record.
<1>6. ASSUME NEW k \in UserKeys, NEW f \in Files, MigrateCopy(k, f)
      PROVE  PackageInvariant'
  <2>1. /\ mig.pc = "copy" /\ k \in mig.left /\ mig' \in {mig, NoScript}
        /\ dirty' = dirty \union ({k} \ Staged)
        /\ UNCHANGED <<backend, rowVars, procVars, load, api, pub, vendored>>
        /\ objects' = objects \/ objects' = [objects EXCEPT !["s3"][k][f] = Local(k, f)]
    BY <1>6 DEF MigrateCopy
  <2>2. backend = "local" /\ row[k] = "stored" /\ k \in StoreKeys /\ Local(k, f) \in Contents
    BY <2>1 DEF ScriptOK, StoreKeys, TypeOK, Backends
  <2>3. \A b \in Backends, k2 \in StoreKeys, f2 \in Files :
            b # "s3" \/ k2 # k => objects'[b][k2][f2] = objects[b][k2][f2]
    BY <2>1, <2>2, RemoteView
  <2>4. \A k2 \in StoreKeys, f2 \in Files : objects'[backend][k2][f2] = objects[backend][k2][f2]
    BY <2>2, <2>3 DEF Backends
  <2>5. ASSUME NEW r \in Requests
        PROVE  RequestOK(r)' /\ AloneOK(r)' /\ ContentOK(r)'
    <3>1. RequestOK(r) /\ AloneOK(r) /\ At(r, "idle")
      BY <2>1 DEF PackageInvariant, ScriptOK
    <3> QED BY <2>1, <3>1 DEF RequestOK, AloneOK, ContentOK, Early, InStore, Writing, rowVars,
               procVars
  <2>6. \A k2 \in UserKeys : RowOK(k2)'
    <3> TAKE k2 \in UserKeys
    <3>1. RowOK(k2) /\ k2 \in StoreKeys
      BY DEF StoreKeys
    <3>2. k2 = k => k2 \notin Uploads \ used
      BY <2>2, <3>1 DEF RowOK
    <3> QED BY <2>1, <2>3, <2>4, <3>1, <3>2 DEF RowOK, rowVars, procVars
  <2>7. \A u \in Uploads \ dirty' : LeftOK(u)'
    <3> TAKE u \in Uploads \ dirty'
    <3>1. u \notin dirty /\ u # k /\ u \in StoreKeys
      BY <2>1, KeysAssumption DEF StoreKeys, UserKeys
    <3>2. LeftOK(u)
      BY <3>1 DEF PackageInvariant
    <3> QED BY <2>1, <2>3, <2>4, <3>1, <3>2 DEF LeftOK, Busy, Backends, rowVars, procVars
  <2>8. \A w \in Workers : LoadOK(w)'
    <3> TAKE w \in Workers
    <3>1. load[w].pc = "idle" /\ LoadOK(w)
      BY <2>1 DEF PackageInvariant, ScriptOK, NoLoad
    <3> QED BY <2>1, <3>1 DEF LoadOK
  <2>9. ScriptOK'
    <3>1. pointer \notin BuiltinKeys /\ pub.pc # "put"
      BY <2>2 DEF ScriptOK
    <3>2. \A k2 \in UserKeys \ mig.left, f2 \in Files :
              objects'["s3"][k2][f2] = objects["s3"][k2][f2]
      BY <2>1, <2>3 DEF Backends, StoreKeys
    <3> QED BY <1>1, <2>1, <3>1, <3>2 DEF ScriptOK, rowVars, procVars
  <2> QED BY <2>5, <2>6, <2>7, <2>8, <2>9 DEF PackageInvariant
\* The other backend has what the rows need, and of the rest only what is on record.
<1>7. CASE Switch
  <2>1. /\ api = "down" /\ mig.pc = "ok" /\ backend' = "s3" /\ api' = "up" /\ mig' = NoScript
        /\ UNCHANGED <<objects, rowVars, procVars, load, pub, vendored, dirty>>
    BY <1>7 DEF Switch
  <2>2. ASSUME NEW r \in Requests
        PROVE  RequestOK(r)' /\ AloneOK(r)' /\ ContentOK(r)'
    <3>1. RequestOK(r) /\ AloneOK(r) /\ At(r, "idle")
      BY <2>1 DEF PackageInvariant, ScriptOK
    <3> QED BY <2>1, <3>1 DEF RequestOK, AloneOK, ContentOK, Early, InStore, Writing, rowVars,
               procVars
  <2>3. \A k \in UserKeys : RowOK(k)'
    <3> TAKE k \in UserKeys
    <3>1. RowOK(k) /\ (row[k] = "stored" => \A f \in Files : Remote(k, f) = "v1")
      BY <2>1 DEF ScriptOK
    <3> QED BY <2>1, <3>1 DEF RowOK, rowVars, procVars
  <2>4. \A u \in Uploads \ dirty' : LeftOK(u)'
    <3> TAKE u \in Uploads \ dirty'
    <3>1. LeftOK(u) /\ backend = "local"
      BY <2>1 DEF PackageInvariant, ScriptOK
    <3> QED BY <2>1, <3>1 DEF LeftOK
  <2>5. \A w \in Workers : LoadOK(w)'
    <3> TAKE w \in Workers
    <3>1. load[w].pc = "idle" /\ LoadOK(w)
      BY <2>1 DEF PackageInvariant, ScriptOK, NoLoad
    <3> QED BY <2>1, <3>1 DEF LoadOK
  <2>6. ScriptOK'
    BY <1>1, <2>1 DEF ScriptOK, rowVars, procVars
  <2> QED BY <2>2, <2>3, <2>4, <2>5, <2>6 DEF PackageInvariant
<1> QED BY <1>2, <1>3, <1>4, <1>5, <1>6, <1>7 DEF Migrate

LEMMA PublishKept ==
  ASSUME TypeOK, PackageInvariant, ScriptStep, ~Migrate
  PROVE  PackageInvariant'
<1> /\ ScriptOK
    /\ \A k \in UserKeys : RowOK(k)
  BY DEF PackageInvariant
<1> USE DEF Object, Remote, Equal, At
<1>1. ASSUME NEW revision \in BOOLEAN, PublishPlan(revision)
      PROVE  PackageInvariant'
  <2>1. /\ backend = "s3" /\ pub'.key \in BuiltinKeys
        /\ UNCHANGED <<storeVars, rowVars, procVars, load, api, mig, vendored, dirty>>
    <3>1. (IF revision THEN vendored ELSE "base") \in BuiltinKeys
      BY DEF BuiltinKeys, TypeOK
    <3> QED BY <1>1, <3>1 DEF PublishPlan
  <2>2. ScriptOK'
    BY <2>1 DEF ScriptOK, storeVars, rowVars, procVars
  <2> QED BY <2>1, <2>2, QuietStep DEF storeVars, rowVars, procVars
\* What is committed was read back whole.
<1>2. CASE PublishCommit \/ PublishDies
  <2>1. /\ pub'.pc = "idle"
        /\ \/ pointer' = pointer
           \/ /\ pub.pc = "put" /\ pointer' = pub.key
              /\ \A f \in Files : Remote(pub.key, f) = vendored
        /\ UNCHANGED <<storeVars, row, owned, procVars, load, api, mig, vendored, dirty>>
    BY <1>2 DEF PublishCommit, PublishDies, NoScript, rowVars
  <2>2. /\ \/ pointer' = pointer
           \/ backend = "s3" /\ \A f \in Files : objects[backend][pointer'][f] = vendored
        /\ vendored \in Versions /\ UNCHANGED <<backend, objects>>
    BY <2>1 DEF ScriptOK, TypeOK, storeVars
  <2>3. pointer' \in BuiltinKeys =>
            /\ backend' = "s3"
            /\ \E v \in Versions : \A f \in Files : objects'[backend'][pointer'][f] = v
    BY <2>2 DEF ScriptOK
  <2>4. ScriptOK'
    BY <2>1, <2>3 DEF ScriptOK, storeVars, procVars
  <2> QED BY <2>1, <2>4, QuietStep DEF storeVars, procVars
<1>3. CASE Seed \/ Deploy
  <2>1. /\ pointer' \in {pointer, "none"}
        /\ UNCHANGED <<storeVars, row, owned, procVars, load, api, mig, pub, dirty>>
    BY <1>3 DEF Seed, Deploy, rowVars, scriptVars
  <2>2. "none" \notin BuiltinKeys
    BY DEF BuiltinKeys, Versions
  <2>3. ScriptOK'
    BY <2>1, <2>2 DEF ScriptOK, storeVars, procVars
  <2> QED BY <2>1, <2>3, QuietStep DEF storeVars, procVars
<1>4. ASSUME NEW k \in UserKeys, Claim(k)
      PROVE  PackageInvariant'
  <2>1. UNCHANGED <<storeVars, row, pointer, procVars, load, scriptVars, dirty>>
    BY <1>4 DEF Claim
  <2>2. ScriptOK'
    BY <2>1 DEF ScriptOK, storeVars, procVars, scriptVars
  <2> QED BY <2>1, <2>2, QuietStep DEF storeVars, procVars
\* A conditional put under a key of the built-in.
<1>5. ASSUME NEW f \in Files, PublishPut(f)
      PROVE  PackageInvariant'
  <2>1. /\ pub.pc = "put" /\ pub'.key \in {pub.key, NoScript.key}
        /\ pub'.pc = "put" => pub'.key = pub.key
        /\ \/ objects' = objects
           \/ /\ Remote(pub.key, f) = "absent"
              /\ objects' = [objects EXCEPT !["s3"][pub.key][f] = vendored]
        /\ UNCHANGED <<backend, rowVars, procVars, load, api, mig, vendored, dirty>>
    BY <1>5 DEF PublishPut, TypeOK, NoScript
  <2>2. /\ backend = "s3" /\ pub.key \in BuiltinKeys /\ pub.key \in StoreKeys
        /\ pub.key \notin UserKeys /\ vendored \in Contents
    BY <2>1, KeysAssumption DEF ScriptOK, StoreKeys, BuiltinKeys, UserKeys, Versions, TypeOK,
       Contents
  <2>3. \A b \in Backends, k2 \in StoreKeys, f2 \in Files :
            /\ b # "s3" \/ k2 # pub.key => objects'[b][k2][f2] = objects[b][k2][f2]
            /\ objects[b][k2][f2] # "absent" => objects'[b][k2][f2] = objects[b][k2][f2]
    BY <2>1, <2>2, RemoteView
  <2>4. \A b \in Backends, k2 \in UserKeys, f2 \in Files :
            objects'[b][k2][f2] = objects[b][k2][f2]
    BY <2>2, <2>3 DEF StoreKeys
  <2>5. \A k2 \in UserKeys, f2 \in Files : objects'[backend][k2][f2] = objects[backend][k2][f2]
    BY <2>4 DEF TypeOK
  <2>6. ASSUME NEW r \in Requests
        PROVE  RequestOK(r)' /\ AloneOK(r)' /\ ContentOK(r)'
    <3>1. RequestOK(r) /\ AloneOK(r) /\ ContentOK(r)
      BY DEF PackageInvariant
    <3>2. /\ proc[r].pc \in Early => proc[r].upload \in UserKeys
          /\ proc[r].pc \in InStore \union {"create", "adopt"} => proc[r].key \in UserKeys
      BY <3>1 DEF TypeOK, RequestOK, Early, InStore, UserKeys
    <3>3. RequestOK(r)' /\ AloneOK(r)'
      BY <2>1, <3>1 DEF RequestOK, AloneOK, rowVars, procVars
    <3>4. proc[r].pc \in Early =>
              \A f2 \in Files : objects'[backend][proc[r].upload][f2]
                                  = objects[backend][proc[r].upload][f2]
      BY <2>5, <3>2
    <3>5. proc[r].pc \in InStore \union {"create", "adopt"} =>
              \A f2 \in Files : objects'[backend][proc[r].key][f2]
                                  = objects[backend][proc[r].key][f2]
      BY <2>5, <3>2
    <3>6. "source" \in Files /\ "config" \in Files
      BY DEF Files
    <3>7. ContentOK(r)'
      BY <2>1, <3>1, <3>4, <3>5, <3>6 DEF ContentOK, Early, InStore, Writing, rowVars, procVars
    <3> QED BY <3>3, <3>7
  <2>7. \A k2 \in UserKeys : RowOK(k2)'
    BY <2>1, <2>4, <2>5 DEF RowOK, rowVars, procVars
  <2>8. \A u \in Uploads \ dirty' : LeftOK(u)'
    <3> TAKE u \in Uploads \ dirty'
    <3>1. LeftOK(u) /\ u \in UserKeys
      BY <2>1 DEF PackageInvariant, UserKeys
    <3> QED BY <2>1, <2>4, <2>5, <3>1 DEF LeftOK, Busy, Backends, rowVars, procVars
  <2>9. \A w \in Workers : LoadOK(w)'
    <3> TAKE w \in Workers
    <3>1. LoadOK(w)
      BY DEF PackageInvariant
    <3>2. load[w].key \in Uploads =>
              \A f2 \in Files : objects'[backend][load[w].key][f2]
                                  = objects[backend][load[w].key][f2]
      BY <2>5 DEF UserKeys
    <3>3. load[w].key \in BuiltinKeys /\ load[w].pc # "idle" =>
              \A f2 \in Files : objects'[backend][load[w].key][f2]
                                  = objects[backend][load[w].key][f2]
      <4>1. "absent" \notin Versions /\ backend \in Backends
        BY DEF Versions, TypeOK
      <4> QED BY <2>3, <3>1, <4>1 DEF LoadOK
    <3> QED BY <2>1, <3>1, <3>2, <3>3 DEF LoadOK, rowVars, procVars
  <2>10. ScriptOK'
    <3>1. pointer \in BuiltinKeys =>
              \A f2 \in Files : objects'[backend][pointer][f2] = objects[backend][pointer][f2]
      <4>1. "absent" \notin Versions /\ backend \in Backends
        BY DEF Versions, TypeOK
      <4> QED BY <2>3, <4>1 DEF ScriptOK, StoreKeys
    <3>2. \A k2 \in UserKeys, f2 \in Files : objects'["s3"][k2][f2] = objects["s3"][k2][f2]
      BY <2>4 DEF Backends
    <3> QED BY <2>1, <2>2, <3>1, <3>2 DEF ScriptOK, rowVars, procVars
  <2> QED BY <2>6, <2>7, <2>8, <2>9, <2>10 DEF PackageInvariant
<1> QED BY <1>1, <1>2, <1>3, <1>4, <1>5 DEF ScriptStep

LEMMA PackageKept ==
  ASSUME TypeOK, PackageInvariant, [Next]_vars
  PROVE  PackageInvariant'
<1>1. CASE RequestStep
  BY <1>1, RequestKept
<1>2. CASE LoadStep
  BY <1>2, LoadKept
<1>3. CASE Crash \/ StopApi
  BY <1>3, HaltKept DEF Crash, StopApi
<1>4. CASE StartApi \/ Migrate
  BY <1>4, MigrateKept
<1>5. CASE ScriptStep /\ ~Migrate
  BY <1>5, PublishKept
<1>6. CASE UNCHANGED vars
  <2>1. UNCHANGED <<storeVars, rowVars, procVars, load, scriptVars, dirty>>
    BY <1>6 DEF vars
  <2>2. ScriptOK'
    BY <2>1 DEF PackageInvariant, ScriptOK, At, Equal, Object, Remote, storeVars, rowVars,
       procVars, scriptVars
  <2> QED BY <2>1, <2>2, QuietStep DEF storeVars, rowVars, procVars
<1> QED BY <1>1, <1>2, <1>3, <1>4, <1>5, <1>6 DEF Next

-------------------------------------------------------------------------------
(* The theorems.                                                            *)

LEMMA InitTypeOK == Init => TypeOK
<1> SUFFICES ASSUME Init PROVE TypeOK
  OBVIOUS
<1>1. Empty \in [Files -> Contents]
  BY DEF Empty, Contents
<1>2. objects \in [Backends -> [StoreKeys -> [Files -> Contents]]]
  BY <1>1 DEF Init
<1>3. Idle \in RequestRecord /\ NoLoad \in LoadRecord
  BY <1>1 DEF Idle, NoLoad, RequestRecord, LoadRecord, Steps
<1>4. /\ proc \in [Requests -> RequestRecord]
      /\ load \in [Workers -> LoadRecord]
  BY <1>3 DEF Init
<1>5. /\ mig \in [pc : {"idle", "plan", "copy", "ok"}, key : {NoKey}, left : SUBSET UserKeys]
      /\ pub \in [pc : {"idle", "put"}, key : BuiltinKeys \union {NoKey}, left : SUBSET Files]
  BY DEF Init, NoScript
<1>6. row \in [UserKeys -> {"absent", "staged", "stored"}]
  BY DEF Init
<1> QED BY <1>2, <1>4, <1>5, <1>6 DEF Init, TypeOK, RequestRecord, LoadRecord, Versions

LEMMA InitPackage == Init => PackageInvariant
<1> SUFFICES ASSUME Init PROVE PackageInvariant
  OBVIOUS
<1>1. /\ \A r \in Requests : proc[r].pc = "idle" /\ proc[r].key = NoKey /\ proc[r].upload = NoKey
      /\ \A w \in Workers : load[w].pc = "idle" /\ load[w].key = NoKey /\ load[w] = NoLoad
      /\ loop = Free /\ api = "up" /\ backend \in Backends /\ pointer = "absent"
      /\ mig.pc = "idle" /\ mig.left = {} /\ pub.pc = "idle"
  BY DEF Init, Idle, NoLoad, NoScript
<1>2. /\ NoKey \notin UserKeys /\ Free \notin Requests
      /\ \A u \in Uploads : u \notin Staged /\ u \in UserKeys
  BY KeysAssumption DEF UserKeys
<1>3. \A r \in Requests : RequestOK(r) /\ AloneOK(r) /\ ContentOK(r)
  BY <1>1, <1>2 DEF RequestOK, AloneOK, ContentOK, At, Early, InStore, Writing, UserKeys
<1>4. /\ \A b \in Backends, k \in UserKeys, f \in Files : objects[b][k][f] = "absent"
      /\ \A k \in UserKeys : row[k] = IF k \in Staged THEN "staged" ELSE "absent"
  BY DEF Init, StoreKeys, Empty
<1>5. \A k \in UserKeys : RowOK(k)
  BY <1>2, <1>4 DEF RowOK
<1>6. \A u \in Uploads \ dirty : LeftOK(u)
  BY <1>1, <1>2, <1>4 DEF LeftOK, Object, Remote, Backends
<1>7. \A w \in Workers : LoadOK(w)
  BY <1>1 DEF LoadOK
<1>8. ScriptOK
  <2>1. "absent" \notin BuiltinKeys
    BY DEF BuiltinKeys, Versions
  <2> QED BY <1>1, <2>1 DEF ScriptOK
<1> QED BY <1>3, <1>5, <1>6, <1>7, <1>8 DEF PackageInvariant

\* Every state of the catalogue has the shape TypeOK says, and satisfies the
\* inductive invariant: whatever requests, workers and scripts do in whatever order.
THEOREM PackageInvariantHolds == Spec => [](TypeOK /\ PackageInvariant)
<1>1. Init => TypeOK /\ PackageInvariant
  BY InitTypeOK, InitPackage
<1>2. TypeOK /\ PackageInvariant /\ [Next]_vars => (TypeOK /\ PackageInvariant)'
  BY TypeKept, PackageKept
<1> QED BY <1>1, <1>2, PTL DEF Spec

\* The services, the scripts and the store keep to their states (the fields of a
\* request, a load and a script in the code have no others).
THEOREM TypeCorrect == Spec => []TypeOK
BY PackageInvariantHolds, PTL

\* A row that names a package has it whole, the catalogue offers it and its owner
\* reads it back: submit_strategy stores before it registers, delete_strategy and
\* the discard remove the row before the objects, adopt_staged_source follows a
\* completed store, the cutover copies every row's package before the switch, and
\* publish_packages verifies before it commits.
THEOREM RowsHavePackages == Spec => []RowHasPackage
<1>1. TypeOK /\ PackageInvariant => RowHasPackage
  <2> SUFFICES ASSUME TypeOK, PackageInvariant PROVE RowHasPackage
    OBVIOUS
  <2>1. ASSUME NEW k \in StoreKeys, Referenced(k)
        PROVE  (\E v \in Versions : Equal(k, v)) /\ k \in Catalogue
    <3>1. \E v \in Versions : Equal(k, v)
      <4>1. CASE k \in UserKeys
        BY <2>1, <4>1 DEF PackageInvariant, RowOK, Referenced, Versions
      <4>2. CASE k \notin UserKeys
        BY <2>1, <4>2 DEF PackageInvariant, ScriptOK, Referenced, StoreKeys
      <4> QED BY <4>1, <4>2
    <3>2. PackageAvailable(k)
      BY <3>1 DEF Equal, PackageAvailable, Listed, Versions
    <3> QED BY <2>1, <3>1, <3>2 DEF Catalogue, Referenced, StoreKeys
  <2>2. ASSUME NEW k \in owned, row[k] = "stored"
        PROVE  StrategySource(k) = "v1"
    <3>1. k \in UserKeys /\ RowOK(k)
      BY DEF TypeOK, PackageInvariant
    <3> QED BY <2>2, <3>1 DEF RowOK, Equal, StrategySource, Files
  <2> QED BY <2>1, <2>2 DEF RowHasPackage
<1> QED BY <1>1, PackageInvariantHolds, PTL

\* load_user_strategy imports one complete version: what it copied object by object
\* was not replaced, and an object missing at the end fails the load.
THEOREM LoadsAreWhole == Spec => []LoadedWhole
<1>1. PackageInvariant => LoadedWhole
  <2> SUFFICES ASSUME PackageInvariant, NEW w \in Workers, load[w].pc = "loaded",
                      load[w].key \in Staged => row[load[w].key] = "stored"
               PROVE  \E v \in Versions : \A f \in Files : load[w].got[f] = v
    BY DEF LoadedWhole
  <2>1. LoadOK(w)
    BY DEF PackageInvariant
  <2>2. /\ load[w].key \in Uploads \union Staged \union BuiltinKeys
        /\ \A f \in Files : load[w].got[f] # "absent"
    BY <2>1 DEF LoadOK, StoreKeys, UserKeys
  <2>3. CASE load[w].key \in Uploads \union Staged
    <3>1. \A f \in Files : load[w].got[f] \in {"v1", "absent"}
      BY <2>1, <2>3 DEF LoadOK
    <3> QED BY <2>2, <3>1 DEF Versions
  <2>4. CASE load[w].key \in BuiltinKeys
    BY <2>1, <2>2, <2>4 DEF LoadOK
  <2> QED BY <2>2, <2>3, <2>4
<1> QED BY <1>1, PackageInvariantHolds, PTL

\* A submission that failed cleaned up after itself (store_strategy_source after a
\* failed put, _discard_unregistered_source after a failed insert), and a deleted
\* row's objects are gone when its request is over, except where a fault is on
\* record: the process died, a sweep was partial, an outcome could not be read.
THEOREM FailedUploadsLeaveNothing == Spec => []FailedUploadLeavesNothing
<1>1. PackageInvariant => FailedUploadLeavesNothing
  BY DEF PackageInvariant, LeftOK, FailedUploadLeavesNothing, Exist, Listed
<1> QED BY <1>1, PackageInvariantHolds, PTL

\* A request overwrites no complete object: the collision guard, and what each put
\* left behind, are what its next write relies on.
LEMMA RequestReplacesNothing ==
  ASSUME TypeOK, PackageInvariant, NEW r \in Requests, RequestAction(r),
         NEW b \in Backends, NEW k \in StoreKeys, NEW f \in Files,
         objects[b][k][f] \in Versions, objects'[b][k][f] # objects[b][k][f]
  PROVE  objects'[b][k][f] = "absent" /\ k \in UserKeys /\ row'[k] # "stored"
<1> /\ RequestOK(r) /\ AloneOK(r) /\ ContentOK(r)
  BY DEF PackageInvariant
<1>1. RequestMoves(r)
  BY EveryRequestMoves DEF PackageInvariant
<1>2. /\ b = backend /\ k = proc[r].key
      /\ proc[r].pc \in Writing \/ (At(r, "discard") /\ objects'[b][k][f] = "absent")
  BY <1>1 DEF RequestMoves, ObjectsMove
<1>3. k \in UserKeys
  <2>1. proc[r].upload # NoKey => proc[r].upload \in UserKeys
    BY DEF TypeOK, UserKeys
  <2> QED BY <1>2, <2>1 DEF RequestOK, Writing, At, InStore, UserKeys
<1>4. row[k] # "stored" /\ row'[k] # "stored"
  <2>1. row[k] # "stored"
    BY <1>2 DEF ContentOK, AloneOK
  <2> QED BY <1>1, <1>2, <1>3, <2>1 DEF RequestMoves, RowsMove, Writing, InStore, At
<1>5. CASE proc[r].pc \in Writing
  <2>1. StoreStep(r)
    BY <1>5 DEF RequestAction, Writing, InStore, At, Submit, SweepList, SweepNext, SweepDone,
       Adopt, Create, Verify, Discard, DeleteStrategy
  <2>2. ASSUME NEW g \in Files, NEW here \in Steps, NEW writing \in Steps,
               StorePut(r, g, here, writing) \/ StoreWrite(r, g, writing),
               \/ g = "source" /\ here = "put_source" /\ writing = "write_source"
               \/ g = "config" /\ here = "put_config" /\ writing = "write_config"
        PROVE  FALSE
    <3>1. StoreEffect(r, g, here, writing)
      BY <2>2, PutView DEF TypeOK, RequestRecord
    <3>2. /\ At(r, here) \/ At(r, writing)
          /\ objects' = objects \/ \E c \in Contents : Write(k, g, c)
      BY <1>2, <3>1 DEF StoreEffect, Contents, Versions
    <3>3. g = f
      BY <1>2, <3>2, WriteView
    <3>4. Object(k, g) \in {"torn", "absent"}
      BY <1>2, <2>2, <3>2 DEF ContentOK, At
    <3> QED BY <1>2, <3>3, <3>4 DEF Object, Versions
  <2>3. StoreCleanup(r)
    <3>1. ~StoreExists(r) /\ ~StoreCompare(r)
      BY <1>5 DEF StoreExists, StoreCompare, At, Writing
    <3>2. /\ "source" \in Files /\ "config" \in Files
          /\ {"put_source", "write_source", "put_config", "write_config"} \subseteq Steps
      BY DEF Files, Steps
    <3>3. ASSUME \/ StorePut(r, "source", "put_source", "write_source")
                 \/ StoreWrite(r, "source", "write_source")
          PROVE  FALSE
      BY ONLY <2>2, <3>2, <3>3
    <3>4. ASSUME \/ StorePut(r, "config", "put_config", "write_config")
                 \/ StoreWrite(r, "config", "write_config")
          PROVE  FALSE
      BY ONLY <2>2, <3>2, <3>4
    <3> QED BY <2>1, <3>1, <3>3, <3>4 DEF StoreStep
  <2>4. objects'[b][k][f] = "absent"
    BY <1>2, <2>3, SweepView DEF StoreCleanup
  <2> QED BY <1>3, <1>4, <2>4
<1> QED BY <1>2, <1>3, <1>4, <1>5

\* No step replaces a complete object, and one is removed only when no row names
\* it: put is preceded by the collision guard, the scripts write conditionally, and
\* rows go before objects.
THEOREM StoredIsNeverReplaced == Spec => StoredNeverReplaced
<1> DEFINE Replaces(b, k, f) ==
        objects[b][k][f] \in Versions =>
           \/ objects'[b][k][f] = objects[b][k][f]
           \/ objects'[b][k][f] = "absent" /\ k \in UserKeys /\ row'[k] # "stored"
<1>1. ASSUME TypeOK, PackageInvariant, [Next]_vars,
             NEW b \in Backends, NEW k \in StoreKeys, NEW f \in Files
      PROVE  Replaces(b, k, f)
  <2>1. "absent" \notin Versions
    BY DEF Versions
  <2>2. CASE RequestStep
    BY <1>1, <2>2, RequestReplacesNothing DEF RequestStep, RequestAction
  <2>3. CASE objects' = objects
    BY <2>3
  <2>4. CASE \E k2 \in UserKeys, f2 \in Files : MigrateCopy(k2, f2)
    <3>1. PICK k2 \in UserKeys, f2 \in Files : MigrateCopy(k2, f2)
      BY <2>4
    <3>2. /\ Remote(k2, f2) = "absent" /\ k2 \in StoreKeys /\ Local(k2, f2) \in Contents
          /\ objects' = objects \/ objects' = [objects EXCEPT !["s3"][k2][f2] = Local(k2, f2)]
      BY <1>1, <3>1 DEF MigrateCopy, StoreKeys, Local, TypeOK, Backends
    <3> QED BY <1>1, <2>1, <2>3, <3>2, RemoteView DEF Remote
  <2>5. CASE \E f2 \in Files : PublishPut(f2)
    <3>1. PICK f2 \in Files : PublishPut(f2)
      BY <2>5
    <3>2. /\ pub.key \in StoreKeys /\ vendored \in Contents
          /\ \/ objects' = objects
             \/ /\ Remote(pub.key, f2) = "absent"
                /\ objects' = [objects EXCEPT !["s3"][pub.key][f2] = vendored]
      BY <1>1, <3>1 DEF PublishPut, PackageInvariant, ScriptOK, StoreKeys, TypeOK, Contents
    <3> QED BY <1>1, <2>1, <2>3, <3>2, RemoteView DEF Remote
  <2>6. CASE LoadStep
    BY <2>3, <2>6 DEF LoadStep, LoadStart, LoadList, LoadCopy, LoadDone, storeVars
  <2>7. CASE Crash \/ StopApi \/ StartApi \/ UNCHANGED vars
    BY <2>3, <2>7 DEF Crash, StopApi, Halt, StartApi, vars, storeVars
  <2>8. CASE ScriptStep
    BY <2>3, <2>4, <2>5, <2>8 DEF ScriptStep, Migrate, MigrateInventory, MigratePlan, MigrateExit,
       MigrateDies, Switch, MigrateVerify, PublishPlan, PublishCommit, PublishDies, Seed, Deploy,
       Claim, storeVars
  <2> QED BY <1>1, <2>2, <2>6, <2>7, <2>8 DEF Next
<1>2. TypeOK /\ PackageInvariant /\ [Next]_vars
        => [\A b \in Backends, k \in StoreKeys, f \in Files : Replaces(b, k, f)]_vars
  BY <1>1
<1> QED BY <1>2, PackageInvariantHolds, PTL DEF Spec, StoredNeverReplaced
===============================================================================
