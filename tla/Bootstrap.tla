------------------------------ MODULE Bootstrap ------------------------------
(***************************************************************************)
(* How the showcase gets its database.  In the preview (lib/db.ts) one     *)
(* process keeps an embedded database on globalThis while hot reloads make *)
(* new instances of the module; each brings the files of migrations/ it    *)
(* was built with.  A deployed app is migrated by its builds instead       *)
(* (scripts/migrate.mjs), which may overlap.  The driver of the auth       *)
(* library shares the embedded database over one logical connection        *)
(* (lib/auth/pglite-dialect.ts).                                           *)
(*                                                                         *)
(* A step is what runs between two awaits.  A transaction is one step:     *)
(* both databases run it alone and commit or undo it as a whole.           *)
(***************************************************************************)
EXTENDS Integers, Sequences, FiniteSets

CONSTANTS
  Instances,      \* module instances in the order of their loading, or builds
  Callers,        \* calls of getSql
  AuthOps,        \* operations of the auth library
  Files,          \* migration files, ordered by name
  Late,           \* those that are added while the process runs
  MaxDbFaults     \* bound on failing opens, statements and builds

ASSUME BootstrapAssumption ==
  /\ Instances \subseteq Nat /\ Files \subseteq Nat
  /\ IsFiniteSet(Instances) /\ IsFiniteSet(Files)
  /\ Late \subseteq Files /\ MaxDbFaults \in Nat

VARIABLES
  dbSource,
  disk,        \* files in migrations/
  seen,        \* files each loaded instance was built with
  loaded,
  pglite,      \* __pgliteInstance__
  boot,        \* whose ensureDbReady __pgBootstrapPromise__ is, if any
  sql,         \* sqlPromise of each instance, and how far it has got
  todo,        \* what pendingMigrations has returned to a pass
  chain,       \* passes of __pgliteMigrateChain__ that have not settled
  applied,     \* _migrations
  runs,        \* history: how often each file has been committed
  call,        \* each call of getSql
  dbFaults,
  connection,  \* the driver: who holds its connection
  queue,       \* and who waits for it
  auth         \* each operation of the auth library

passVars == <<dbSource, disk, seen, loaded, pglite, boot, sql, todo, chain, applied, runs,
              call, dbFaults>>
driverVars == <<connection, queue, auth>>
bootVars == <<passVars, driverVars>>

Idle == [on |-> 0, result |-> "none", faultsBefore |-> 0]
Waiting(c) == call[c].on # 0 /\ call[c].result = "none"

\* Files are applied in the order of their names, which the numbers stand for.
pendingMigrations(paths, done) == paths \ done
first(files) == CHOOSE f \in files : \A g \in files : f <= g

BootInit ==
  /\ dbSource \in {"pglite", "neon"}
  /\ disk = Files \ Late
  /\ seen = [m \in Instances |-> {}]
  /\ loaded = {}
  /\ pglite = "none"
  /\ boot = 0
  /\ sql = [m \in Instances |-> "none"]
  /\ todo = [m \in Instances |-> {}]
  /\ chain = <<>>
  /\ applied = {}
  /\ runs = [f \in Files |-> 0]
  /\ call = [c \in Callers |-> Idle]
  /\ dbFaults = 0
  /\ connection = "none"
  /\ queue = <<>>
  /\ auth = [a \in AuthOps |-> "idle"]

\* A source file is edited or added.
Edit(f) ==
  /\ f \in Late \ disk
  /\ disk' = disk \cup {f}
  /\ UNCHANGED <<dbSource, seen, loaded, pglite, boot, sql, todo, chain, applied, runs, call,
                 dbFaults, driverVars>>

\* createPgliteSql up to its first await: opens the database unless somebody has.
Start(m) ==
  /\ sql' = [sql EXCEPT ![m] = IF @ = "none" THEN "opening" ELSE @]
  /\ pglite' = IF sql[m] = "none" /\ pglite = "none" THEN "opening" ELSE pglite

\* The module is evaluated: it boots the database unless an earlier instance did.
Load(m) ==
  /\ dbSource = "pglite" /\ m \notin loaded /\ \A n \in Instances : n < m => n \in loaded
  /\ loaded' = loaded \cup {m}
  /\ seen' = [seen EXCEPT ![m] = disk]
  /\ IF boot = 0 THEN boot' = m /\ Start(m) ELSE UNCHANGED <<boot, sql, pglite>>
  /\ UNCHANGED <<dbSource, disk, todo, chain, applied, runs, call, dbFaults, driverVars>>

\* A request may still run code of an instance that has been replaced.
getSql(c, m) ==
  /\ m \in loaded /\ call[c] = Idle
  /\ Start(m)
  /\ call' = [call EXCEPT ![c] = [on |-> m, faultsBefore |-> dbFaults,
                                  result |-> IF sql[m] = "ready" THEN "ok" ELSE "none"]]
  /\ UNCHANGED <<dbSource, disk, seen, loaded, boot, todo, chain, applied, runs, dbFaults,
                 driverVars>>

\* A failed init clears its slot so the next call retries.
Cleared(ms) == [m \in Instances |-> IF m \in ms THEN "none" ELSE sql[m]]

\* The promises of ms reject, and with them the calls that wait for them.
Reject(ms) ==
  /\ sql' = Cleared(ms)
  /\ boot' = IF boot \in ms THEN 0 ELSE boot
  /\ call' = [c \in Callers |-> IF Waiting(c) /\ call[c].on \in ms
                                THEN [call[c] EXCEPT !.result = "failed"] ELSE call[c]]
  /\ todo' = [m \in Instances |-> IF m \in ms THEN {} ELSE todo[m]]

Opening == {m \in Instances : sql[m] = "opening"}

Open ==
  /\ pglite = "opening"
  /\ \/ /\ pglite' = "open" /\ UNCHANGED <<boot, sql, todo, call, dbFaults>>
     \/ /\ dbFaults < MaxDbFaults /\ dbFaults' = dbFaults + 1
        /\ pglite' = "none"
        /\ Reject(Opening)
  /\ UNCHANGED <<dbSource, disk, seen, loaded, chain, applied, runs, driverVars>>

\* The pass is appended to the global chain.
Enchain(m) ==
  /\ pglite = "open" /\ sql[m] = "opening"
  /\ sql' = [sql EXCEPT ![m] = "chained"]
  /\ chain' = Append(chain, m)
  /\ UNCHANGED <<dbSource, disk, seen, loaded, pglite, boot, todo, applied, runs, call,
                 dbFaults, driverVars>>

\* An earlier pass has settled, whether it succeeded or not.
MyTurn(m) == sql[m] = "chained" /\ Head(chain) = m

\* migrate reads _migrations; a build does so at once.
Read(m) ==
  /\ \/ MyTurn(m) /\ UNCHANGED seen
     \/ /\ dbSource = "neon" /\ sql[m] = "none"
        /\ seen' = [seen EXCEPT ![m] = disk]
  /\ sql' = [sql EXCEPT ![m] = "applying"]
  /\ todo' = [todo EXCEPT ![m] = pendingMigrations(seen'[m], applied)]
  /\ UNCHANGED <<dbSource, disk, loaded, pglite, boot, chain, applied, runs, call, dbFaults,
                 driverVars>>

\* Mutant: a pass that is over is still waited for.
StillThere(m) == chain
\* Passes settle in turn; a build is on no chain.
Settled(m) == IF chain # <<>> /\ Head(chain) = m THEN Tail(chain) ELSE chain

\* Mutant: the name is not the primary key.
AnyName(f) == TRUE
isNew(f) == f \notin applied

\* One file and its row in _migrations, in one transaction.
Apply(m) ==
  LET f == first(todo[m]) IN
  /\ sql[m] = "applying" /\ todo[m] # {}
  /\ \/ /\ isNew(f)
        /\ applied' = applied \cup {f}
        /\ runs' = [runs EXCEPT ![f] = @ + 1]
        /\ todo' = [todo EXCEPT ![m] = @ \ {f}]
        /\ UNCHANGED <<boot, sql, chain, call, dbFaults>>
     \/ /\ \/ ~isNew(f) /\ UNCHANGED dbFaults
           \/ dbFaults < MaxDbFaults /\ dbFaults' = dbFaults + 1
        /\ Reject({m})
        /\ chain' = Settled(m)
        /\ UNCHANGED <<applied, runs>>
  /\ UNCHANGED <<dbSource, disk, seen, loaded, pglite, driverVars>>

\* The pass has applied everything: sqlPromise resolves.
Ready(m) ==
  /\ sql[m] = "applying" /\ todo[m] = {}
  /\ sql' = [sql EXCEPT ![m] = "ready"]
  /\ chain' = Settled(m)
  /\ call' = [c \in Callers |-> IF Waiting(c) /\ call[c].on = m
                                THEN [call[c] EXCEPT !.result = "ok"] ELSE call[c]]
  /\ UNCHANGED <<dbSource, disk, seen, loaded, pglite, boot, todo, applied, runs, dbFaults,
                 driverVars>>

\* A failed request is sent again.
CallAgain(c) ==
  /\ call[c].result = "failed"
  /\ call' = [call EXCEPT ![c] = Idle]
  /\ UNCHANGED <<dbSource, disk, seen, loaded, pglite, boot, sql, todo, chain, applied, runs,
                 dbFaults, driverVars>>
-----------------------------------------------------------------------------
\* acquireConnection waits for getPglite the first time.
AskConnection(a) ==
  /\ auth[a] = "idle" /\ loaded # {}
  /\ auth' = [auth EXCEPT ![a] = "asking"]
  /\ UNCHANGED <<passVars, connection, queue>>

Taken(a) == connection # "none"

acquireConnection(a) ==
  /\ auth[a] = "asking" /\ \E m \in loaded : sql[m] = "ready"
  /\ IF Taken(a)
     THEN /\ queue' = Append(queue, a)
          /\ auth' = [auth EXCEPT ![a] = "queued"]
          /\ UNCHANGED connection
     ELSE /\ connection' = "made"
          /\ auth' = [auth EXCEPT ![a] = "holds"]
          /\ UNCHANGED queue
  /\ UNCHANGED passVars

\* The connection is handed to whoever waits longest.
releaseConnection(a) ==
  /\ auth[a] = "holds"
  /\ IF queue = <<>>
     THEN /\ connection' = "none"
          /\ auth' = [auth EXCEPT ![a] = "idle"]
          /\ UNCHANGED queue
     ELSE /\ auth' = [auth EXCEPT ![a] = "idle", ![Head(queue)] = "holds"]
          /\ queue' = Tail(queue)
          /\ UNCHANGED connection
  /\ UNCHANGED passVars

\* What runs by itself once it has been started.
BootProgress ==
  \/ Open
  \/ \E m \in Instances : Enchain(m) \/ (dbSource = "pglite" /\ Read(m)) \/ Apply(m) \/ Ready(m)

BootNext ==
  \/ BootProgress
  \/ \E f \in Late : Edit(f)
  \/ \E m \in Instances : Load(m) \/ (dbSource = "neon" /\ Read(m))
  \/ \E c \in Callers : CallAgain(c) \/ \E m \in Instances : getSql(c, m)
  \/ \E a \in AuthOps : AskConnection(a) \/ acquireConnection(a) \/ releaseConnection(a)

BootSpec == BootInit /\ [][BootNext]_bootVars
-----------------------------------------------------------------------------
\* However many instances, calls or builds migrate at the same time, a file is
\* committed once (the serialised passes, the primary key, the transaction),
\* and whoever gets a database gets the schema its own code was written for.
SchemaSound ==
  /\ \A f \in Files : runs[f] <= 1
  /\ \A m \in Instances : sql[m] = "ready" => seen[m] \subseteq applied

\* Operations of the auth library have the connection one at a time.
OneHolder ==
  /\ \A a, b \in AuthOps : auth[a] = "holds" /\ auth[b] = "holds" => a = b
  /\ (connection = "made") <=> \E a \in AuthOps : auth[a] = "holds"

\* The pass a call waits for: that of its instance, or the first of the chain.
Ahead(c) == IF sql[call[c].on] = "chained" THEN Head(chain) ELSE call[c].on

\* In the preview a call of getSql gets its database, unless something fails
\* meanwhile: it fails only when something has failed since it was made, since
\* two passes do not get in each other's way and no failure is remembered; and
\* as long as it waits, what it waits for has a next step, although passes
\* before it fail.  (A pass has finitely many steps and starts no other.)
CallsSucceed ==
  dbSource = "pglite" =>
    \A c \in Callers :
      /\ call[c].result = "failed" => dbFaults > call[c].faultsBefore
      /\ Waiting(c) => \/ sql[Ahead(c)] = "opening" /\ pglite \in {"opening", "open"}
                       \/ MyTurn(Ahead(c))
                       \/ sql[Ahead(c)] = "applying"
=============================================================================
