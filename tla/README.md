# A verification of wpssh

wpssh is a Go program: `wpgo`, a command line tool that runs WP-CLI on many
WordPress sites over SSH, and `wpssh-mcp`, a server that offers a few of the same
commands to an MCP client.  This directory models the parts of it whose state is
shared and whose steps interleave, checks the models with TLC on small
instances, and proves the main results with TLAPS for instances of every size.

Paths are relative to `internal/` unless they begin with `cmd/wpssh-mcp`.

## 1. The system

### Components

| Component | State it keeps | Operations | What makes it correct |
|---|---|---|---|
| **Host rate limiter** `ssh/ratelimit.go` | per canonical host: a semaphore of `MaxConns` slots, a current delay, the next allowed start | `Acquire`, release, `OnTransportError`, `OnSuccess` | never more than `MaxConns` calls inside; reserved starts a delay apart; the delay in its range; every waiting call served |
| **SSH pool** `ssh/pool.go`, `ssh/client.go` | per connection key: an entry (client, users, last use) and a lock; `closed` | `Get`, release, `Remove`, `Close`, reaper, keepalive probe; `Exec*` | slots and users counted right on every path; no connection leaks; nobody's session is closed by another; cancelled calls return |
| **Batch executor** `batch/executor.go` | results, a progress count, a semaphore, one goroutine per host | `Execute`, one after the other or in parallel | one result per site; concurrency respected; sites of a host in turns and in order; nothing started without consent; returns |
| **Safety tiers** `safety/tiers.go` | tables | `Classify`, `CheckBatchSafety` | the consent each tier demands |
| **Result cache** `cache/*`, `cmd/context.go` | rows of an SQLite file shared by all runs | `Get`, `Set`, `Invalidate`, expiry | what a command did and told the cache is not hidden by a later hit |
| **Command handlers** `cmd/*.go` | none of their own | list: hit, or ask and store; command: run and invalidate | they tell the cache what they change |
| **Import and dump** `cmd/db_import.go`, `cmd/dump.go` | staged and partial files, the backup | `restoreDB`, `stageDump`, `saveDump` | no half dump under a final name, none replaced; no import without a saved backup; nothing left behind; an interrupt ends it |
| **Dump scanner** `cmd/dumpscan.go`, `dumpvalues.go` | quoting state, the statement so far, what SQL variables hold | lines, quotes, comments, delimiters; heads, names, rows, columns, `SET` | clients and servers read the dump as it does; an accepted statement stays in the database and in literals |
| **Raw guard** `cmd/raw.go`, `raw_guard.go` | none | checks words, options, stdin of `wpgo raw` | what it checks is what `wp` will parse |
| **MCP server** `mcpserver/*`, `cmd/wpssh-mcp` | a service with pool and registry | requests with deadlines, shutdown | no use after close; deadlines that say what they did |
| **Registry and config** `registry/*`, `config/*`, `cmd/sites.go` | `sites.json`, `config.json` | load, change, save by rename | a file under its own name is always whole |
| **Builder, parser, adapters** `wpcli/*`, `adapter/*` | none | build command lines, parse JSON | - |
| **Output, progress, keys, setup, scripts** | none shared | formatting, dialogue | - |

### How they interact

A handler in `cmd` makes a `RunContext` (registry, config, limiter, pool, client,
cache).  `ExecWP` asks the adapter, which calls `SSHClient.Exec`; that takes a
slot from the limiter, then the key's lock, then looks into the pool and perhaps
probes or dials, runs its session and gives everything back.  The batch executor
calls the same `Exec` for many sites at once; the MCP server does for many
requests at once.  Runs of `wpgo` share nothing but files: the cache, the sites
and the configuration, the dumps, and of course the sites themselves.

`db import` stages the dump on this machine while the scanner reads it, saves a
backup with `saveDump`, and only then sends what it staged.  The scanner's verdict
is about other programs: the `mysql` or `mariadb` client that `wp db import` runs
and the server behind it, which read the same bytes with rules of their own.

### What is hard in it

*Concurrency.*  Calls wait in three places (semaphore, time slot, key lock) with
different rules for cancellation, and `Get` has seven exits that must return
what was taken.  A reaper, a shutdown and other calls' evictions run between
any two steps.  *Staleness.*  Entries are looked up again by key after a lock was
released; a probe outcome, a cached row or an expired reservation is used later
than it was read.  *Failure.*  Connections die, servers refuse or fall silent,
commands fail half way, answers are lost.  *Timing.*  Start times are reserved
before they come and the delay changes meanwhile.  *Files.*  A dump or a
configuration is written in several system calls, any of which can fail, be
interrupted, be cut by a power loss, or meet another process.  *Readers.*  A dump is
read by five programs that disagree on comments, quotes and commands; the scanner
is right only about dumps on which they agree.  The complete list, each with
the line where it bites and the properties about it, is under `hazards` in
`PROJECT.json`.

## 2. The modules

| Module | Models | Role |
|---|---|---|
| `Backoff` | arithmetic of delays and slots | used by the next two |
| `RateLimiter` | the limiter with its times | detailed specification |
| `RateLimiter_proofs` | | theorems |
| `SharedConnections` | what the pool promises | abstract specification |
| `SSHPool` | pool and client | detailed specification, refines the former |
| `SSHPool_proofs` | | theorems |
| `BatchContract` | what `Execute` promises | abstract specification |
| `BatchExecutor` | both ways of executing, with the safety gate | detailed specification, refines the former |
| `BatchExecutor_proofs` | | theorems |
| `ResultCache` | cache rows, lists, commands | detailed specification |
| `ResultCache_proofs` | | theorems |
| `Restore` | import, export and backup on the operator's machine | detailed specification |
| `Restore_proofs` | | theorems |
| `DumpReaders` | clients and servers reading a dump, byte by byte | external, used by the next |
| `DumpLexer` | the scanner's bytes, lines, quotes and comments | detailed specification |
| `DumpLexer_proofs` | | theorems |
| `DumpBodies` | rows of `INSERT`, columns of `CREATE TABLE` | used by the next but one |
| `DumpNames` | statement heads and the names in them | used by the next |
| `DumpStatement` | statements, variables, the server's session | detailed specification |
| `DumpHeads_proofs` | | lemmas on statement heads |
| `DumpStatement_proofs` | | theorems on the session and on statements |
| `StateFile` | `sites.json` and `config.json` between processes | detailed specification |
| `MC*` | instances for TLC | constants only |

Operators whose name holds an underscore and whose comment begins with "Fault"
are wrong variants of the operator before or after them, of the kind a slip in
the code would cause.  No specification uses them; they serve to see that the
properties notice.

### RateLimiter

A call is a goroutine from `Acquire` to the release function.  `LookUp` and
`Create` are the two critical sections of `getBucket` (a bucket bears the name of
the call that made it, so two buckets for one host would show), `TakeToken` is
step 1 of `Acquire`, `Reserve` steps 2 to 5 under `timingMu`, `Wake` and
`CancelSleep` step 6.  `OnSuccess`, `DialFails`, `OnTransportError`, `Start` and
`Release` are what `Pool.Get` and its caller do with the slot, in the order of
the code: the slot goes back *before* an error raises the delay.  Time is a
number; `Tick` lets it pass.

### SSHPool

One action per critical section of `p.mu` (with the `entry.mu` sections inside
it, which no other code enters without `p.mu` or the key's lock) or per wait.
A call is one `execInternal`.  A call dials at most once, so its connection bears
its name.  `pc` follows the code: `start` (semaphore), `sleep` (time slot), `lock`
(key lock), `check`, `probe`, `evict`, `dial`, `handshake`, `report`, `unwind`,
`install`, `handOut` inside `Get`, then `session`, `running`, `remove`,
`removing`, `release`, `freeSlot` in the caller.  `LinkDies`, `GoesIdle`,
`ReapIdle`, `Close` and `Cancel` may come at any time.  The choice of
authentication methods is one outcome of `dial`; agent forwarding keeps no state.
The times of the limiter are left to `RateLimiter`: here waiting for a time slot
is a state, and semaphore and delay are kept per host.

`SharedConnections` knows no locks, limits, probes or errors: per key there is
at most one current connection, calls lease it, it is taken only from the one
call that asks, or by the shutdown.  The mapping: `current` is `pooled`, `lease`
is `conn`, `usable` are the connections that are not closed and have left the
hands of their maker, `fresh` those that have not.

### BatchExecutor

`opts` are the options and whether stdin is a terminal; `SkipBatch` and `Begin`
are `Execute`; `RunInOrder` and `EndInOrder` are the loop of
`executeSequential`; `TakeSlot`, `SkipInGroup`, `RunInGroup`, `EndInGroup`,
`EndGroup` are the goroutine of one host, `ReturnResults` is `wg.Wait()`.  Looking
at the context, counting and starting a command are one step, because a context
that ends in between cannot be told from one that ends in the command.
`BatchContract` knows only the status of each site, whether commands are allowed
and whether `Execute` has returned.

### ResultCache

A process is one run of `wpgo`, for one site, with one job: a list or a command.
What the site would answer is a version number per category; each SQLite
statement is a step.  The handlers are grouped by their control: all of a group
do the same and differ in words.  `PluginList` ... `CoreCheckUpdate` say under
which category a list stores its answer; `PluginCommands` ... `DBQuery` say what
a command's handler invalidates.  `Subject` and `Touches` are external: what
wp-cli changes.  `Change` may happen after the client is gone.  A dry run gets an
empty answer (`Phantom`), which a list stores like any other; the empty version
of `core version` reads as a miss, the `null` of an empty list as a hit.
`overtaken` marks lists that have an answer in hand while a command invalidates
it.  `db import` goes its own way (`IsImport`): once `wp db import` was started it
invalidates however that ended, with a status, a broken connection or a signal.
An import that was lost may go on while the run invalidates and after it; `late`
are the categories it changed only then.  Any run may be killed, have no cache
(`--no-cache`), or fail to delete the rows, which the code only reports
(`InvalidatesNothing`).

### Restore

A run is one `db import`, `db export` or `backup`.  `pc` follows the code:
`StartImport` to `Confirm` are `DBImportCmd.Run` and `restoreDB` up to the backup,
with `stageDump` in `CreateStaging`, `ScanAccepts` and `ScanRefuses`;
`CreatePartial` to `Discard` are `saveDump`, used by an export and by an import's
backup; `Rewind` to `Unstage` the import.  What `DBImportCmd.Run` then tells the
cache of lists is in `ResultCache`.  Each call may fail.  A call to the server is
`OpenSession` (`execInternal` up to the handshake or `NewSession`, neither of which
looks at the context), `SessionOpens` (the server grants it), and then the command
itself, until `HangUp`.  `RemoteFails` and `ContextDone` are a call that returns an
error, the second because of a signal and only while its session is not just being
opened; the server may go on with what it was sent (`ServerApplies`), also after the
command returned.  `Signal`, `Kill` and
`PowerLoss` come at any time.  A dump is the content it holds, its length (empty,
cut, whole) and whether it was synced.  `Imported` is true even if the import
never reached the server, as in the code.

### DumpReaders and DumpLexer

Bytes are 23 classes, a few of which stand for a whole word (`use`, `delimiter`, a
client command, `OUTFILE`, a version number).  The dump is any sequence of them,
of any length: `Arrives` chooses a byte when the scanner first looks at it, and
keeps only the look-ahead.  `s` is the `dumpScanner`; `at` says in which function
it is.  Beside it five readers read each byte as it is consumed: the two clients,
MySQL's and MariaDB's server, and a server older than a comment's version.  Their
rules are those `scanDump`'s documentation ascribes to them, including what the
code takes for a client command at the start of a line.  Of `stmtCheck` only the
first token is kept.  Whether `use` names the target database is left open, and its
argument is made of word bytes; a delimiter is any number of semicolons up to
`MaxDelimiter`, for which the code has 16 (`dumpscan.go:246`).  A reader counts the
semicolons it has read of one (`semis`), the scanner looks ahead for all of them at
once (`IsDelimiter`).

### DumpNames, DumpBodies and DumpStatement

The tokens of a statement and, beside `stmtCheck`, the server that parses the same
tokens (`Hear`): which name is qualified with what, and whether a row or a column
default computes something.  The server reads a column on its own account, by what MySQL's
grammar lets stand there and to the column's end (`ColumnState`), not by the lists of
`checkTail`: `computes` says whether something is computed for a default's value, right
next to it, or later, behind a parenthesis, an attribute or an option's word.  `Tokens` offers what the server would parse at
that place, and `DumpNames` is `checkHead` and the checks of names below it,
`DumpBodies` `dumpValues` and `checkTail`.  `SetStatement` and `StoredProgram` are
whole statements: `CheckSet` is `checkSet`, `CheckAssignment` `checkAssignment`, `Poison`
the end of `stmtCheck.end`, whose iteration over a Go map is any order.  Which `SET`
statements a dump may hold is the constant `Sets`, any sequences of assignments; only
the instance for TLC bounds it.  What a loop of the code does to each of several
tokens, assignments or names in turn is `Through`, a recursive function.  `ProgramRuns` is a
trigger or routine that writes a variable it mentions; that `startVar` and `endVar` see
every variable it mentions is assumed.  The server runs
assignments from left to right and runs every version comment.

### StateFile

Directory entries name inodes, and a process that opened `path.tmp` keeps writing
to the inode it opened.  `OpenTmp`, `WriteTmp` and `RenameTmp` are the system calls
of `SaveMetadata` and `Save`, which are the same; `SitesAdd`, `SitesRemove` and
`Setup` load, change and save, `BuildRegistry` only loads both files.  A content
is the set of aliases or settings; a longer content overwritten by a shorter
one is `Damaged`.

## 3. What the runs check

All bounds are in the `.cfg` and `MC` files.

| Run | Instance | Properties | Shows |
|---|---|---|---|
| `limiter` | 3 calls, 1 host, 2 slots, delay 1, ceiling 3, time to 1 and as far as a sleeper needs | `TypeOK` `WithinMaxConns` `SlotsSpaced` `Throughput` `DelayInRange` `Served` | the limiter keeps its limits, and every call that asks is served or gives up |
| `pool` | 3 calls, 1 key, 2 slots | `TypeOK` `SlotsConserved` `ActiveIsUsers` `NoLeak` `NoForeignClose` `ImplementsSharing` | counting and sharing are right in every interleaving |
| `pool_live` | 3 calls, 1 key, 2 slots, one call cancellable, ceiling of the delay 1 | `CancelledReturns` `AllReturn` | no call is stuck if handshakes end |
| `pool_stall` | 2 calls, 1 key, handshakes need not end | `CancelledReturns` **violated** | see findings |
| `pool_recovery` | 2 calls with keys of their own on 1 host | `SuccessLowersDelay` **violated** | see findings |
| `batch` | 4 sites on 3 hosts, concurrency -1, 1, 2, all options | `TypeOK` `ExactlyOneResult` `WithinConcurrency` `ProgressAddsUp` `ImplementsContract` `Returns` | both ways of executing implement the contract, and return |
| `cache` | 3 runs, 2 lists, 1 command and `db import` | `TypeOK` `InvalidationSticks` | staleness has only the causes the property names |
| `cache_phantom` | 2 runs | `EntriesAreResults` **violated** | see findings |
| `restore` | a confirmed import beside an export to the same name, a second import, or a run that must change nothing; each may get a signal or be killed, one power loss | `TypeOK` `Restorable` `FinalNamesWhole` `NothingLeftBehind` `NeverReplaced` `InterruptEnds` | whatever fails, an import has a whole backup, no half dump has a final name, and Ctrl-C ends a command unless a wait that does not look at the context holds it |
| `dump_lex` | every dump over 23 classes of bytes, delimiters `;` and `;;` | `TypeOK` `ReadersAgree` `StatementsSplitTogether` `NoClientCommand` `NoFileWord` `ScanEnds` | what the scanner passes is read alike by all five readers |
| `dump_stmt` | 3 variables, 2 of them tracked, 2 names per statement | `TypeOK` `SessionLexicallySafe` `NamesStayHome` `LiteralRows` `LiteralDefaults` | accepted statements stay in the database, their rows are literals, nothing is computed for a default or next to it, and the `sql_mode` is the one the scanner assumes |
| `state_file` | 3 commands, 2 aliases, 2 settings | `AtomicWrite` **violated** | see findings |

*Why these bounds.*  The hazards of limiter and pool are races of two calls with a
third that waits, shares or comes later; two slots let two calls in and hold one
out.  With one key all calls meet on one connection (several keys meet only in
the semaphore, which `limiter` has).  `pool_live` has three calls for two slots, so that
one waits for a slot while another holds the other slot and waits for the key's lock;
one of them can be cancelled and the delay cannot rise, which bears on none of these
waits.  In `limiter`, a delay of 1 under a ceiling of 3 lets the
delay be doubled, capped, halved and floored.  A configured delay above the ceiling is
beyond its bounds: `DelayStaysInRange` covers it.  Four sites on three hosts with
concurrency 2 have a host with two sites, more hosts than slots, and sites left
to skip.  In `cache`, one list's empty answer is a miss and the other's a hit, the
command is about the first and may change the second, and the import is about both.  Beyond the bounds of these
stand the proofs, which have none.

In `restore`, two commands are what meets on one name and one database;
`MaxStopped` lets signals and kills meet both, and the power loss comes on top.
`dump_lex` has no bound on the dump: the scanner and its readers remember finitely
much, and TLC visits every combination.  Its `MaxDelimiter` is 2, enough for a
delimiter that is only begun and for one longer than the one before.  In `dump_stmt`, `MaxTracked = 2` stands for
the 48 of `maxHeadTokens` so that the tables of variables do fill up, with a third
variable that no longer fits; `MaxHead = 12` does the same for the tokens of a head,
of which a trigger's table may take eight.  Statements are read token by token only while no variable is
tracked, and variables only by whole `SET` statements of one assignment, or of a
save and an assignment, as `mysqldump` writes them; names and rows do not touch
variables in the code either.  System variables other than `sql_mode` and
`character_set_client` are one, `other`.

*Deadlock* is not checked (`CHECK_DEADLOCK FALSE`): calls, batches and runs are
one-shot and the system stops when all are done, and a scanner stops when it
refuses.  That none stops early is what `Served`, `AllReturn`, `Returns`,
`InterruptEnds` and `ScanEnds` say.

*Symmetry* of calls, runs and variables is used in `pool`, `cache` and
`dump_stmt`, which have safety properties only.

### Fairness

* `RateLimiter!Spec`: goroutines are scheduled, timers fire (`Tick`), and a call
  that holds a slot eventually releases it.  Taking a token is fair together with
  the rest of a call: Go's channels serve blocked senders first in, first out, so a
  waiter is not passed over for ever.  Cancellation is never promised.
* `SSHPool!FairSpec`: goroutines are scheduled; the 5 s timer of the probe fires;
  a server that is asked for a session grants or refuses it or the connection
  breaks (`NewSession` has no context: it is assumed to be answered); handshakes
  end.  `StallingSpec` drops the last.  *No command is assumed to end*: only a
  context ends it, which is why `AllReturn` excepts runs with a command that goes
  on for ever.
* `BatchExecutor!Spec`: goroutines run and each site's `Exec` returns, which
  `pool_live` shows of the client below where handshakes and commands end.
* `Restore!Spec`: a command takes its own steps, and a call to the server whose
  session is open returns once its context is done: `execInternal` waits for the
  command and the context together (`ssh/client.go:114`).  The server need never
  answer, a session need never be granted, and the source of a dump need never end.
  So `InterruptEnds` promises an end to every command that no wait deaf to the
  context (`Deaf`) holds: `stageDump` reads its source without the context, and the
  handshake and `NewSession` take none.  A command that gets out of such a wait is
  again under the promise.
* `DumpLexer!Spec`: the scanner runs; the dump need not end.
* `ResultCache!Spec`, `DumpStatement!Spec`, `StateFile!Spec`: none; their
  properties are safety.

### Findings

1. `pool_stall`: `dial` is documented to dial "with context for cancellation
   support" (`ssh/pool.go:307`), but the SSH handshake (`pool.go:314`) gets
   neither the context nor a deadline.  A server that accepts and then says
   nothing holds a cancelled call, its slot and the key's lock.
2. `pool_recovery`: `OnSuccess` is documented to lower the delay "after a
   successful command" (`ssh/ratelimit.go:158`); it is called only after a
   successful dial, so commands on a pooled connection leave a raised delay raised.
3. `cache_phantom`: a `CacheEntry` is documented as "a single cached wp-cli query
   result" (`cache/models.go:25`); with `--dry-run` the lists store an empty one,
   and later plain lists show it until it expires.
4. `state_file`: both files are documented to be saved "using atomic write"
   (`registry/metadata.go:61`, `config/config.go:63`), but every process uses the
   same `path.tmp`.  One opens it, and so truncates what another has written; the
   other renames it; until the first has written, or for ever if it fails, the file
   is empty and every command that loads it fails.  There is no lock, so the
   second save of two also undoes the first's change, of which no document says
   anything.

Seen on the way and not made into a run: `setup` does not count a new group without
aliases as a change and may then not save it (`cmd/setup.go:197`); the advice at
`cmd/dumpscan.go:253` to use the delimiter `$$` names one that the condition above
it refuses, `$` being a word byte; `option list` caches option values, which
`wpcli/types.go:83` says are never cached; `config/defaults.go` keys a
default limit by an IP without port, which no canonical host equals; `update-all`
and `db query` never invalidate the cache.  The comment at `cmd/dumpscan.go:1278` says
that only a column attribute or the end of the column may follow a default, and that
this keeps operators out which evaluate a function, `RLIKE` for one.  `checkTail` looks
at one token only: `DEFAULT CURRENT_TIMESTAMP(6) RLIKE f()` passes, the parenthesis
being allowed, and so does what stands behind `NOT`, `COLLATE` or an option's word.
`LiteralDefaults` excepts just that (`later`).

## 4. What is proved

Each theorem holds for every finite number of calls (or any set of runs) and
every configuration the constants' assumptions allow.  `Invariance` in each
proof module states the inductive invariant `IInv` (for the dump, `SessionTracked`,
`StatementsRead` and `LexInvHolds` do); the proof module's lemmas show that `Init` implies it and each
step keeps it, action by action.

**RateLimiter_proofs**: `TypeCorrect`, `MaxConnsHolds`, `DelayStaysInRange`,
`SlotsAreSpaced`, `ThroughputIsBounded`.  The properties are not inductive: that a
host has no more holders than slots needs that every call works on the one bucket
of its host (`OwnBucket`) and that its tokens count the holders (`Counted`); that
slots are spaced needs that no slot given out is beyond `nextAllowedAt`
(`SlotsBehind`) and that the delay is at least the spacing (`DelayInRange`);
throughput needs that as many spacings as reservations fit below any time
(`Paced`) and that nobody passes its slot early (`Arrived`).

**SSHPool_proofs**: `TypeCorrect`, `SlotsAreConserved`, `ActiveCountsUsers`,
`NothingLeaks`, `NobodyElseCloses` and `Implementation` (the pool implements
`SharedConnections`).  The layers of the invariant: types with integer counters;
`LockHeld` (who is inside the key's lock owns it); `Places` (which calls have a
connection, and that a connection exists once its maker dialled); the two
counters; and `Sharing`: keys fit, an open pool's connection in use is the pooled
one, a prober is the only user, and nobody dials for a key that has an entry.
`FewUsers` turns the counters into what the code reads off them: 0 means nobody,
1 means at most one.

**ResultCache_proofs**: `TypeCorrect`, `InvalidationAlwaysSticks`.  The
strengthening is `AnswersKnow`: an answer on its way into the cache misses nothing
told, or is marked overtaken; that versions are made by commands only (`Versions`);
and that a command goes on without its run only when it was lost, killed or told the
cache nothing (`JobsFit`), so what it does then is excused, or marked `late`.

**BatchExecutor_proofs**: `TypeCorrect`, `EverySiteOnce`, `ConcurrencyHolds`,
`ProgressIsRight` and `Implementation` (both ways of running a batch implement
`BatchContract`).  The strengthening says what the phases leave implicit:
`Sequential` (a prefix of the batch is recorded and only the next site runs),
`Parallel` (the semaphore counts the goroutines in `Holding`, each of which runs at
most one command; the progress count is the size of `Taken`), `InTurn` (earlier
sites of the host are settled) and `Allowed` (behind the gate there is consent).
The limit then follows by an injection from the running sites into `Holding`.

**Restore_proofs**: `TypeCorrect`, `AlwaysRestorable`, `FinalNamesAreWhole`,
`NothingIsLeftBehind` and `FilesAreNeverReplaced`, for any
number of commands with any options on any paths, and any number of signals and
kills.  That an import has its backup needs to be known before the import: `Dumps`
(what is synced was verified, what is linked was synced), `Published` (a final name
belongs to a command that linked it, and its dump is past being discarded) and
`Backed` (from the link on the name stays, until a power loss, after which no
command runs).  That the backup is of the right database is `Current`: it shows
what the database shows from when the run has begun to read it (`HasRead`), which is
not before its session is open (`Sessions`), until the run's own import begins, unless
another import has.  `Leftovers` says where in a command its two files may lie, and `Fits` that only
a run that began an import is read by a server.

**DumpStatement_proofs**, the session: `SessionTracked` and `SessionStaysSafe`, for any variables, any
`SET` statements of any length and any limit on the scanner's tables.  That the session
stays safe is not inductive: restoring a variable is safe only if it still holds what it
was saved from.  `SessionInv` adds just that, for every variable the scanner trusts, and
that whatever a stored program may write is not trusted.  The order in which Go's map
gives the names to poison does not matter, because after all of them each is
poisoned or all are (`PoisonAll`).  A `SET` of many assignments is followed in step by
checker and server, by induction on its length: `UpTo` gets the induction from the
well-foundedness of the naturals, and `Recursion` that a recursive function is what
its equation says.

**DumpHeads_proofs** (lemmas) and **DumpStatement_proofs**, statements: `StatementsRead`,
`TypeCorrect`, `AcceptedNamesStayHome`, `AcceptedRowsAreLiteral` and
`AcceptedDefaultsAreLiteral`, for statements of any length, any limit on a head and any
number of names.  The scanner looks at a head's tokens again and again while the server
reads each once, so the invariant `StatementInv` says what the one has seen when the
other is at a place.  While a head is undecided (`Unsettled`) its tokens and the
server's reading have a common `Shape`, one for each kind of statement: where the
kind, the name and a trigger's `ON` are, how the name is spelled over one, two or three
tokens, and that the server is abroad just if `checkQualifier` objects.  `HeadStarts`
and `HeadGoesOn` show that every token keeps a shape or makes `checkHead` refuse,
`HeadAccepted` and `HeadEnds` that `checkHead` accepts only what is at home.  Once a head
is accepted (`Settled`) the checks of rows and columns and the server are at
corresponding places (`RowsAgree`, `ColumnsAgree`), or the check refuses whatever
comes next, or the server has found a syntax error and runs nothing.  For columns this
goes one way, the two having different grammars: where the server is still at a default or
right behind it, the check looks at the next token as well.  The word being
collected is heard before it is pushed, so columns agree up to that word.  Between
statements nothing of the last is left but what defaults computed later (`Started`).

**DumpLexer_proofs**: `ScannerTypeCorrect`, `ScannerAndReadersAgree`,
`ScannedStatementsAreSent`, `ScannerPassesNoCommand` and `ScannerPassesNoFileWord`, for
dumps of any length and any longest delimiter.  The properties speak of the states
between tokens only; `LexInv` says where each reader is in all of them (`Place`): in
the scanner's code, quote or comment, skipping the version comment it runs, or a few
bytes behind while the scanner drops a line or reads a command's argument.  A scanner
that looks ahead and readers that look back meet in what is *known* of the bytes to
come: whatever a reader has pending is not completed by them (`PendingIsCode`: a dash
that is not a comment, a star that ends nothing, a first word that goes on), because the
scanner saw them when it took the pending byte for code, and of the semicolons a reader
has counted one still to come is known to be none (`SemisAreCode`).  A byte that arrives
changes nothing of what is known (`KnownStays`); every other step has a lemma `...Keeps`,
with the readers' cases below it, and a delimiter is followed byte by byte by induction
on its length (`ReadDelimiter`).  That the last word of a dump is compared, too, is an
invariant of its own (`Compared`).

**Assumptions** are the named `ASSUME`s of the modules: finite sets of calls
(counting needs it), the types of the configuration, a positive ceiling, and
that `None` is not a call; of the dump, that variables are finitely many and no other
name of a `SET` (their names carry an `@`), and that the longest delimiter has a
byte.  They are weak: `MaxConns`, delays and the limits on heads and tables may be 0.

**Only model-checked**: liveness (`Served`, `CancelledReturns`, `AllReturn`,
`Returns`, `InterruptEnds`, `ScanEnds`), which needs fairness and ENABLED;
and the four runs that expect a violation.

## 5. Not modelled, and why

* *Command lines, JSON, tables, colours, help and the setup dialogue* are data
  without shared state.  Key files and the agent are I/O whose outcomes are
  `dial`'s.
* *The raw guard* (`cmd/raw_guard.go`) and `Classify` (`safety/tiers.go`) are functions
  of one command line and of constant tables; they keep no state and meet nobody.
* *The MCP server* hands each request to the client with a context of its own:
  a deadline or a client that leaves is `Cancel` of `SSHPool`, and its end is `Close`,
  both of which may come at any step there.  The token check, the argument
  checks and the 15 s of the HTTP shutdown are not modelled.
* *Registry*: parsing `~/.ssh/config`, groups and filters are functions of files.
* *Import*: `db export -` to standard output keeps no file and is left out.
* *Scanner*: the caps on the length of a line, a version and a statement's head in
  bytes; delimiters of other bytes than `;`; at the statement level a server that
  skips a version comment, `CREATE TABLE ... SELECT`, and quotes in a comment no
  server runs within `VALUES`.  The bytes of a variable's name (`startVar`,
  `endVar`): a stored program that mentions a variable is taken to be seen to.  What a
  default computes behind the token after it is heard (`later`) and not refused,
  as in the code.  A name that a statement's
  end leaves unfinished (`db.`) is neither refused nor accepted; the server
  refuses it.
* *Files*: `StateFile` has no power loss; `SaveMetadata` and `Save` do not sync.
* `wp`, sshd, MySQL and SQLite are external: the models let them answer, fail,
  fall silent or go on after the client left.  The Go memory model is
  trusted: accesses are under the locks the models follow.

## 6. Plan

The order follows what is shared by most and hardest to test.

1. *(done)* limiter, pool, batch; then the result cache.
2. *(done)* the import and its files; the dump scanner; the two state files.
3. *(done)* Theorems: limiter, pool, batch, cache, import and its files, the
   scanner's statements and its bytes: every safety property a passing run checks.
4. **MCPServer** (`mcpserver/*`, `cmd/wpssh-mcp`): requests and the shutdown while
   handlers run, over `SharedConnections`.
5. **RawGuard** (`cmd/raw_guard.go`): the words it checks and the words two shells
   make of them.
6. The pool over the limiter's times, to state command starts rather than
   reservations (the hazard at `ssh/ratelimit.go:112`).
