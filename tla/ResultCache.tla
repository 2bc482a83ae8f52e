---------------------------- MODULE ResultCache ----------------------------
(***************************************************************************)
(* The cache of query results that runs of wpgo share, one SQLite file:    *)
(* internal/cache and the RunContext methods of internal/cmd/context.go,   *)
(* with the command handlers of internal/cmd that fill it and those that   *)
(* invalidate it.  A process is one run of wpgo for one site; other sites  *)
(* have other rows.  What the site would answer is a version number for    *)
(* each category; each SQLite statement is one step.                       *)
(***************************************************************************)
EXTENDS Integers

CONSTANTS
  Procs,   \* runs of wpgo, each with one job
  Jobs,    \* the jobs they may have
  None

(* The lists, by the category their handlers store the answer under.       *)
PluginList == "plugins"
ThemeList == "themes"
UserList == "users"
OptionList == "options"
CoreVersion == "core"
CoreCheckUpdate == "core"

CategoryOf == [
  pluginList |-> PluginList, themeList |-> ThemeList, userList |-> UserList,
  optionList |-> OptionList, coreVersion |-> CoreVersion,
  coreCheckUpdate |-> CoreCheckUpdate]

Queries == DOMAIN CategoryOf
Content == {"plugins", "themes", "core", "users", "options"}
Categories == Content \cup {"snapshot"}

(* The commands that change a site, by the categories they invalidate.     *)
PluginCommands == {"plugins", "snapshot"}      \* install ... update
PluginAutoUpdates == {"plugins"}               \* enable, disable
ThemeCommands == {"themes", "snapshot"}
ThemeAutoUpdates == {"themes"}
UserRosterCommands == {"users", "snapshot"}    \* create, delete
UserEditCommands == {"users"}                  \* update, set-role, reset-password
OptionCommands == {"options"}                  \* update, add, delete
OptionPatch == {"options"}
CoreUpdate == {"core", "snapshot"}
DBCommands == Categories                       \* repair, optimize, reset
DBImport == Categories
Eval == Categories
SearchReplace == Categories
Raw == Categories
UpdateAll == {}                                \* CacheInvalidate is not called
DBQuery == {}                                  \* nor here

Invalidates == [
  plugin |-> PluginCommands, pluginAutoUpdates |-> PluginAutoUpdates,
  theme |-> ThemeCommands, themeAutoUpdates |-> ThemeAutoUpdates,
  userRoster |-> UserRosterCommands, userEdit |-> UserEditCommands,
  option |-> OptionCommands, optionPatch |-> OptionPatch,
  coreUpdate |-> CoreUpdate, db |-> DBCommands, dbImport |-> DBImport,
  eval |-> Eval, searchReplace |-> SearchReplace, raw |-> Raw,
  updateAll |-> UpdateAll, dbQuery |-> DBQuery]

Commands == DOMAIN Invalidates

(* What a command is about: what it changes on the site when it works. *)
Subject == [
  plugin |-> {"plugins"}, pluginAutoUpdates |-> {"plugins"},
  theme |-> {"themes"}, themeAutoUpdates |-> {"themes"},
  userRoster |-> {"users"}, userEdit |-> {"users"},
  option |-> {"options"}, optionPatch |-> {"options"}, coreUpdate |-> {"core"},
  db |-> Content, dbImport |-> Content, eval |-> Content,
  searchReplace |-> Content, raw |-> Content,
  updateAll |-> {"core", "plugins", "themes"}, dbQuery |-> Content]

(* The categories that the lists of these jobs show; a change of another   *)
(* one nobody sees.                                                        *)
Shown == {CategoryOf[q] : q \in Queries \cap Jobs}

(* What wp may change for a command: also the options, by the hooks of the *)
(* site's plugins and because wp keeps the active plugins there.           *)
Touches(j) == (Subject[j] \cup {"options"}) \cap Shown

ASSUME CacheAssumption ==
  /\ Jobs \subseteq Queries \cup Commands
  /\ None \notin Queries \cup Commands

VARIABLES
  pc,         \* where each run is
  job,        \* its query or command, or None
  flags,      \* which of --dry-run and --no-cache it has
  result,     \* how its command ended
  seen,       \* the answer a list has and has not stored yet
  overtaken,  \* the lists whose answer was invalidated before it was stored
  entry,      \* the rows of cache_entries, by query
  remote,     \* the site: the version of each category
  made,       \* the version each command made of each category, or 0
  late        \* the categories a lost import changed after its run was over

vars == <<pc, job, flags, result, seen, overtaken, entry, remote, made, late>>

Flags == SUBSET {"dry-run", "no-cache"}
Results == {"pending", "ok", "failed", "lost", "killed", "dropped"}

(* What a dry run "answers": an empty string, stored as an empty result. *)
Phantom == -1

Cached(p) == "no-cache" \notin flags[p]
Category(p) == CategoryOf[job[p]]

(* CacheGet returns "" for a miss, so an empty version misses, too; the    *)
(* empty list of a phantom is stored as "null" and is a hit.               *)
IsHit(q) == entry[q] # None /\ ~(q = "coreVersion" /\ entry[q].answer = Phantom)

Goto(p, to) == pc' = [pc EXCEPT ![p] = to]

Init ==
  /\ pc = [p \in Procs |-> "idle"]
  /\ job = [p \in Procs |-> None]
  /\ flags = [p \in Procs |-> {}]
  /\ result = [p \in Procs |-> "pending"]
  /\ seen = [p \in Procs |-> None]
  /\ overtaken = {}
  /\ entry = [q \in Queries |-> None]
  /\ remote = [k \in Content |-> 0]
  /\ made = [p \in Procs |-> [k \in Content |-> 0]]
  /\ late = [p \in Procs |-> {}]

(* NewRunContext: the run starts.  A cache that cannot be opened is only   *)
(* warned about: the run goes on as with --no-cache.                       *)
Begin(p, j) ==
  /\ pc[p] = "idle"
  /\ job' = [job EXCEPT ![p] = j]
  /\ \E f \in Flags : flags' = [flags EXCEPT ![p] = f]
  /\ Goto(p, IF j \in Queries THEN "get" ELSE "run")
  /\ UNCHANGED <<result, seen, overtaken, entry, remote, made, late>>
----------------------------------------------------------------------------
(* A list: CacheGet, else ExecWP, then CacheSet.                           *)

(* Fault: a dry run goes on to store what it never read. *)
CacheGet_StoresUnread(p) ==
  /\ pc[p] = "get"
  /\ Goto(p, CASE Cached(p) /\ IsHit(job[p]) -> "done"
               [] "dry-run" \in flags[p] -> "store"
               [] OTHER -> "read")
  /\ UNCHANGED <<job, flags, result, seen, overtaken, entry, remote, made, late>>

CacheGet(p) ==
  /\ pc[p] = "get"
  /\ Goto(p, IF Cached(p) /\ IsHit(job[p]) THEN "done" ELSE "read")
  /\ UNCHANGED <<job, flags, result, seen, overtaken, entry, remote, made, late>>

(* ExecWP: the site answers; a dry run does not ask. *)
Read(p) ==
  /\ pc[p] = "read"
  /\ seen' = [seen EXCEPT ![p] =
                IF "dry-run" \in flags[p] THEN Phantom ELSE remote[Category(p)]]
  /\ Goto(p, "store")
  /\ UNCHANGED <<job, flags, result, overtaken, entry, remote, made, late>>

(* The query fails, or its output cannot be parsed: nothing is stored. *)
ReadFails(p) ==
  /\ pc[p] = "read"
  /\ "dry-run" \notin flags[p]
  /\ Goto(p, "done")
  /\ UNCHANGED <<job, flags, result, seen, overtaken, entry, remote, made, late>>

(* CacheSet: the row is inserted or replaced; an error is only reported.   *)
(* With that the run is over.                                              *)
CacheSet(p) ==
  /\ pc[p] = "store"
  /\ \/ /\ Cached(p)
        /\ entry' = [entry EXCEPT ![job[p]] =
                       [answer |-> seen[p], overtaken |-> p \in overtaken]]
     \/ UNCHANGED entry
  /\ seen' = [seen EXCEPT ![p] = None]
  /\ overtaken' = overtaken \ {p}
  /\ Goto(p, "done")
  /\ UNCHANGED <<job, flags, result, remote, made, late>>
----------------------------------------------------------------------------
(* A command that changes the site: ExecWP, then CacheInvalidate.  db      *)
(* import goes its own way: once wp db import was started it invalidates   *)
(* however that ended, and before that, as in a dry run, it does not.      *)

IsImport(p) == job[p] = "dbImport"

(* wp changes one category, for a client that may be gone by now, or that  *)
(* has lost it and is about to invalidate.                                 *)
Change(p, k) ==
  /\ pc[p] \in {"run", "orphan"} \/ (pc[p] = "invalidate" /\ result[p] = "lost")
  /\ "dry-run" \notin flags[p]
  /\ k \in Touches(job[p])
  /\ made[p][k] = 0
  /\ remote' = [remote EXCEPT ![k] = @ + 1]
  /\ made' = [made EXCEPT ![p][k] = remote[k] + 1]
  /\ late' = IF pc[p] = "orphan" /\ result[p] = "lost" /\ IsImport(p)
               THEN [late EXCEPT ![p] = @ \cup {k}] ELSE late
  /\ UNCHANGED <<pc, job, flags, result, seen, overtaken, entry>>

(* The command exits with status 0; a dry run ends like this at once. *)
Succeeds(p) ==
  /\ pc[p] = "run"
  /\ result' = [result EXCEPT ![p] = "ok"]
  /\ Goto(p, IF IsImport(p) /\ "dry-run" \in flags[p] THEN "done" ELSE "invalidate")
  /\ UNCHANGED <<job, flags, seen, overtaken, entry, remote, made, late>>

(* Fault: an import that failed half way does not invalidate. *)
Fails_Forgets(p) ==
  /\ pc[p] = "run"
  /\ "dry-run" \notin flags[p]
  /\ result' = [result EXCEPT ![p] = "failed"]
  /\ Goto(p, "done")
  /\ UNCHANGED <<job, flags, seen, overtaken, entry, remote, made, late>>

(* It exits with another status: the handler returns, UpdateAllCmd goes on *)
(* and has nothing to invalidate either.  An import may also fail before   *)
(* wp db import was started.                                               *)
Fails(p) ==
  /\ pc[p] = "run"
  /\ "dry-run" \notin flags[p]
  /\ result' = [result EXCEPT ![p] = "failed"]
  /\ \/ IsImport(p) /\ Goto(p, "invalidate")
     \/ /\ IsImport(p) => \A k \in Content : made[p][k] = 0
        /\ Goto(p, "done")
  /\ UNCHANGED <<job, flags, seen, overtaken, entry, remote, made, late>>

(* The connection breaks, or the context of an import ends: wp may go on.  *)
IsLost(p) ==
  /\ pc[p] = "run"
  /\ "dry-run" \notin flags[p]
  /\ result' = [result EXCEPT ![p] = "lost"]
  /\ Goto(p, IF IsImport(p) THEN "invalidate" ELSE "orphan")
  /\ UNCHANGED <<job, flags, seen, overtaken, entry, remote, made, late>>

(* The run is killed, and wp may go on. *)
IsKilled(p) ==
  /\ pc[p] = "run"
  /\ result' = [result EXCEPT ![p] = "killed"]
  /\ Goto(p, IF "dry-run" \in flags[p] THEN "done" ELSE "orphan")
  /\ UNCHANGED <<job, flags, seen, overtaken, entry, remote, made, late>>

Drops(p, q) == entry[q] # None /\ CategoryOf[q] \in Invalidates[job[p]]

(* The lists that have an answer to store which the command invalidates. *)
Overtakes(p) ==
  {l \in Procs : pc[l] = "store" /\ Category(l) \in Invalidates[job[p]]}

(* The end of the run; a command that was lost may go on after it. *)
Ends(p) == Goto(p, IF result[p] = "lost" THEN "orphan" ELSE "done")

(* CacheInvalidate: one DELETE for the site and the command's categories.  *)
CacheInvalidate(p) ==
  /\ pc[p] = "invalidate"
  /\ Cached(p)
  /\ entry' = [q \in Queries |-> IF Drops(p, q) THEN None ELSE entry[q]]
  /\ overtaken' = overtaken \cup Overtakes(p)
  /\ Ends(p)
  /\ UNCHANGED <<job, flags, result, seen, remote, made, late>>

(* Without a cache, with an SQLite error, or killed before the DELETE. *)
InvalidatesNothing(p) ==
  /\ pc[p] = "invalidate"
  /\ result' = [result EXCEPT ![p] = "dropped"]
  /\ Ends(p)
  /\ UNCHANGED <<job, flags, seen, overtaken, entry, remote, made, late>>
----------------------------------------------------------------------------
(* A row outlives its TTL: Get finds it no more. *)
Expire(q) ==
  /\ entry[q] # None
  /\ entry' = [entry EXCEPT ![q] = None]
  /\ UNCHANGED <<pc, job, flags, result, seen, overtaken, remote, made, late>>

Next ==
  \/ \E p \in Procs :
       \/ \E j \in Jobs : Begin(p, j)
       \/ CacheGet(p) \/ Read(p) \/ ReadFails(p) \/ CacheSet(p)
       \/ \E k \in Content : Change(p, k)
       \/ Succeeds(p) \/ Fails(p) \/ IsLost(p) \/ IsKilled(p)
       \/ CacheInvalidate(p) \/ InvalidatesNothing(p)
  \/ \E q \in Queries : Expire(q)

Spec == Init /\ [][Next]_vars
----------------------------------------------------------------------------
TypeOK ==
  /\ pc \in [Procs -> {"idle", "get", "read", "store", "run", "orphan",
                       "invalidate", "done"}]
  /\ job \in [Procs -> Jobs \cup {None}]
  /\ flags \in [Procs -> Flags]
  /\ result \in [Procs -> Results]
  /\ seen \in [Procs -> Nat \cup {Phantom, None}]
  /\ overtaken \subseteq Procs
  /\ entry \in [Queries ->
       [answer : Nat \cup {Phantom}, overtaken : BOOLEAN] \cup {None}]
  /\ remote \in [Content -> Nat]
  /\ made \in [Procs -> [Content -> Nat]]
  /\ late \in [Procs -> SUBSET Content]

(* A command whose changes of a category the cache need not know: its run  *)
(* is not over, was killed or invalidated nothing, or it made the change   *)
(* after its run; it failed or was lost, and was no import; it is not      *)
(* about the category; or its handler invalidates nothing, as those of     *)
(* update-all and db query.                                                *)
Untold(m, k) ==
  \/ pc[m] \in {"run", "invalidate"}
  \/ result[m] \in {"killed", "dropped"} \/ k \in late[m]
  \/ result[m] \in {"failed", "lost"} /\ ~IsImport(m)
  \/ k \notin Subject[job[m]]
  \/ job[m] \in {"updateAll", "dbQuery"}

(* Invalidation sticks: a cached answer of the site misses nothing that a  *)
(* command has successfully done to what it is about, nor anything an      *)
(* import has done before it ended, failed or lost, whatever lists ran     *)
(* meanwhile, unless the answer was on its way into the cache when the     *)
(* command invalidated it.                                                 *)
InvalidationSticks ==
  \A q \in Queries :
    entry[q] # None /\ entry[q].answer # Phantom /\ ~entry[q].overtaken =>
      \A m \in Procs :
        made[m][CategoryOf[q]] > entry[q].answer => Untold(m, CategoryOf[q])

(* "CacheEntry represents a single cached wp-cli query result": what the   *)
(* cache holds was answered by the site.                                   *)
EntriesAreResults == \A q \in Queries : entry[q] # None => entry[q].answer # Phantom
=============================================================================
