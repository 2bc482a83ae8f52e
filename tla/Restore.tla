------------------------------ MODULE Restore ------------------------------
(***************************************************************************)
(* db import, db export and backup on the operator's machine: restoreDB of *)
(* internal/cmd/db_import.go and saveDump of internal/cmd/dump.go, run by  *)
(* several operators at once against one site.  A run can be signalled or  *)
(* killed at any step, every call it makes can fail, a stream can be cut,  *)
(* and the operator's machine can lose power once.                         *)
(*                                                                         *)
(* A dump is abstracted to the database content it holds and to how much   *)
(* of it there is; what scanDump accepts is the subject of DumpLexer and   *)
(* DumpStatement.  The lists that db import invalidates in the local cache *)
(* at its end are in ResultCache, which has that part of its handler.      *)
(***************************************************************************)
EXTENDS Integers, FiniteSets

CONSTANTS
  Runs,     \* commands started on one operator's machine
  Paths,    \* final names of dumps there
  Commands, \* the command lines they may be started with
  Original, \* what the database holds at first
  OtherNames, \* final names other programs may write to
  MaxStopped \* bound: runs that are signalled or killed one by one

VARIABLES
  opt,        \* [Runs -> Options], the command line
  pc,         \* [Runs -> Labels]
  cancelled,  \* [Runs -> BOOLEAN], SIGINT or SIGTERM reached signal.NotifyContext
  session,    \* [Runs -> the SSH session of the call to the server it makes]
  staged,     \* [Runs -> staging file ".import-*.sql" and its read offset]
  tmp,        \* [Runs -> temporary file ".<name>.partial-*" of saveDump]
  data,       \* [Runs -> what saveDump wrote]
  result,     \* [Runs -> what the command reports]
  imported,   \* [Runs -> restoreResult.Imported]
  before,     \* [Runs -> the database when the run's import began]
  files,      \* [Paths -> the dump under each final name]
  durable,    \* runs whose directory entry was synced
  powered,    \* the machine has not lost power
  db,         \* the site's database
  remote      \* runs whose wp db import is reading on the server

local == <<opt, pc, cancelled, session, result, imported, before>>
disk == <<staged, tmp, data, files, durable, powered>>
site == <<db, remote>>
vars == <<local, disk, site>>

(* A run r stands for the content of the dump it imports; "mixed" is a     *)
(* database of which only a part was replaced.                             *)
Contents == Runs \cup {Original, "mixed"}
Lengths == {"empty", "cut", "whole"}

(* The command line: --dry-run, --yes --ack-destructive, and the final     *)
(* name of the dump, BackupPath or the export's file.                      *)
Options ==
  [cmd : {"import"}, mode : {"dry", "unconfirmed", "confirmed"}, path : Paths]
  \cup [cmd : {"export"}, mode : {"dry", "confirmed"}, path : Paths]

Labels ==
  {"start", "name", "stage", "scan", "confirm", "lstat", "stream", "sync", "link",
   "syncdir", "discard", "rewind", "import", "unstage", "returned", "killed"}

ASSUME RestoreAssumption ==
  /\ Original \notin Runs \cup {"mixed", "none"}
  /\ Runs \cap {"absent", "other", "mixed", "none"} = {}
  /\ OtherNames \subseteq Paths
  /\ MaxStopped \in Nat
  /\ Commands \subseteq [Runs -> Options]

NoDump == [of |-> "none", len |-> "empty", synced |-> FALSE]

Init ==
  /\ opt \in Commands
  /\ pc = [r \in Runs |-> "start"]
  /\ cancelled = [r \in Runs |-> FALSE]
  /\ session = [r \in Runs |-> "none"]
  /\ staged = [r \in Runs |-> "absent"]
  /\ tmp = [r \in Runs |-> "absent"]
  /\ data = [r \in Runs |-> NoDump]
  /\ result = [r \in Runs |-> "none"]
  /\ imported = [r \in Runs |-> FALSE]
  /\ before = [r \in Runs |-> "none"]
  /\ files = [p \in Paths |-> "absent"]
  /\ durable = {}
  /\ powered = TRUE
  /\ db = Original
  /\ remote = {}

IsImport(r) == opt[r].cmd = "import"
Goto(r, l) == pc' = [pc EXCEPT ![r] = l]

(* The end of a command: it reports res and is gone. *)
Return(r, res) ==
  /\ Goto(r, "returned")
  /\ result' = [result EXCEPT ![r] = res]
----------------------------------------------------------------------------
(* The calls to the server: wp config get, wp db export and wp db import.  *)

AwaitsServer(r) == pc[r] \in {"name", "stream"} \/ (pc[r] = "import" /\ ~imported[r])

(* execInternal asks for a session: the handshake of a new connection, and *)
(* client.NewSession on it or on a pooled one.  A context that is done is  *)
(* heard before this, yet may also lose the race (keepalive's select).     *)
OpenSession(r) ==
  /\ AwaitsServer(r) /\ session[r] = "none"
  /\ session' = [session EXCEPT ![r] = "opening"]
  /\ UNCHANGED <<opt, pc, cancelled, result, imported, before, disk, site>>

(* The server grants it, and an export starts to read the database.  Until *)
(* then nothing looks at the context.                                      *)
SessionOpens(r) ==
  /\ AwaitsServer(r) /\ session[r] = "opening"
  /\ session' = [session EXCEPT ![r] = "open"]
  /\ data' = IF pc[r] = "stream" THEN [data EXCEPT ![r].of = db] ELSE data
  /\ UNCHANGED <<opt, pc, cancelled, result, imported, before, staged, tmp, files,
                 durable, powered, site>>

(* The call is over: the session is closed and its slot released. *)
HangUp(r) == session' = [session EXCEPT ![r] = "none"]
----------------------------------------------------------------------------
(* DBImportCmd.Run and restoreDB up to the backup.                         *)

(* The dump is opened, then NewRunContext, ResolveSite, defaultDumpPath:   *)
(* each may fail, as openLocalDump does for a path on the server, a        *)
(* directory and a missing file.  Then signal.NotifyContext.               *)
StartImport(r) ==
  /\ pc[r] = "start" /\ IsImport(r)
  /\ \/ Goto(r, IF opt[r].mode = "dry" THEN "stage" ELSE "name") /\ UNCHANGED result
     \/ Return(r, "error")
  /\ UNCHANGED <<opt, cancelled, session, imported, before, disk, site>>

(* siteDatabase.DatabaseName: wp config get DB_NAME answers. *)
DatabaseName(r) ==
  /\ pc[r] = "name" /\ session[r] = "open"
  /\ Goto(r, "stage")
  /\ HangUp(r)
  /\ UNCHANGED <<opt, cancelled, result, imported, before, disk, site>>

(* stageDump creates the staging file next to the backup. *)
CreateStaging(r) ==
  /\ pc[r] = "stage"
  /\ \/ /\ staged' = [staged EXCEPT ![r] = "start"]
        /\ Goto(r, "scan")
        /\ UNCHANGED result
     \/ Return(r, "error") /\ UNCHANGED staged
  /\ UNCHANGED <<opt, cancelled, session, imported, before, tmp, data, files, durable,
                 powered, site>>

(* scanDump read the source to its end and accepted it: the file is at its *)
(* end.                                                                    *)
ScanAccepts(r) ==
  /\ pc[r] = "scan"
  /\ staged' = [staged EXCEPT ![r] = "end"]
  /\ Goto(r, "confirm")
  /\ UNCHANGED <<opt, cancelled, session, result, imported, before, tmp, data, files,
                 durable, powered, site>>

(* Fault: stageDump leaves the refused dump where it staged it. *)
ScanRefuses_Keeps(r) ==
  /\ pc[r] = "scan"
  /\ Return(r, "error")
  /\ UNCHANGED <<opt, cancelled, session, imported, before, disk, site>>

(* scanDump refused the dump, it is empty, or reading or staging it failed: *)
(* stageDump's deferred clean-up.                                          *)
ScanRefuses(r) ==
  /\ pc[r] = "scan"
  /\ \E s \in {"absent", "unremovable"} : staged' = [staged EXCEPT ![r] = s]
  /\ Return(r, "error")
  /\ UNCHANGED <<opt, cancelled, session, imported, before, tmp, data, files, durable,
                 powered, site>>

(* A dry run ends here, and so does a run without --yes --ack-destructive. *)
Confirm(r) ==
  /\ pc[r] = "confirm"
  /\ IF opt[r].mode = "confirmed"
       THEN Goto(r, "lstat") /\ UNCHANGED result
       ELSE /\ Goto(r, "unstage")
            /\ result' = [result EXCEPT ![r] = IF opt[r].mode = "dry" THEN "ok" ELSE "error"]
  /\ UNCHANGED <<opt, cancelled, session, imported, before, disk, site>>
----------------------------------------------------------------------------
(* exportToLocal and saveDump, for an export and for the backup before an  *)
(* import.                                                                 *)

(* DBExportCmd.Run and BackupCmd.Run up to saveDump. *)
StartExport(r) ==
  /\ pc[r] = "start" /\ ~IsImport(r)
  /\ \/ opt[r].mode = "confirmed" /\ Goto(r, "lstat") /\ UNCHANGED result
     \/ Return(r, IF opt[r].mode = "dry" THEN "ok" ELSE "error")
  /\ UNCHANGED <<opt, cancelled, session, imported, before, disk, site>>

(* Fault: an import goes on when its backup failed. *)
SaveFailed_Continues(r, res) ==
  /\ Goto(r, IF IsImport(r) THEN "rewind" ELSE "returned")
  /\ result' = [result EXCEPT ![r] = res]

(* Where the command goes when saveDump returned an error: an import still *)
(* has its staging file.                                                   *)
SaveFailed(r, res) ==
  /\ Goto(r, IF IsImport(r) THEN "unstage" ELSE "returned")
  /\ result' = [result EXCEPT ![r] = res]

(* The os.Lstat at the start of saveDump, and os.CreateTemp. *)
CreatePartial(r) ==
  /\ pc[r] = "lstat"
  /\ \/ /\ files[opt[r].path] = "absent"
        /\ tmp' = [tmp EXCEPT ![r] = "there"]
        /\ Goto(r, "stream")
        /\ UNCHANGED result
     \/ SaveFailed(r, "error") /\ UNCHANGED tmp
  /\ UNCHANGED <<opt, cancelled, session, imported, before, staged, data, files,
                 durable, powered, site>>

(* Fault: verifyDump trusts the exit status and does not look for the      *)
(* trailer line.                                                           *)
VerifyDump_NoTrailer(exit, len) == exit = 0 /\ len /= "empty"

(* verifyDump: exit status, at least one byte, and the trailer line, which *)
(* only a whole dump ends with.                                            *)
VerifyDump(exit, len) == exit = 0 /\ len /= "empty" /\ len = "whole"

(* wp db export ended, or its stream did: any part of the dump arrived. *)
StreamEnds(r) ==
  /\ pc[r] = "stream" /\ session[r] = "open"
  /\ \E exit \in {0, 1}, len \in Lengths :
       /\ data' = [data EXCEPT ![r].len = len]
       /\ Goto(r, IF VerifyDump(exit, len) THEN "sync" ELSE "discard")
  /\ HangUp(r)
  /\ UNCHANGED <<opt, cancelled, result, imported, before, staged, tmp, files,
                 durable, powered, site>>

(* Fault: the dump is published without an fsync. *)
SyncAndClose_Skipped(r) ==
  /\ pc[r] = "sync"
  /\ Goto(r, "link")
  /\ UNCHANGED <<opt, cancelled, session, result, imported, before, disk, site>>

(* tmp.Sync and tmp.Close. *)
SyncAndClose(r) ==
  /\ pc[r] = "sync"
  /\ \/ Goto(r, "link") /\ data' = [data EXCEPT ![r].synced = TRUE]
     \/ Goto(r, "discard") /\ UNCHANGED data
  /\ UNCHANGED <<opt, cancelled, session, result, imported, before, staged, tmp, files,
                 durable, powered, site>>

(* Fault: the temporary file is renamed over whatever has the final name. *)
Publish_Renames(r) ==
  /\ pc[r] = "link"
  /\ files' = [files EXCEPT ![opt[r].path] = r]
  /\ Goto(r, "syncdir")
  /\ UNCHANGED <<opt, cancelled, session, result, imported, before, staged, tmp, data,
                 durable, powered, site>>

(* os.Link fails when the name is taken, even since the os.Lstat. *)
Publish(r) ==
  /\ pc[r] = "link"
  /\ \/ /\ files[opt[r].path] = "absent"
        /\ files' = [files EXCEPT ![opt[r].path] = r]
        /\ Goto(r, "syncdir")
     \/ Goto(r, "discard") /\ UNCHANGED files
  /\ UNCHANGED <<opt, cancelled, session, result, imported, before, staged, tmp, data,
                 durable, powered, site>>

(* Syncing the directory may fail without a word; then saveDump's deferred *)
(* function removes the temporary name, or reports that it could not       *)
(* ("leftover").                                                           *)
SyncDirectory(r) ==
  /\ pc[r] = "syncdir"
  /\ \E d \in {durable, durable \cup {r}} : durable' = d
  /\ \/ /\ tmp' = [tmp EXCEPT ![r] = "absent"]
        /\ IF IsImport(r) THEN Goto(r, "rewind") /\ UNCHANGED result
                          ELSE Return(r, "ok")
     \/ SaveFailed(r, "leftover") /\ UNCHANGED tmp
  /\ UNCHANGED <<opt, cancelled, session, imported, before, staged, data, files, powered, site>>

(* saveDump's deferred function on an error. *)
Discard(r) ==
  /\ pc[r] = "discard"
  /\ \/ /\ tmp' = [tmp EXCEPT ![r] = "absent"]
        /\ data' = [data EXCEPT ![r] = NoDump]
        /\ SaveFailed(r, "error")
     \/ SaveFailed(r, "leftover") /\ UNCHANGED <<tmp, data>>
  /\ UNCHANGED <<opt, cancelled, session, imported, before, staged, files, durable, powered, site>>
----------------------------------------------------------------------------
(* The import.                                                             *)

(* staged.Seek to the start. *)
Rewind(r) ==
  /\ pc[r] = "rewind"
  /\ \/ staged' = [staged EXCEPT ![r] = "start"] /\ Goto(r, "import") /\ UNCHANGED result
     \/ /\ Goto(r, "unstage")
        /\ result' = [result EXCEPT ![r] = "error"]
        /\ UNCHANGED staged
  /\ UNCHANGED <<opt, cancelled, session, imported, before, tmp, data, files, durable,
                 powered, site>>

(* A change of the database; it tears the dumps being read from it. *)
Write(content) ==
  /\ db' = content
  /\ data' = [q \in Runs |-> IF pc[q] = "stream" /\ session[q] = "open" /\ db' /= db
                               THEN [data[q] EXCEPT !.of = "mixed"] ELSE data[q]]

(* wp db import - starts reading preamble and dump on the server. *)
BeginImport(r) ==
  /\ pc[r] = "import" /\ ~imported[r] /\ session[r] = "open"
  /\ imported' = [imported EXCEPT ![r] = TRUE]
  /\ before' = [before EXCEPT ![r] = db]
  /\ remote' = remote \cup {r}
  /\ UNCHANGED <<opt, pc, cancelled, session, result, disk, db>>

(* The server runs some of what it was sent: also after the command was    *)
(* cancelled or killed, as long as the server has bytes to read.           *)
ServerApplies(r) ==
  /\ r \in remote
  /\ Write("mixed")
  /\ \E s \in {remote, remote \ {r}} : remote' = IF pc[r] = "import" THEN remote ELSE s
  /\ UNCHANGED <<local, staged, tmp, files, durable, powered>>

(* wp db import read its input to the end and exited 0: the rest of the    *)
(* staged file, wherever its offset is.                                    *)
ImportSucceeds(r) ==
  /\ pc[r] = "import" /\ r \in remote
  /\ Write(IF remote = {r} /\ staged[r] = "start" THEN r ELSE "mixed")
  /\ remote' = remote \ {r}
  /\ Goto(r, "unstage")
  /\ result' = [result EXCEPT ![r] = "ok"]
  /\ HangUp(r)
  /\ UNCHANGED <<opt, cancelled, imported, before, staged, tmp, files, durable, powered>>

(* It exited with another status, after any part of the dump. *)
ImportExits(r) ==
  /\ pc[r] = "import" /\ r \in remote
  /\ \E content \in {db, "mixed"} : Write(content)
  /\ remote' = remote \ {r}
  /\ Goto(r, "unstage")
  /\ result' = [result EXCEPT ![r] = "error"]
  /\ HangUp(r)
  /\ UNCHANGED <<opt, cancelled, imported, before, staged, tmp, files, durable, powered>>

(* The deferred removal of the staging file, whose error is dropped. *)
Unstage(r) ==
  /\ pc[r] = "unstage"
  /\ \E s \in {"absent", "unremovable"} : staged' = [staged EXCEPT ![r] = s]
  /\ Goto(r, "returned")
  /\ UNCHANGED <<opt, cancelled, session, result, imported, before, tmp, data, files,
                 durable, powered, site>>
----------------------------------------------------------------------------
(* Failures and the rest of the world.                                     *)

(* The call to the server fails: connecting or running the command, or the *)
(* context is done.  The server may go on with what it was sent.           *)
RemoteFails(r) ==
  /\ HangUp(r)
  /\ \/ /\ pc[r] = "name"
        /\ Return(r, "error")
        /\ UNCHANGED <<imported, before>>
     \/ /\ pc[r] = "stream"
        /\ Goto(r, "discard")
        /\ UNCHANGED <<result, imported, before>>
     \/ /\ pc[r] = "import"
        /\ imported' = [imported EXCEPT ![r] = TRUE]
        /\ before' = [before EXCEPT ![r] = IF imported[r] THEN @ ELSE db]
        /\ Goto(r, "unstage")
        /\ result' = [result EXCEPT ![r] = "error"]
  /\ UNCHANGED <<opt, cancelled, disk, site>>

(* Fault: the export is not given the context that Ctrl-C cancels. *)
ContextDone_ImportsOnly(r) ==
  IsImport(r) /\ cancelled[r] /\ session[r] /= "opening" /\ RemoteFails(r)

(* The same, because the run's context was cancelled: before the session   *)
(* is asked for or once the command runs in it.                            *)
ContextDone(r) == cancelled[r] /\ session[r] /= "opening" /\ RemoteFails(r)

(* The bound on signals and kills; a power loss is not counted. *)
MayStop(r) == Cardinality({q \in Runs : cancelled[q] \/ pc[q] = "killed"} \cup {r}) <= MaxStopped

(* SIGINT or SIGTERM while signal.NotifyContext is in force. *)
Signal(r) ==
  /\ pc[r] \notin {"start", "returned", "killed"} /\ MayStop(r)
  /\ cancelled' = [cancelled EXCEPT ![r] = TRUE]
  /\ UNCHANGED <<opt, pc, session, result, imported, before, disk, site>>

(* SIGKILL, or a signal when no handler is installed. *)
Kill(r) ==
  /\ pc[r] \notin {"returned", "killed"} /\ MayStop(r)
  /\ Goto(r, "killed")
  /\ UNCHANGED <<opt, cancelled, session, result, imported, before, disk, site>>

(* The operator's machine loses power: every run ends, names not synced    *)
(* may be gone, and a file not synced is cut.                              *)
PowerLoss ==
  /\ powered
  /\ powered' = FALSE
  /\ pc' = [r \in Runs |-> IF pc[r] = "returned" THEN "returned" ELSE "killed"]
  /\ \E gone \in SUBSET {p \in Paths : files[p] \in Runs \ durable} :
       files' = [p \in Paths |-> IF p \in gone THEN "absent" ELSE files[p]]
  /\ data' = [r \in Runs |-> IF data[r].synced THEN data[r] ELSE [data[r] EXCEPT !.len = "cut"]]
  /\ UNCHANGED <<opt, cancelled, session, result, imported, before, staged, tmp, durable, site>>

(* Another program of the operator writes a file under a final name. *)
OtherFile(p) ==
  /\ powered /\ p \in OtherNames
  /\ files[p] = "absent"
  /\ files' = [files EXCEPT ![p] = "other"]
  /\ UNCHANGED <<local, staged, tmp, data, durable, powered, site>>
----------------------------------------------------------------------------
(* Steps of the command that wait for nobody else. *)
LocalStep(r) ==
  \/ StartImport(r) \/ CreateStaging(r) \/ Confirm(r)
  \/ StartExport(r) \/ CreatePartial(r)
  \/ SyncAndClose(r) \/ Publish(r) \/ SyncDirectory(r) \/ Discard(r)
  \/ Rewind(r) \/ BeginImport(r) \/ Unstage(r)

(* Steps that wait for the server or for the end of the source. *)
AnsweredStep(r) ==
  \/ OpenSession(r) \/ SessionOpens(r)
  \/ DatabaseName(r) \/ ScanAccepts(r) \/ ScanRefuses(r)
  \/ StreamEnds(r) \/ ServerApplies(r) \/ ImportSucceeds(r) \/ ImportExits(r)
  \/ RemoteFails(r)

Next ==
  \/ \E r \in Runs :
       LocalStep(r) \/ AnsweredStep(r) \/ ContextDone(r) \/ Signal(r) \/ Kill(r)
  \/ \E p \in Paths : OtherFile(p)
  \/ PowerLoss

(* A command takes its own steps, and sees that its context is done where  *)
(* the code selects on it; the server need never grant a session nor       *)
(* answer in it, and the source of a dump need never end.                  *)
Fairness == \A r \in Runs : WF_vars(LocalStep(r)) /\ WF_vars(ContextDone(r))

Spec == Init /\ [][Next]_vars /\ Fairness
----------------------------------------------------------------------------
(* Every variable has its type; what was synced is a whole dump. *)
TypeOK ==
  /\ opt \in Commands
  /\ pc \in [Runs -> Labels]
  /\ cancelled \in [Runs -> BOOLEAN]
  /\ session \in [Runs -> {"none", "opening", "open"}]
  /\ staged \in [Runs -> {"absent", "start", "end", "unremovable"}]
  /\ tmp \in [Runs -> {"absent", "there"}]
  /\ data \in [Runs -> [of : Contents \cup {"none"}, len : Lengths, synced : BOOLEAN]]
  /\ \A r \in Runs : data[r].synced => data[r].len = "whole"
  /\ result \in [Runs -> {"none", "ok", "error", "leftover"}]
  /\ imported \in [Runs -> BOOLEAN]
  /\ before \in [Runs -> Contents \cup {"none"}]
  /\ files \in [Paths -> Runs \cup {"absent", "other"}]
  /\ durable \subseteq Runs
  /\ powered \in BOOLEAN
  /\ db \in Contents
  /\ remote \subseteq Runs

(* A run that may have touched the database has a whole, synced dump under *)
(* its final name, of the database its import began to replace unless       *)
(* another import ran meanwhile.  Only a power loss after a directory sync *)
(* that failed unnoticed can take it away (restoreDB, "Before importing it *)
(* saves a backup").                                                       *)
Restorable ==
  \A r \in Runs : imported[r] =>
    /\ data[r].len = "whole" /\ data[r].synced
    /\ files[opt[r].path] = r \/ (~powered /\ r \notin durable)
    /\ data[r].of = before[r] \/ (\E q \in Runs \ {r} : imported[q])

(* What has a final name is a whole dump, also after a power loss: an      *)
(* interrupted, cut or refused stream is never taken for a backup          *)
(* (saveDump, verifyDump).                                                 *)
FinalNamesWhole ==
  \A p \in Paths : files[p] \in Runs => data[files[p]].len = "whole"

(* A command that ended by itself leaves no temporary file behind, except  *)
(* one it could not remove; for saveDump's it says so ("If the temp file   *)
(* cannot be removed, the returned error names it").                       *)
NothingLeftBehind ==
  \A r \in Runs : pc[r] = "returned" =>
    /\ staged[r] \in {"absent", "unremovable"}
    /\ tmp[r] = "there" => result[r] = "leftover"

(* No step replaces a file that has a final name; only a power loss takes  *)
(* an unsynced name away (saveDump, "An existing file at path is never     *)
(* replaced").                                                             *)
NeverReplaced ==
  [][\A p \in Paths : files[p] /= "absent" /\ files'[p] /= files[p] =>
       powered /\ ~powered' /\ files'[p] = "absent"]_vars

(* The waits that do not look at the context: stageDump reads the source,  *)
(* and execInternal waits for a handshake or for NewSession.               *)
Deaf(r) == pc[r] = "scan" \/ session[r] = "opening"

(* Ctrl-C ends a command although the server it talks to falls silent or   *)
(* streams without an end, and lets it finish its clean-up; only a wait    *)
(* that is deaf to the context can hold it, and nothing after such a wait  *)
(* does (exportToLocal, "Ctrl-C cancels the stream and removes the partial *)
(* file").                                                                 *)
InterruptEnds ==
  \A r \in Runs : cancelled[r] ~> (pc[r] \in {"returned", "killed"} \/ Deaf(r))
=============================================================================
