----------------------------- MODULE StateFile -----------------------------
(***************************************************************************)
(* The two files wpgo keeps beside its cache, and the commands that read   *)
(* and save them: sites.json (internal/registry/metadata.go, sites add and *)
(* sites remove) and config.json (internal/config/config.go, setup).       *)
(* Several commands run at once, each in a process of its own; nothing     *)
(* locks the files.                                                        *)
(*                                                                         *)
(* Saving truncates or creates path.tmp, writes it and renames it.  A file *)
(* system has directory entries that name inodes, and a process that       *)
(* opened path.tmp keeps writing to the inode it opened.                   *)
(***************************************************************************)
EXTENDS Naturals, FiniteSets

CONSTANTS
  Procs,     \* processes, each runs one command
  Aliases,   \* site aliases that may have an overlay
  Settings,  \* the settings setup can change
  BareGroup  \* one of them: a group without aliases

Files == {"sites", "config"}
Entries == {"path", "tmp"}

(* sites.json holds the aliases with an overlay, config.json the settings  *)
(* that are not the defaults; a larger set is a longer file.               *)
Damaged == {"damaged"}
Empty == {"empty"}
NoInode == "none"
Inodes == Procs \cup {"first"}

VARIABLES
  dir,    \* [Files -> [Entries -> the inode, or none]]
  data,   \* [Files -> [Inodes -> what the inode holds]]
  proc    \* [Procs -> the command it runs and how far it is]

vars == <<dir, data, proc>>

Idle == [at |-> "start", file |-> "sites", mem |-> {}, fd |-> NoInode]

(* Both files may exist already. *)
Init ==
  /\ dir \in [Files -> [path : {"first", NoInode}, tmp : {NoInode}]]
  /\ data = [f \in Files |-> [i \in Inodes |-> {}]]
  /\ proc = [p \in Procs |-> Idle]

Exists(f, e) == dir[f][e] /= NoInode
Content(f) == IF Exists(f, "path") THEN data[f][dir[f].path] ELSE {}
Readable(f) == Content(f) \notin {Damaged, Empty}

Goto(p, r) == proc' = [proc EXCEPT ![p] = r]
Fail(p) == Goto(p, [proc[p] EXCEPT !.at = "failed"])
Save(p, f, mem) == Goto(p, [at |-> "saving", file |-> f, mem |-> mem, fd |-> NoInode])
----------------------------------------------------------------------------
(* Commands: each loads a file, which may fail, and changes it in memory.  *)

(* LoadMetadata or Load on a file that does not parse. *)
LoadFails(p) ==
  /\ proc[p].at = "start"
  /\ \E f \in Files : ~Readable(f)
  /\ Fail(p) /\ UNCHANGED <<dir, data>>

(* sites add: an overlay for the alias, also when no field is given. *)
SitesAdd(p) ==
  /\ proc[p].at = "start" /\ Readable("sites")
  /\ \E a \in Aliases : Save(p, "sites", Content("sites") \cup {a})
  /\ UNCHANGED <<dir, data>>

(* sites remove: nothing is saved if the alias has no overlay. *)
SitesRemove(p) ==
  /\ proc[p].at = "start" /\ Readable("sites")
  /\ \E a \in Aliases :
       IF a \in Content("sites") THEN Save(p, "sites", Content("sites") \ {a})
       ELSE Goto(p, [proc[p] EXCEPT !.at = "done"])
  /\ UNCHANGED <<dir, data>>

(* applySetupFlags takes a flag for a change whatever its value;           *)
(* runInteractiveSetup compares, and finds a new group without aliases     *)
(* equal to no group.                                                      *)
Changed(before, after, flags) ==
  flags \/ \E s \in Settings \ {BareGroup} : (s \in before) /= (s \in after)

(* setup: a bad flag or an unreadable answer ends it, and an unchanged     *)
(* file that exists is not saved.                                          *)
Setup(p) ==
  /\ proc[p].at = "start" /\ Readable("config")
  /\ \/ Fail(p)
     \/ \E after \in SUBSET Settings, flags \in BOOLEAN :
          IF ~Changed(Content("config"), after, flags) /\ Exists("config", "path")
          THEN Goto(p, [proc[p] EXCEPT !.at = "done"])
          ELSE Save(p, "config", after)
  /\ UNCHANGED <<dir, data>>

(* Every other command builds the registry from both files. *)
BuildRegistry(p) ==
  /\ proc[p].at = "start" /\ Readable("config") /\ Readable("sites")
  /\ Goto(p, [proc[p] EXCEPT !.at = "done"])
  /\ UNCHANGED <<dir, data>>
----------------------------------------------------------------------------
(* SaveMetadata and Save: os.WriteFile(path.tmp) opens with O_TRUNC,       *)
(* writes and closes; then os.Rename(path.tmp, path).                      *)

OpenTmp(p) ==
  LET f == proc[p].file
      inode == IF Exists(f, "tmp") THEN dir[f].tmp ELSE p
  IN /\ proc[p].at = "saving"
     /\ dir' = [dir EXCEPT ![f].tmp = inode]
     /\ data' = [data EXCEPT ![f][inode] = Empty]
     /\ Goto(p, [proc[p] EXCEPT !.at = "open", !.fd = inode])

(* Writing over what another process wrote since leaves its longer tail. *)
Written(old, new) ==
  IF old \notin {Empty, Damaged} /\ Cardinality(old) > Cardinality(new) THEN Damaged ELSE new

WriteTmp(p) ==
  LET f == proc[p].file
  IN /\ proc[p].at = "open"
     /\ data' = [data EXCEPT ![f][proc[p].fd] = Written(@, proc[p].mem)]
     /\ Goto(p, [proc[p] EXCEPT !.at = "written"])
     /\ UNCHANGED dir

(* A full disk: path.tmp stays behind. *)
WriteFails(p) ==
  /\ proc[p].at \in {"saving", "open"}
  /\ Fail(p) /\ UNCHANGED <<dir, data>>

RenameTmp(p) ==
  LET f == proc[p].file
  IN /\ proc[p].at = "written"
     /\ IF Exists(f, "tmp")
        THEN /\ dir' = [dir EXCEPT ![f] = [path |-> dir[f].tmp, tmp |-> NoInode]]
             /\ Goto(p, [proc[p] EXCEPT !.at = "done"])
        ELSE Fail(p) /\ UNCHANGED dir
     /\ UNCHANGED data

(* A process is killed. *)
Crash(p) ==
  /\ proc[p].at \in {"saving", "open", "written"}
  /\ Goto(p, [proc[p] EXCEPT !.at = "killed"]) /\ UNCHANGED <<dir, data>>

Next ==
  \E p \in Procs :
    \/ LoadFails(p) \/ SitesAdd(p) \/ SitesRemove(p) \/ Setup(p) \/ BuildRegistry(p)
    \/ OpenTmp(p) \/ WriteTmp(p) \/ WriteFails(p) \/ RenameTmp(p) \/ Crash(p)

Spec == Init /\ [][Next]_vars
----------------------------------------------------------------------------
(* Saving is an atomic write: under its own name a file is always whole,   *)
(* so no command that loads it fails (metadata.go:61 and config.go:63,     *)
(* "using atomic write").                                                  *)
AtomicWrite == \A f \in Files : Readable(f)
=============================================================================
