--------------------------- MODULE Restore_proofs ---------------------------
(***************************************************************************)
(* Proofs about module Restore, for any commands on any paths: what holds  *)
(* of the dumps and the staged files at every step, whatever fails, is      *)
(* signalled, is killed or loses power.                                    *)
(***************************************************************************)
EXTENDS Restore, TLAPS

(* Only imports come where imports go, and only they reach the server.     *)
Fits ==
  \A r \in Runs :
    /\ pc[r] \in {"name", "stage", "scan", "confirm", "rewind", "import", "unstage"}
         => IsImport(r)
    /\ imported[r] => pc[r] \in {"import", "unstage", "returned", "killed"}
    /\ r \in remote => imported[r]

(* A session belongs to a call. *)
Sessions ==
  \A r \in Runs : session[r] # "none" => pc[r] \in {"name", "stream", "import", "killed"}

(* What is verified is whole, and what is linked is synced. *)
Dumps ==
  \A r \in Runs :
    /\ data[r].synced => pc[r] \in {"link", "syncdir", "discard", "rewind", "import", "unstage",
                                    "returned", "killed"}
    /\ pc[r] = "sync" => data[r].len = "whole"
    /\ pc[r] = "link" => data[r].synced

(* A final name is its command's own, and its dump was synced before. *)
Published ==
  \A p \in Paths : files[p] \in Runs =>
    /\ opt[files[p]].path = p
    /\ data[files[p]].synced
    /\ pc[files[p]] \in {"syncdir", "rewind", "import", "unstage", "returned", "killed"}

(* From the link on a command has its dump under its final name, until the *)
(* machine loses power; and then no command runs.                          *)
Backed ==
  /\ \A r \in Runs : imported[r] \/ pc[r] \in {"syncdir", "rewind", "import"} =>
       /\ data[r].synced
       /\ files[opt[r].path] = r \/ (~powered /\ r \notin durable)
  /\ ~powered => \A r \in Runs : pc[r] \in {"returned", "killed"}

Disturbed(r) == \E q \in Runs \ {r} : imported[q]

(* The command reads the database, or has read it. *)
HasRead(r) ==
  \/ pc[r] \in {"sync", "link", "syncdir", "rewind", "import"}
  \/ pc[r] = "stream" /\ session[r] = "open"

(* A backup is of the database as it is, or was when the import began,     *)
(* unless another import has begun.                                        *)
Current ==
  \A r \in Runs :
    /\ HasRead(r) /\ ~imported[r] => data[r].of = db \/ Disturbed(r)
    /\ imported[r] => data[r].of = before[r] \/ Disturbed(r)

(* Where a staging file and a partial file may be. *)
Leftovers ==
  \A r \in Runs :
    /\ ~IsImport(r) \/ pc[r] \in {"start", "name", "stage"} => staged[r] = "absent"
    /\ pc[r] \in {"returned"} => staged[r] \in {"absent", "unremovable"}
    /\ tmp[r] = "there" =>
         \/ pc[r] \in {"stream", "sync", "link", "syncdir", "discard", "killed"}
         \/ /\ pc[r] \in {"unstage", "returned"}
            /\ result[r] = "leftover"

IInv ==
  /\ TypeOK /\ Fits /\ Sessions /\ Dumps /\ Published /\ Backed /\ Current /\ Leftovers

(* The command line of a run is one of the Options, with a final name. *)
LEMMA OptionsTyped ==
  TypeOK => \A r \in Runs : opt[r].path \in Paths /\ opt[r].cmd \in {"import", "export"}
<1>1. \A o \in Options : o.path \in Paths /\ o.cmd \in {"import", "export"}
  BY DEF Options
<1>2. TypeOK => opt \in [Runs -> Options]
  BY RestoreAssumption DEF TypeOK
<1> QED BY <1>1, <1>2

(* What one command's steps do to the record of its dump keeps its type.   *)
LEMMA DumpEdits ==
  ASSUME TypeOK, NEW r \in Runs,
         \/ data' = data
         \/ data' = [data EXCEPT ![r].synced = TRUE]
         \/ data' = [data EXCEPT ![r] = NoDump]
  PROVE  data' \in [Runs -> [of : Contents \cup {"none"}, len : Lengths, synced : BOOLEAN]]
<1>1. "empty" \in Lengths BY DEF Lengths
<1>2. data \in [Runs -> [of : Contents \cup {"none"}, len : Lengths, synced : BOOLEAN]]
  BY DEF TypeOK
<1>3. CASE data' = data BY <1>2, <1>3
<1>4. CASE data' = [data EXCEPT ![r].synced = TRUE] BY <1>2, <1>4
<1>5. CASE data' = [data EXCEPT ![r] = NoDump] BY <1>1, <1>2, <1>5 DEF NoDump
<1> QED BY <1>3, <1>4, <1>5

(* And so does a power loss. *)
LEMMA DumpCut ==
  ASSUME TypeOK, PowerLoss
  PROVE  data' \in [Runs -> [of : Contents \cup {"none"}, len : Lengths, synced : BOOLEAN]]
<1>1. "cut" \in Lengths BY DEF Lengths
<1>2. data \in [Runs -> [of : Contents \cup {"none"}, len : Lengths, synced : BOOLEAN]]
  BY DEF TypeOK
<1>3. data' = [r \in Runs |-> IF data[r].synced THEN data[r] ELSE [data[r] EXCEPT !.len = "cut"]]
  BY DEF PowerLoss
<1>4. \A r \in Runs : [data[r] EXCEPT !.len = "cut"]
        \in [of : Contents \cup {"none"}, len : Lengths, synced : BOOLEAN]
  BY <1>1, <1>2
<1> QED BY <1>2, <1>3, <1>4

(* What one command's step does to its place keeps the type. *)
LEMMA PcMoves ==
  ASSUME TypeOK, NEW r \in Runs, NEW l \in Labels, pc' = [pc EXCEPT ![r] = l]
  PROVE  pc' \in [Runs -> Labels]
BY DEF TypeOK

(* What a change of the database does to the dumps keeps their type. *)
LEMMA DumpTorn ==
  ASSUME TypeOK, NEW content \in Contents, Write(content)
  PROVE  /\ db' \in Contents
         /\ data' \in [Runs -> [of : Contents \cup {"none"}, len : Lengths, synced : BOOLEAN]]
         /\ \A q \in Runs : data'[q].synced = data[q].synced /\ data'[q].len = data[q].len
<1>1. data \in [Runs -> [of : Contents \cup {"none"}, len : Lengths, synced : BOOLEAN]]
  BY DEF TypeOK
<1>2. "mixed" \in Contents BY DEF Contents
<1>3. \A q \in Runs : [data[q] EXCEPT !.of = "mixed"]
        \in [of : Contents \cup {"none"}, len : Lengths, synced : BOOLEAN]
  BY <1>1, <1>2
<1>4. \A q \in Runs : data'[q] = data[q] \/ data'[q] = [data[q] EXCEPT !.of = "mixed"]
  BY DEF Write
<1>5. \A q \in Runs : data'[q].synced = data[q].synced /\ data'[q].len = data[q].len
  BY <1>1, <1>4
<1> QED BY <1>1, <1>3, <1>5 DEF Write

(* Every step keeps types, places and what is known of the dumps. *)
LEMMA BasicsInductive ==
  TypeOK /\ Fits /\ Dumps /\ [Next]_vars => TypeOK' /\ Fits' /\ Dumps'
<1> SUFFICES ASSUME TypeOK, Fits, Dumps, [Next]_vars
             PROVE  TypeOK' /\ Fits' /\ Dumps'
  OBVIOUS
<1> USE RestoreAssumption
    DEF TypeOK, Fits, Dumps, IsImport, Goto, HangUp, local, disk, site, Labels, Lengths, Contents, NoDump
<1>1. ASSUME NEW r \in Runs, StartImport(r) PROVE TypeOK' /\ Fits' /\ Dumps'
  <2>1. TypeOK'
    <3>1. pc' \in [Runs -> Labels]
      BY <1>1 DEF StartImport, Return
    <3>2. result' \in [Runs -> {"none", "ok", "error", "leftover"}]
      BY <1>1 DEF StartImport, Return
    <3> QED BY <1>1, <3>1, <3>2 DEF StartImport
  <2>2. Fits' BY <1>1 DEF StartImport, Return
  <2>3. Dumps' BY <1>1 DEF StartImport, Return
  <2> QED BY <2>1, <2>2, <2>3
<1>2. ASSUME NEW r \in Runs, DatabaseName(r) PROVE TypeOK' /\ Fits' /\ Dumps'
  <2>1. TypeOK' BY <1>2 DEF DatabaseName
  <2>2. Fits' BY <1>2 DEF DatabaseName
  <2>3. Dumps' BY <1>2 DEF DatabaseName
  <2> QED BY <2>1, <2>2, <2>3
<1>3. ASSUME NEW r \in Runs, CreateStaging(r) PROVE TypeOK' /\ Fits' /\ Dumps'
  <2>1. TypeOK'
    <3>1. staged' \in [Runs -> {"absent", "start", "end", "unremovable"}]
      BY <1>3 DEF CreateStaging, Return
    <3>2. pc' \in [Runs -> Labels]
      BY <1>3 DEF CreateStaging, Return
    <3>3. result' \in [Runs -> {"none", "ok", "error", "leftover"}]
      BY <1>3 DEF CreateStaging, Return
    <3> QED BY <1>3, <3>1, <3>2, <3>3 DEF CreateStaging, Return
  <2>2. Fits' BY <1>3 DEF CreateStaging, Return
  <2>3. Dumps' BY <1>3 DEF CreateStaging, Return
  <2> QED BY <2>1, <2>2, <2>3
<1>4. ASSUME NEW r \in Runs, ScanAccepts(r) PROVE TypeOK' /\ Fits' /\ Dumps'
  <2>1. TypeOK' BY <1>4 DEF ScanAccepts
  <2>2. Fits' BY <1>4 DEF ScanAccepts
  <2>3. Dumps' BY <1>4 DEF ScanAccepts
  <2> QED BY <2>1, <2>2, <2>3
<1>5. ASSUME NEW r \in Runs, ScanRefuses(r) PROVE TypeOK' /\ Fits' /\ Dumps'
  <2>1. TypeOK' BY <1>5 DEF ScanRefuses, Return
  <2>2. Fits' BY <1>5 DEF ScanRefuses, Return
  <2>3. Dumps' BY <1>5 DEF ScanRefuses, Return
  <2> QED BY <2>1, <2>2, <2>3
<1>6. ASSUME NEW r \in Runs, Confirm(r) PROVE TypeOK' /\ Fits' /\ Dumps'
  <2>1. TypeOK' BY <1>6 DEF Confirm
  <2>2. Fits' BY <1>6 DEF Confirm
  <2>3. Dumps' BY <1>6 DEF Confirm
  <2> QED BY <2>1, <2>2, <2>3
<1>7. ASSUME NEW r \in Runs, StartExport(r) PROVE TypeOK' /\ Fits' /\ Dumps'
  <2>1. TypeOK' BY <1>7 DEF StartExport, Return
  <2>2. Fits' BY <1>7 DEF StartExport, Return
  <2>3. Dumps' BY <1>7 DEF StartExport, Return
  <2> QED BY <2>1, <2>2, <2>3
<1>8. ASSUME NEW r \in Runs, CreatePartial(r) PROVE TypeOK' /\ Fits' /\ Dumps'
  <2>1. TypeOK'
    <3>1. tmp' \in [Runs -> {"absent", "there"}]
      BY <1>8 DEF CreatePartial, SaveFailed
    <3>2. data' \in [Runs -> [of : Contents \cup {"none"}, len : Lengths, synced : BOOLEAN]]
      BY <1>8 DEF CreatePartial, SaveFailed
    <3>3. \A q \in Runs : data'[q].synced => data'[q].len = "whole"
      BY <1>8 DEF CreatePartial, SaveFailed
    <3>4. pc' \in [Runs -> Labels]
      BY <1>8 DEF CreatePartial, SaveFailed
    <3>5. result' \in [Runs -> {"none", "ok", "error", "leftover"}]
      BY <1>8 DEF CreatePartial, SaveFailed
    <3> QED BY <1>8, <3>1, <3>2, <3>3, <3>4, <3>5 DEF CreatePartial, SaveFailed
  <2>2. Fits' BY <1>8 DEF CreatePartial, SaveFailed
  <2>3. Dumps' BY <1>8 DEF CreatePartial, SaveFailed
  <2> QED BY <2>1, <2>2, <2>3
<1>9. ASSUME NEW r \in Runs, StreamEnds(r) PROVE TypeOK' /\ Fits' /\ Dumps'
  <2>1. TypeOK'
    <3>1. PICK len \in Lengths : data' = [data EXCEPT ![r].len = len]
      BY <1>9 DEF StreamEnds
    <3>2. data' \in [Runs -> [of : Contents \cup {"none"}, len : Lengths, synced : BOOLEAN]]
      <4>1. data \in [Runs -> [of : Contents \cup {"none"}, len : Lengths, synced : BOOLEAN]]
        OBVIOUS
      <4> HIDE DEF TypeOK, Fits, Dumps, Contents, Lengths
      <4> QED BY <4>1, <3>1
    <3>3. \A q \in Runs : data'[q].synced => data'[q].len = "whole"
      <4>1. ~data[r].synced BY <1>9 DEF StreamEnds
      <4> QED BY <4>1, <3>1
    <3>4. pc' \in [Runs -> Labels]
      BY <1>9 DEF StreamEnds
    <3>5. session' \in [Runs -> {"none", "opening", "open"}]
      BY <1>9 DEF StreamEnds
    <3> QED BY <1>9, <3>2, <3>3, <3>4, <3>5 DEF StreamEnds
  <2>2. Fits' BY <1>9 DEF StreamEnds, VerifyDump
  <2>3. Dumps' BY <1>9 DEF StreamEnds, VerifyDump
  <2> QED BY <2>1, <2>2, <2>3
<1>10. ASSUME NEW r \in Runs, SyncAndClose(r) PROVE TypeOK' /\ Fits' /\ Dumps'
  <2>1. TypeOK'
    <3>1. data' \in [Runs -> [of : Contents \cup {"none"}, len : Lengths, synced : BOOLEAN]]
      <4>1. data' = data \/ data' = [data EXCEPT ![r].synced = TRUE]
        BY <1>10 DEF SyncAndClose
      <4> HIDE DEF TypeOK, Fits, Dumps, Contents, Lengths, NoDump
      <4> QED BY <4>1, DumpEdits
    <3>2. \A q \in Runs : data'[q].synced => data'[q].len = "whole"
      <4>1. data' = data \/ data' = [data EXCEPT ![r].synced = TRUE]
        BY <1>10 DEF SyncAndClose
      <4>2. data[r].len = "whole"
        BY <1>10 DEF SyncAndClose
      <4> QED BY <4>1, <4>2
    <3>3. pc' \in [Runs -> Labels]
      <4>1. "link" \in Labels /\ "discard" \in Labels
        OBVIOUS
      <4> HIDE DEF TypeOK, Fits, Dumps, Labels
      <4>2. \/ pc' = [pc EXCEPT ![r] = "link"]
            \/ pc' = [pc EXCEPT ![r] = "discard"]
        BY <1>10 DEF SyncAndClose
      <4> QED BY <4>1, <4>2, PcMoves
    <3> QED BY <1>10, <3>1, <3>2, <3>3 DEF SyncAndClose
  <2>2. Fits' BY <1>10 DEF SyncAndClose
  <2>3. Dumps' BY <1>10 DEF SyncAndClose
  <2> QED BY <2>1, <2>2, <2>3
<1>11. ASSUME NEW r \in Runs, Publish(r) PROVE TypeOK' /\ Fits' /\ Dumps'
  <2>1. TypeOK'
    <3>1. files' \in [Paths -> Runs \cup {"absent", "other"}]
      BY <1>11 DEF Publish
    <3>2. pc' \in [Runs -> Labels]
      BY <1>11 DEF Publish
    <3> QED BY <1>11, <3>1, <3>2 DEF Publish
  <2>2. Fits' BY <1>11 DEF Publish
  <2>3. Dumps' BY <1>11 DEF Publish
  <2> QED BY <2>1, <2>2, <2>3
<1>12. ASSUME NEW r \in Runs, SyncDirectory(r) PROVE TypeOK' /\ Fits' /\ Dumps'
  <2>1. TypeOK'
    <3>1. tmp' \in [Runs -> {"absent", "there"}]
      BY <1>12 DEF SyncDirectory, SaveFailed, Return
    <3>2. pc' \in [Runs -> Labels]
      <4>1. PICK l \in {"rewind", "returned", "unstage"} : pc' = [pc EXCEPT ![r] = l]
        BY <1>12 DEF SyncDirectory, SaveFailed, Return
      <4>2. l \in Labels OBVIOUS
      <4> HIDE DEF TypeOK, Fits, Dumps, Labels
      <4> QED BY <4>1, <4>2, PcMoves
    <3>3. result' \in [Runs -> {"none", "ok", "error", "leftover"}]
      BY <1>12 DEF SyncDirectory, SaveFailed, Return
    <3>4. durable' \subseteq Runs
      BY <1>12 DEF SyncDirectory, SaveFailed, Return
    <3> QED BY <1>12, <3>1, <3>2, <3>3, <3>4 DEF SyncDirectory, SaveFailed, Return
  <2>2. Fits' BY <1>12 DEF SyncDirectory, SaveFailed, Return
  <2>3. Dumps' BY <1>12 DEF SyncDirectory, SaveFailed, Return
  <2> QED BY <2>1, <2>2, <2>3
<1>13. ASSUME NEW r \in Runs, Discard(r) PROVE TypeOK' /\ Fits' /\ Dumps'
  <2>1. TypeOK'
    <3>1. tmp' \in [Runs -> {"absent", "there"}]
      BY <1>13 DEF Discard, SaveFailed
    <3>2. data' \in [Runs -> [of : Contents \cup {"none"}, len : Lengths, synced : BOOLEAN]]
      <4>1. data' = data \/ data' = [data EXCEPT ![r] = NoDump]
        BY <1>13 DEF Discard, SaveFailed
      <4> HIDE DEF TypeOK, Fits, Dumps, Contents, Lengths, NoDump
      <4> QED BY <4>1, DumpEdits
    <3>3. \A q \in Runs : data'[q].synced => data'[q].len = "whole"
      BY <1>13 DEF Discard, SaveFailed
    <3>4. pc' \in [Runs -> Labels]
      <4>1. pc' = [pc EXCEPT ![r] = "unstage"] \/ pc' = [pc EXCEPT ![r] = "returned"]
        BY <1>13 DEF Discard, SaveFailed
      <4> QED BY <4>1
    <3>5. result' \in [Runs -> {"none", "ok", "error", "leftover"}]
      BY <1>13 DEF Discard, SaveFailed
    <3> QED BY <1>13, <3>1, <3>2, <3>3, <3>4, <3>5 DEF Discard, SaveFailed
  <2>2. Fits' BY <1>13 DEF Discard, SaveFailed
  <2>3. Dumps' BY <1>13 DEF Discard, SaveFailed
  <2> QED BY <2>1, <2>2, <2>3
<1>14. ASSUME NEW r \in Runs, Rewind(r) PROVE TypeOK' /\ Fits' /\ Dumps'
  <2>1. TypeOK'
    <3>1. staged' \in [Runs -> {"absent", "start", "end", "unremovable"}]
      BY <1>14 DEF Rewind
    <3>2. pc' \in [Runs -> Labels]
      BY <1>14 DEF Rewind
    <3>3. result' \in [Runs -> {"none", "ok", "error", "leftover"}]
      BY <1>14 DEF Rewind
    <3> QED BY <1>14, <3>1, <3>2, <3>3 DEF Rewind
  <2>2. Fits' BY <1>14 DEF Rewind
  <2>3. Dumps' BY <1>14 DEF Rewind
  <2> QED BY <2>1, <2>2, <2>3
<1>15. ASSUME NEW r \in Runs, BeginImport(r) PROVE TypeOK' /\ Fits' /\ Dumps'
  <2>1. TypeOK' BY <1>15 DEF BeginImport
  <2>2. Fits' BY <1>15 DEF BeginImport
  <2>3. Dumps' BY <1>15 DEF BeginImport
  <2> QED BY <2>1, <2>2, <2>3
<1>16. ASSUME NEW r \in Runs, ServerApplies(r) PROVE TypeOK' /\ Fits' /\ Dumps'
  <2>1. TypeOK' BY <1>16 DEF ServerApplies, Write
  <2>2. Fits' BY <1>16 DEF ServerApplies, Write
  <2>3. Dumps' BY <1>16 DEF ServerApplies, Write
  <2> QED BY <2>1, <2>2, <2>3
<1>17. ASSUME NEW r \in Runs, ImportSucceeds(r) PROVE TypeOK' /\ Fits' /\ Dumps'
  <2>1. TypeOK'
    <3>1. PICK content \in Contents : Write(content)
      BY <1>17 DEF ImportSucceeds
    <3>2. /\ db' \in Contents
          /\ data' \in [Runs -> [of : Contents \cup {"none"}, len : Lengths, synced : BOOLEAN]]
          /\ \A q \in Runs : data'[q].synced = data[q].synced /\ data'[q].len = data[q].len
      <4> HIDE DEF TypeOK, Fits, Dumps, Contents, Lengths
      <4> QED BY <3>1, DumpTorn
    <3>3. session' \in [Runs -> {"none", "opening", "open"}]
      BY <1>17 DEF ImportSucceeds
    <3> QED BY <1>17, <3>2, <3>3 DEF ImportSucceeds
  <2>2. Fits' BY <1>17 DEF ImportSucceeds, Write
  <2>3. Dumps' BY <1>17 DEF ImportSucceeds, Write
  <2> QED BY <2>1, <2>2, <2>3
<1>18. ASSUME NEW r \in Runs, ImportExits(r) PROVE TypeOK' /\ Fits' /\ Dumps'
  <2>1. TypeOK'
    <3>1. PICK content \in Contents : Write(content)
      BY <1>18 DEF ImportExits
    <3>2. /\ db' \in Contents
          /\ data' \in [Runs -> [of : Contents \cup {"none"}, len : Lengths, synced : BOOLEAN]]
          /\ \A q \in Runs : data'[q].synced = data[q].synced /\ data'[q].len = data[q].len
      <4> HIDE DEF TypeOK, Fits, Dumps, Contents, Lengths
      <4> QED BY <3>1, DumpTorn
    <3>3. session' \in [Runs -> {"none", "opening", "open"}]
      BY <1>18 DEF ImportExits
    <3> QED BY <1>18, <3>2, <3>3 DEF ImportExits
  <2>2. Fits' BY <1>18 DEF ImportExits, Write
  <2>3. Dumps' BY <1>18 DEF ImportExits, Write
  <2> QED BY <2>1, <2>2, <2>3
<1>19. ASSUME NEW r \in Runs, Unstage(r) PROVE TypeOK' /\ Fits' /\ Dumps'
  <2>1. TypeOK' BY <1>19 DEF Unstage
  <2>2. Fits' BY <1>19 DEF Unstage
  <2>3. Dumps' BY <1>19 DEF Unstage
  <2> QED BY <2>1, <2>2, <2>3
<1>20. ASSUME NEW r \in Runs, OpenSession(r) PROVE TypeOK' /\ Fits' /\ Dumps'
  <2>1. TypeOK' BY <1>20 DEF OpenSession
  <2>2. Fits' BY <1>20 DEF OpenSession
  <2>3. Dumps' BY <1>20 DEF OpenSession
  <2> QED BY <2>1, <2>2, <2>3
<1>21. ASSUME NEW r \in Runs, RemoteFails(r) PROVE TypeOK' /\ Fits' /\ Dumps'
  <2>1. TypeOK'
    <3>1. pc' \in [Runs -> Labels]
      BY <1>21 DEF RemoteFails, Return
    <3>2. result' \in [Runs -> {"none", "ok", "error", "leftover"}]
      BY <1>21 DEF RemoteFails, Return
    <3>3. imported' \in [Runs -> BOOLEAN]
      <4>1. imported' = imported \/ imported' = [imported EXCEPT ![r] = TRUE]
        BY <1>21 DEF RemoteFails, Return
      <4>2. imported \in [Runs -> BOOLEAN] OBVIOUS
      <4> HIDE DEF TypeOK, Fits, Dumps
      <4> QED BY <4>1, <4>2
    <3>4. before' \in [Runs -> Contents \cup {"none"}]
      BY <1>21 DEF RemoteFails, Return
    <3> QED BY <1>21, <3>1, <3>2, <3>3, <3>4 DEF RemoteFails, Return
  <2>2. Fits' BY <1>21 DEF RemoteFails, Return
  <2>3. Dumps' BY <1>21 DEF RemoteFails, Return
  <2> QED BY <2>1, <2>2, <2>3
<1>22. ASSUME NEW r \in Runs, Signal(r) PROVE TypeOK' /\ Fits' /\ Dumps'
  <2>1. TypeOK' BY <1>22 DEF Signal
  <2>2. Fits' BY <1>22 DEF Signal
  <2>3. Dumps' BY <1>22 DEF Signal
  <2> QED BY <2>1, <2>2, <2>3
<1>23. ASSUME NEW r \in Runs, Kill(r) PROVE TypeOK' /\ Fits' /\ Dumps'
  <2>1. TypeOK' BY <1>23 DEF Kill
  <2>2. Fits' BY <1>23 DEF Kill
  <2>3. Dumps' BY <1>23 DEF Kill
  <2> QED BY <2>1, <2>2, <2>3
<1>24. ASSUME NEW p \in Paths, OtherFile(p) PROVE TypeOK' /\ Fits' /\ Dumps'
  <2>1. TypeOK' BY <1>24 DEF OtherFile
  <2>2. Fits' BY <1>24 DEF OtherFile
  <2>3. Dumps' BY <1>24 DEF OtherFile
  <2> QED BY <2>1, <2>2, <2>3
<1>25. ASSUME PowerLoss PROVE TypeOK' /\ Fits' /\ Dumps'
  <2>1. TypeOK'
    <3>1. pc' \in [Runs -> Labels]
      BY <1>25 DEF PowerLoss
    <3>2. files' \in [Paths -> Runs \cup {"absent", "other"}]
      BY <1>25 DEF PowerLoss
    <3>3. data' \in [Runs -> [of : Contents \cup {"none"}, len : Lengths, synced : BOOLEAN]]
      BY <1>25, DumpCut
    <3>4. \A q \in Runs : data'[q].synced => data'[q].len = "whole"
      BY <1>25 DEF PowerLoss
    <3> QED BY <1>25, <3>1, <3>2, <3>3, <3>4 DEF PowerLoss
  <2>2. Fits' BY <1>25 DEF PowerLoss
  <2>3. Dumps' BY <1>25 DEF PowerLoss
  <2> QED BY <2>1, <2>2, <2>3
<1>26. ASSUME NEW r \in Runs, SessionOpens(r) PROVE TypeOK' /\ Fits' /\ Dumps'
  <2>1. TypeOK' BY <1>26 DEF SessionOpens
  <2>2. Fits' BY <1>26 DEF SessionOpens
  <2>3. Dumps' BY <1>26 DEF SessionOpens
  <2> QED BY <2>1, <2>2, <2>3
<1>27. ASSUME UNCHANGED vars PROVE TypeOK' /\ Fits' /\ Dumps'
  <2>1. TypeOK' BY <1>27 DEF vars
  <2>2. Fits' BY <1>27 DEF vars
  <2>3. Dumps' BY <1>27 DEF vars
  <2> QED BY <2>1, <2>2, <2>3
<1> QED BY <1>1, <1>2, <1>3, <1>4, <1>5, <1>6, <1>7, <1>8, <1>9, <1>10, <1>11, <1>12,
        <1>13, <1>14, <1>15, <1>16, <1>17, <1>18, <1>19, <1>20, <1>21, <1>22, <1>23,
        <1>24, <1>25, <1>26, <1>27
   DEF Next, LocalStep, AnsweredStep, ContextDone

----------------------------------------------------------------------------
(* Every step keeps what final names stand for. *)
LEMMA PublishedInductive ==
  TypeOK /\ Fits /\ Dumps /\ Published /\ Backed /\ [Next]_vars => Published' /\ Backed'
<1> SUFFICES ASSUME TypeOK, Fits, Dumps, Published, Backed, [Next]_vars
             PROVE  Published' /\ Backed'
  OBVIOUS
<1>a. /\ pc \in [Runs -> Labels] /\ files \in [Paths -> Runs \cup {"absent", "other"}]
      /\ data \in [Runs -> [of : Contents \cup {"none"}, len : Lengths, synced : BOOLEAN]]
      /\ imported \in [Runs -> BOOLEAN] /\ durable \subseteq Runs /\ powered \in BOOLEAN
  BY DEF TypeOK
<1>b. \A r \in Runs : opt[r].path \in Paths
  BY OptionsTyped
<1> USE RestoreAssumption, <1>a, <1>b
    DEF Fits, Dumps, Published, Backed, IsImport, Goto, local, disk, site, NoDump
<1>1. ASSUME NEW r \in Runs, StartImport(r) PROVE Published' /\ Backed'
  <2>1. Published'
    <3>1. pc[r] = "start" /\ opt' = opt /\ files' = files /\ imported' = imported
      BY <1>1 DEF StartImport, Return
    <3>2. powered' = powered /\ durable' = durable
      BY <1>1 DEF StartImport, Return
    <3>3. \A q \in Runs : q # r => pc'[q] = pc[q] /\ data'[q] = data[q]
      BY <1>1 DEF StartImport, Return
    <3>4. pc'[r] \in {"stage", "name", "returned"}
      BY <1>1 DEF StartImport, Return
    <3> QED BY <3>1, <3>2, <3>3, <3>4
  <2>2. Backed' BY <1>1 DEF StartImport, Return
  <2> QED BY <2>1, <2>2
<1>2. ASSUME NEW r \in Runs, DatabaseName(r) PROVE Published' /\ Backed'
  BY <1>2 DEF DatabaseName
<1>3. ASSUME NEW r \in Runs, CreateStaging(r) PROVE Published' /\ Backed'
  <2>1. Published'
    <3>1. pc[r] = "stage" /\ opt' = opt /\ files' = files /\ imported' = imported
      BY <1>3 DEF CreateStaging, Return
    <3>2. powered' = powered /\ durable' = durable
      BY <1>3 DEF CreateStaging, Return
    <3>3. \A q \in Runs : q # r => pc'[q] = pc[q] /\ data'[q] = data[q]
      BY <1>3 DEF CreateStaging, Return
    <3>4. pc'[r] \in {"scan", "returned"}
      BY <1>3 DEF CreateStaging, Return
    <3> QED BY <3>1, <3>2, <3>3, <3>4
  <2>2. Backed'
    <3>1. pc[r] = "stage" /\ opt' = opt /\ files' = files /\ imported' = imported
      BY <1>3 DEF CreateStaging, Return
    <3>2. powered' = powered /\ durable' = durable
      BY <1>3 DEF CreateStaging, Return
    <3>3. \A q \in Runs : q # r => pc'[q] = pc[q] /\ data'[q] = data[q]
      BY <1>3 DEF CreateStaging, Return
    <3>4. pc'[r] \in {"scan", "returned"}
      BY <1>3 DEF CreateStaging, Return
    <3> QED BY <3>1, <3>2, <3>3, <3>4
  <2> QED BY <2>1, <2>2
<1>4. ASSUME NEW r \in Runs, ScanAccepts(r) PROVE Published' /\ Backed'
  BY <1>4 DEF ScanAccepts
<1>5. ASSUME NEW r \in Runs, ScanRefuses(r) PROVE Published' /\ Backed'
  BY <1>5 DEF ScanRefuses, Return
<1>6. ASSUME NEW r \in Runs, Confirm(r) PROVE Published' /\ Backed'
  <2>1. Published' BY <1>6 DEF Confirm
  <2>2. Backed' BY <1>6 DEF Confirm
  <2> QED BY <2>1, <2>2
<1>7. ASSUME NEW r \in Runs, StartExport(r) PROVE Published' /\ Backed'
  <2>1. Published'
    <3>1. pc[r] = "start" /\ opt' = opt /\ files' = files /\ imported' = imported
      BY <1>7 DEF StartExport, Return
    <3>2. powered' = powered /\ durable' = durable
      BY <1>7 DEF StartExport, Return
    <3>3. \A q \in Runs : q # r => pc'[q] = pc[q] /\ data'[q] = data[q]
      BY <1>7 DEF StartExport, Return
    <3>4. pc'[r] \in {"lstat", "returned"}
      BY <1>7 DEF StartExport, Return
    <3> QED BY <3>1, <3>2, <3>3, <3>4
  <2>2. Backed' BY <1>7 DEF StartExport, Return
  <2> QED BY <2>1, <2>2
<1>8. ASSUME NEW r \in Runs, CreatePartial(r) PROVE Published' /\ Backed'
  <2>1. Published' BY <1>8 DEF CreatePartial, SaveFailed
  <2>2. Backed' BY <1>8 DEF CreatePartial, SaveFailed
  <2> QED BY <2>1, <2>2
<1>9. ASSUME NEW r \in Runs, StreamEnds(r) PROVE Published' /\ Backed'
  BY <1>9 DEF StreamEnds, VerifyDump
<1>10. ASSUME NEW r \in Runs, SyncAndClose(r) PROVE Published' /\ Backed'
  <2>1. Published'
    <3>1. pc[r] = "sync" /\ opt' = opt /\ files' = files /\ imported' = imported
      BY <1>10 DEF SyncAndClose
    <3>2. powered' = powered /\ durable' = durable
      BY <1>10 DEF SyncAndClose
    <3>3. \A q \in Runs : q # r => pc'[q] = pc[q] /\ data'[q] = data[q]
      BY <1>10 DEF SyncAndClose
    <3>4. pc'[r] \in {"link", "discard"}
      BY <1>10 DEF SyncAndClose
    <3> QED BY <3>1, <3>2, <3>3, <3>4
  <2>2. Backed'
    <3>1. pc[r] = "sync" /\ opt' = opt /\ files' = files /\ imported' = imported
      BY <1>10 DEF SyncAndClose
    <3>2. powered' = powered /\ durable' = durable
      BY <1>10 DEF SyncAndClose
    <3>3. \A q \in Runs : q # r => pc'[q] = pc[q] /\ data'[q] = data[q]
      BY <1>10 DEF SyncAndClose
    <3>4. pc'[r] \in {"link", "discard"}
      BY <1>10 DEF SyncAndClose
    <3> QED BY <3>1, <3>2, <3>3, <3>4
  <2> QED BY <2>1, <2>2
<1>11. ASSUME NEW r \in Runs, Publish(r) PROVE Published' /\ Backed'
  <2>1. Published' BY <1>11 DEF Publish
  <2>2. Backed' BY <1>11 DEF Publish
  <2> QED BY <2>1, <2>2
<1>12. ASSUME NEW r \in Runs, SyncDirectory(r) PROVE Published' /\ Backed'
  BY <1>12 DEF SyncDirectory, SaveFailed, Return
<1>13. ASSUME NEW r \in Runs, Discard(r) PROVE Published' /\ Backed'
  <2>1. Published'
    <3>1. pc[r] = "discard" /\ opt' = opt /\ files' = files /\ imported' = imported
      BY <1>13 DEF Discard, SaveFailed
    <3>2. powered' = powered /\ durable' = durable
      BY <1>13 DEF Discard, SaveFailed
    <3>3. \A q \in Runs : q # r => pc'[q] = pc[q] /\ data'[q] = data[q]
      BY <1>13 DEF Discard, SaveFailed
    <3>4. pc'[r] \in {"unstage", "returned"}
      BY <1>13 DEF Discard, SaveFailed
    <3> QED BY <3>1, <3>2, <3>3, <3>4
  <2>2. Backed'
    <3>1. pc[r] = "discard" /\ opt' = opt /\ files' = files /\ imported' = imported
      BY <1>13 DEF Discard, SaveFailed
    <3>2. powered' = powered /\ durable' = durable
      BY <1>13 DEF Discard, SaveFailed
    <3>3. \A q \in Runs : q # r => pc'[q] = pc[q] /\ data'[q] = data[q]
      BY <1>13 DEF Discard, SaveFailed
    <3>4. pc'[r] \in {"unstage", "returned"}
      BY <1>13 DEF Discard, SaveFailed
    <3> QED BY <3>1, <3>2, <3>3, <3>4
  <2> QED BY <2>1, <2>2
<1>14. ASSUME NEW r \in Runs, Rewind(r) PROVE Published' /\ Backed'
  <2>1. Published' BY <1>14 DEF Rewind
  <2>2. Backed' BY <1>14 DEF Rewind
  <2> QED BY <2>1, <2>2
<1>15. ASSUME NEW r \in Runs, BeginImport(r) PROVE Published' /\ Backed'
  BY <1>15 DEF BeginImport
<1>16. ASSUME NEW r \in Runs, ServerApplies(r) PROVE Published' /\ Backed'
  BY <1>16 DEF ServerApplies, Write
<1>17. ASSUME NEW r \in Runs, ImportSucceeds(r) PROVE Published' /\ Backed'
  BY <1>17 DEF ImportSucceeds, Write
<1>18. ASSUME NEW r \in Runs, ImportExits(r) PROVE Published' /\ Backed'
  BY <1>18 DEF ImportExits, Write
<1>19. ASSUME NEW r \in Runs, Unstage(r) PROVE Published' /\ Backed'
  BY <1>19 DEF Unstage
<1>20. ASSUME NEW r \in Runs, OpenSession(r) PROVE Published' /\ Backed'
  BY <1>20 DEF OpenSession
<1>21. ASSUME NEW r \in Runs, RemoteFails(r) PROVE Published' /\ Backed'
  <2>1. Published' BY <1>21 DEF RemoteFails, Return
  <2>2. Backed' BY <1>21 DEF RemoteFails, Return
  <2> QED BY <2>1, <2>2
<1>22. ASSUME NEW r \in Runs, Signal(r) PROVE Published' /\ Backed'
  BY <1>22 DEF Signal
<1>23. ASSUME NEW r \in Runs, Kill(r) PROVE Published' /\ Backed'
  BY <1>23 DEF Kill
<1>24. ASSUME NEW p \in Paths, OtherFile(p) PROVE Published' /\ Backed'
  BY <1>24 DEF OtherFile
<1>25. ASSUME PowerLoss PROVE Published' /\ Backed'
  BY <1>25 DEF PowerLoss
<1>26. ASSUME NEW r \in Runs, SessionOpens(r) PROVE Published' /\ Backed'
  BY <1>26 DEF SessionOpens
<1>27. ASSUME UNCHANGED vars PROVE Published' /\ Backed'
  BY <1>27 DEF vars
<1> QED BY <1>1, <1>2, <1>3, <1>4, <1>5, <1>6, <1>7, <1>8, <1>9, <1>10, <1>11, <1>12,
        <1>13, <1>14, <1>15, <1>16, <1>17, <1>18, <1>19, <1>20, <1>21, <1>22, <1>23,
        <1>24, <1>25, <1>26, <1>27
   DEF Next, LocalStep, AnsweredStep, ContextDone

(* Every step leaves or ends the call before its command goes on. *)
LEMMA SessionsInductive == TypeOK /\ Sessions /\ [Next]_vars => Sessions'
<1> SUFFICES ASSUME TypeOK, Sessions, [Next]_vars
             PROVE  Sessions'
  OBVIOUS
<1>a. pc \in [Runs -> Labels] /\ session \in [Runs -> {"none", "opening", "open"}]
  BY DEF TypeOK
<1> USE <1>a DEF Sessions, AwaitsServer, Goto, HangUp, local, disk, site
<1>1. ASSUME NEW r \in Runs, StartImport(r) PROVE Sessions'
  BY <1>1 DEF StartImport, Return
<1>2. ASSUME NEW r \in Runs, DatabaseName(r) PROVE Sessions'
  BY <1>2 DEF DatabaseName
<1>3. ASSUME NEW r \in Runs, CreateStaging(r) PROVE Sessions'
  BY <1>3 DEF CreateStaging, Return
<1>4. ASSUME NEW r \in Runs, ScanAccepts(r) PROVE Sessions'
  BY <1>4 DEF ScanAccepts
<1>5. ASSUME NEW r \in Runs, ScanRefuses(r) PROVE Sessions'
  BY <1>5 DEF ScanRefuses, Return
<1>6. ASSUME NEW r \in Runs, Confirm(r) PROVE Sessions'
  BY <1>6 DEF Confirm
<1>7. ASSUME NEW r \in Runs, StartExport(r) PROVE Sessions'
  BY <1>7 DEF StartExport, Return
<1>8. ASSUME NEW r \in Runs, CreatePartial(r) PROVE Sessions'
  BY <1>8 DEF CreatePartial, SaveFailed
<1>9. ASSUME NEW r \in Runs, StreamEnds(r) PROVE Sessions'
  BY <1>9 DEF StreamEnds, VerifyDump
<1>10. ASSUME NEW r \in Runs, SyncAndClose(r) PROVE Sessions'
  BY <1>10 DEF SyncAndClose
<1>11. ASSUME NEW r \in Runs, Publish(r) PROVE Sessions'
  BY <1>11 DEF Publish
<1>12. ASSUME NEW r \in Runs, SyncDirectory(r) PROVE Sessions'
  BY <1>12 DEF SyncDirectory, SaveFailed, Return
<1>13. ASSUME NEW r \in Runs, Discard(r) PROVE Sessions'
  BY <1>13 DEF Discard, SaveFailed
<1>14. ASSUME NEW r \in Runs, Rewind(r) PROVE Sessions'
  BY <1>14 DEF Rewind
<1>15. ASSUME NEW r \in Runs, BeginImport(r) PROVE Sessions'
  BY <1>15 DEF BeginImport
<1>16. ASSUME NEW r \in Runs, ServerApplies(r) PROVE Sessions'
  BY <1>16 DEF ServerApplies, Write
<1>17. ASSUME NEW r \in Runs, ImportSucceeds(r) PROVE Sessions'
  BY <1>17 DEF ImportSucceeds, Write
<1>18. ASSUME NEW r \in Runs, ImportExits(r) PROVE Sessions'
  BY <1>18 DEF ImportExits, Write
<1>19. ASSUME NEW r \in Runs, Unstage(r) PROVE Sessions'
  BY <1>19 DEF Unstage
<1>20. ASSUME NEW r \in Runs, OpenSession(r) PROVE Sessions'
  BY <1>20 DEF OpenSession
<1>21. ASSUME NEW r \in Runs, RemoteFails(r) PROVE Sessions'
  BY <1>21 DEF RemoteFails, Return
<1>22. ASSUME NEW r \in Runs, Signal(r) PROVE Sessions'
  BY <1>22 DEF Signal
<1>23. ASSUME NEW r \in Runs, Kill(r) PROVE Sessions'
  BY <1>23 DEF Kill
<1>24. ASSUME NEW p \in Paths, OtherFile(p) PROVE Sessions'
  BY <1>24 DEF OtherFile
<1>25. ASSUME PowerLoss PROVE Sessions'
  BY <1>25 DEF PowerLoss
<1>26. ASSUME NEW r \in Runs, SessionOpens(r) PROVE Sessions'
  BY <1>26 DEF SessionOpens
<1>27. ASSUME UNCHANGED vars PROVE Sessions'
  BY <1>27 DEF vars
<1> QED BY <1>1, <1>2, <1>3, <1>4, <1>5, <1>6, <1>7, <1>8, <1>9, <1>10, <1>11, <1>12,
        <1>13, <1>14, <1>15, <1>16, <1>17, <1>18, <1>19, <1>20, <1>21, <1>22, <1>23,
        <1>24, <1>25, <1>26, <1>27
   DEF Next, LocalStep, AnsweredStep, ContextDone

(* A step that starts no import, changes no database and reads none keeps  *)
(* what the backups are of.                                                *)
LEMMA CurrentKept ==
  ASSUME Current, db' = db, imported' = imported, before' = before,
         \A q \in Runs : HasRead(q)' => HasRead(q),
         \A q \in Runs : HasRead(q)' \/ imported[q] => data'[q].of = data[q].of
  PROVE  Current'
BY DEF Current, Disturbed

(* Every step keeps what a backup is of. *)
LEMMA CurrentInductive ==
  TypeOK /\ Fits /\ Sessions /\ Current /\ [Next]_vars => Current'
<1> SUFFICES ASSUME TypeOK, Fits, Sessions, Current, [Next]_vars
             PROVE  Current'
  OBVIOUS
<1>a. /\ pc \in [Runs -> Labels] /\ imported \in [Runs -> BOOLEAN]
      /\ data \in [Runs -> [of : Contents \cup {"none"}, len : Lengths, synced : BOOLEAN]]
      /\ before \in [Runs -> Contents \cup {"none"}]
      /\ session \in [Runs -> {"none", "opening", "open"}]
  BY DEF TypeOK
<1> USE <1>a DEF Fits, Sessions, Goto, HangUp, local, disk, site, NoDump
<1>1. ASSUME NEW r \in Runs, StartImport(r) PROVE Current'
  <2>1. db' = db /\ imported' = imported /\ before' = before
    BY <1>1 DEF StartImport, Return
  <2>2. \A q \in Runs : HasRead(q)' => HasRead(q)
    BY <1>1 DEF StartImport, Return, HasRead
  <2>3. \A q \in Runs : HasRead(q)' \/ imported[q] => data'[q].of = data[q].of
    BY <1>1 DEF StartImport, Return, HasRead
  <2> QED BY <2>1, <2>2, <2>3, CurrentKept
<1>2. ASSUME NEW r \in Runs, DatabaseName(r) PROVE Current'
  <2>1. db' = db /\ imported' = imported /\ before' = before
    BY <1>2 DEF DatabaseName
  <2>2. \A q \in Runs : HasRead(q)' => HasRead(q)
    BY <1>2 DEF DatabaseName, HasRead
  <2>3. \A q \in Runs : HasRead(q)' \/ imported[q] => data'[q].of = data[q].of
    BY <1>2 DEF DatabaseName, HasRead
  <2> QED BY <2>1, <2>2, <2>3, CurrentKept
<1>3. ASSUME NEW r \in Runs, CreateStaging(r) PROVE Current'
  <2>1. db' = db /\ imported' = imported /\ before' = before
    BY <1>3 DEF CreateStaging, Return
  <2>2. \A q \in Runs : HasRead(q)' => HasRead(q)
    BY <1>3 DEF CreateStaging, Return, HasRead
  <2>3. \A q \in Runs : HasRead(q)' \/ imported[q] => data'[q].of = data[q].of
    BY <1>3 DEF CreateStaging, Return, HasRead
  <2> QED BY <2>1, <2>2, <2>3, CurrentKept
<1>4. ASSUME NEW r \in Runs, ScanAccepts(r) PROVE Current'
  <2>1. db' = db /\ imported' = imported /\ before' = before
    BY <1>4 DEF ScanAccepts
  <2>2. \A q \in Runs : HasRead(q)' => HasRead(q)
    BY <1>4 DEF ScanAccepts, HasRead
  <2>3. \A q \in Runs : HasRead(q)' \/ imported[q] => data'[q].of = data[q].of
    BY <1>4 DEF ScanAccepts, HasRead
  <2> QED BY <2>1, <2>2, <2>3, CurrentKept
<1>5. ASSUME NEW r \in Runs, ScanRefuses(r) PROVE Current'
  <2>1. db' = db /\ imported' = imported /\ before' = before
    BY <1>5 DEF ScanRefuses, Return
  <2>2. \A q \in Runs : HasRead(q)' => HasRead(q)
    BY <1>5 DEF ScanRefuses, Return, HasRead
  <2>3. \A q \in Runs : HasRead(q)' \/ imported[q] => data'[q].of = data[q].of
    BY <1>5 DEF ScanRefuses, Return, HasRead
  <2> QED BY <2>1, <2>2, <2>3, CurrentKept
<1>6. ASSUME NEW r \in Runs, Confirm(r) PROVE Current'
  <2>1. db' = db /\ imported' = imported /\ before' = before
    BY <1>6 DEF Confirm
  <2>2. \A q \in Runs : HasRead(q)' => HasRead(q)
    BY <1>6 DEF Confirm, HasRead
  <2>3. \A q \in Runs : HasRead(q)' \/ imported[q] => data'[q].of = data[q].of
    BY <1>6 DEF Confirm, HasRead
  <2> QED BY <2>1, <2>2, <2>3, CurrentKept
<1>7. ASSUME NEW r \in Runs, StartExport(r) PROVE Current'
  <2>1. db' = db /\ imported' = imported /\ before' = before
    BY <1>7 DEF StartExport, Return
  <2>2. \A q \in Runs : HasRead(q)' => HasRead(q)
    BY <1>7 DEF StartExport, Return, HasRead
  <2>3. \A q \in Runs : HasRead(q)' \/ imported[q] => data'[q].of = data[q].of
    BY <1>7 DEF StartExport, Return, HasRead
  <2> QED BY <2>1, <2>2, <2>3, CurrentKept
<1>8. ASSUME NEW r \in Runs, CreatePartial(r) PROVE Current'
  <2>1. db' = db /\ imported' = imported /\ before' = before
    BY <1>8 DEF CreatePartial, SaveFailed
  <2>2. \A q \in Runs : HasRead(q)' => HasRead(q)
    BY <1>8 DEF CreatePartial, SaveFailed, HasRead
  <2>3. \A q \in Runs : HasRead(q)' \/ imported[q] => data'[q].of = data[q].of
    BY <1>8 DEF CreatePartial, SaveFailed, HasRead
  <2> QED BY <2>1, <2>2, <2>3, CurrentKept
<1>9. ASSUME NEW r \in Runs, StreamEnds(r) PROVE Current'
  <2>1. db' = db /\ imported' = imported /\ before' = before
    BY <1>9 DEF StreamEnds, VerifyDump
  <2>2. \A q \in Runs : HasRead(q)' => HasRead(q)
    BY <1>9 DEF StreamEnds, VerifyDump, HasRead
  <2>3. \A q \in Runs : HasRead(q)' \/ imported[q] => data'[q].of = data[q].of
    BY <1>9 DEF StreamEnds, VerifyDump, HasRead
  <2> QED BY <2>1, <2>2, <2>3, CurrentKept
<1>10. ASSUME NEW r \in Runs, SyncAndClose(r) PROVE Current'
  <2>1. db' = db /\ imported' = imported /\ before' = before
    BY <1>10 DEF SyncAndClose
  <2>2. \A q \in Runs : HasRead(q)' => HasRead(q)
    BY <1>10 DEF SyncAndClose, HasRead
  <2>3. \A q \in Runs : HasRead(q)' \/ imported[q] => data'[q].of = data[q].of
    <3>1. data' = data \/ data' = [data EXCEPT ![r].synced = TRUE]
      BY <1>10 DEF SyncAndClose
    <3> QED BY <3>1
  <2> QED BY <2>1, <2>2, <2>3, CurrentKept
<1>11. ASSUME NEW r \in Runs, Publish(r) PROVE Current'
  <2>1. db' = db /\ imported' = imported /\ before' = before
    BY <1>11 DEF Publish
  <2>2. \A q \in Runs : HasRead(q)' => HasRead(q)
    BY <1>11 DEF Publish, HasRead
  <2>3. \A q \in Runs : HasRead(q)' \/ imported[q] => data'[q].of = data[q].of
    BY <1>11 DEF Publish, HasRead
  <2> QED BY <2>1, <2>2, <2>3, CurrentKept
<1>12. ASSUME NEW r \in Runs, SyncDirectory(r) PROVE Current'
  <2>1. db' = db /\ imported' = imported /\ before' = before
    BY <1>12 DEF SyncDirectory, SaveFailed, Return
  <2>2. \A q \in Runs : HasRead(q)' => HasRead(q)
    BY <1>12 DEF SyncDirectory, SaveFailed, Return, HasRead
  <2>3. \A q \in Runs : HasRead(q)' \/ imported[q] => data'[q].of = data[q].of
    BY <1>12 DEF SyncDirectory, SaveFailed, Return, HasRead
  <2> QED BY <2>1, <2>2, <2>3, CurrentKept
<1>13. ASSUME NEW r \in Runs, Discard(r) PROVE Current'
  <2>1. db' = db /\ imported' = imported /\ before' = before
    BY <1>13 DEF Discard, SaveFailed
  <2>2. \A q \in Runs : HasRead(q)' => HasRead(q)
    BY <1>13 DEF Discard, SaveFailed, HasRead
  <2>3. \A q \in Runs : HasRead(q)' \/ imported[q] => data'[q].of = data[q].of
    BY <1>13 DEF Discard, SaveFailed, HasRead
  <2> QED BY <2>1, <2>2, <2>3, CurrentKept
<1>14. ASSUME NEW r \in Runs, Rewind(r) PROVE Current'
  <2>1. db' = db /\ imported' = imported /\ before' = before
    BY <1>14 DEF Rewind
  <2>2. \A q \in Runs : HasRead(q)' => HasRead(q)
    BY <1>14 DEF Rewind, HasRead
  <2>3. \A q \in Runs : HasRead(q)' \/ imported[q] => data'[q].of = data[q].of
    BY <1>14 DEF Rewind, HasRead
  <2> QED BY <2>1, <2>2, <2>3, CurrentKept
<1>15. ASSUME NEW r \in Runs, BeginImport(r) PROVE Current'
  BY <1>15 DEF BeginImport, Current, Disturbed, HasRead
<1>16. ASSUME NEW r \in Runs, ServerApplies(r) PROVE Current'
  BY <1>16 DEF ServerApplies, Write, Current, Disturbed, HasRead
<1>17. ASSUME NEW r \in Runs, ImportSucceeds(r) PROVE Current'
  <2>1. imported' = imported /\ before' = before /\ imported[r]
    BY <1>17 DEF ImportSucceeds
  <2>2. \A q \in Runs : imported[q] => data'[q].of = data[q].of
    BY <1>17 DEF ImportSucceeds, Write
  <2> QED BY <2>1, <2>2 DEF Current, Disturbed
<1>18. ASSUME NEW r \in Runs, ImportExits(r) PROVE Current'
  <2>1. imported' = imported /\ before' = before /\ imported[r]
    BY <1>18 DEF ImportExits
  <2>2. \A q \in Runs : imported[q] => data'[q].of = data[q].of
    BY <1>18 DEF ImportExits, Write
  <2> QED BY <2>1, <2>2 DEF Current, Disturbed
<1>19. ASSUME NEW r \in Runs, Unstage(r) PROVE Current'
  <2>1. db' = db /\ imported' = imported /\ before' = before
    BY <1>19 DEF Unstage
  <2>2. \A q \in Runs : HasRead(q)' => HasRead(q)
    BY <1>19 DEF Unstage, HasRead
  <2>3. \A q \in Runs : HasRead(q)' \/ imported[q] => data'[q].of = data[q].of
    BY <1>19 DEF Unstage, HasRead
  <2> QED BY <2>1, <2>2, <2>3, CurrentKept
<1>20. ASSUME NEW r \in Runs, OpenSession(r) PROVE Current'
  <2>1. db' = db /\ imported' = imported /\ before' = before
    BY <1>20 DEF OpenSession
  <2>2. \A q \in Runs : HasRead(q)' => HasRead(q)
    BY <1>20 DEF OpenSession, HasRead
  <2>3. \A q \in Runs : HasRead(q)' \/ imported[q] => data'[q].of = data[q].of
    BY <1>20 DEF OpenSession, HasRead
  <2> QED BY <2>1, <2>2, <2>3, CurrentKept
<1>21. ASSUME NEW r \in Runs, RemoteFails(r) PROVE Current'
  <2>1. db' = db /\ data' = data /\ HangUp(r)
    BY <1>21 DEF RemoteFails
  <2>2. CASE pc[r] = "import"
    <3>1. imported' = [imported EXCEPT ![r] = TRUE]
      BY <1>21, <2>2 DEF RemoteFails
    <3>2. before' = [before EXCEPT ![r] = IF imported[r] THEN @ ELSE db]
      BY <1>21, <2>2 DEF RemoteFails
    <3>3. \A q \in Runs \ {r} : Disturbed(q)'
      BY <3>1 DEF Disturbed
    <3>4. imported[r] \/ data[r].of = db \/ Disturbed(r)
      BY <2>2 DEF Current, HasRead
    <3>5. Disturbed(r) => Disturbed(r)'
      BY <3>1 DEF Disturbed
    <3> QED BY <2>1, <3>1, <3>2, <3>3, <3>4, <3>5 DEF Current
  <2>3. CASE pc[r] # "import"
    <3>1. imported' = imported /\ before' = before
      BY <1>21, <2>3 DEF RemoteFails
    <3>2. \A q \in Runs : HasRead(q)' => HasRead(q)
      BY <1>21, <2>3 DEF RemoteFails, Return, HasRead
    <3> QED BY <2>1, <3>1, <3>2, CurrentKept
  <2> QED BY <2>2, <2>3
<1>22. ASSUME NEW r \in Runs, Signal(r) PROVE Current'
  <2>1. db' = db /\ imported' = imported /\ before' = before
    BY <1>22 DEF Signal
  <2>2. \A q \in Runs : HasRead(q)' => HasRead(q)
    BY <1>22 DEF Signal, HasRead
  <2>3. \A q \in Runs : HasRead(q)' \/ imported[q] => data'[q].of = data[q].of
    BY <1>22 DEF Signal, HasRead
  <2> QED BY <2>1, <2>2, <2>3, CurrentKept
<1>23. ASSUME NEW r \in Runs, Kill(r) PROVE Current'
  <2>1. db' = db /\ imported' = imported /\ before' = before
    BY <1>23 DEF Kill
  <2>2. \A q \in Runs : HasRead(q)' => HasRead(q)
    BY <1>23 DEF Kill, HasRead
  <2>3. \A q \in Runs : HasRead(q)' \/ imported[q] => data'[q].of = data[q].of
    BY <1>23 DEF Kill, HasRead
  <2> QED BY <2>1, <2>2, <2>3, CurrentKept
<1>24. ASSUME NEW p \in Paths, OtherFile(p) PROVE Current'
  <2>1. db' = db /\ imported' = imported /\ before' = before
    BY <1>24 DEF OtherFile
  <2>2. \A q \in Runs : HasRead(q)' => HasRead(q)
    BY <1>24 DEF OtherFile, HasRead
  <2>3. \A q \in Runs : HasRead(q)' \/ imported[q] => data'[q].of = data[q].of
    BY <1>24 DEF OtherFile, HasRead
  <2> QED BY <2>1, <2>2, <2>3, CurrentKept
<1>25. ASSUME PowerLoss PROVE Current'
  <2>1. db' = db /\ imported' = imported /\ before' = before
    BY <1>25 DEF PowerLoss
  <2>2. \A q \in Runs : HasRead(q)' => HasRead(q)
    BY <1>25 DEF PowerLoss, HasRead
  <2>3. \A q \in Runs : HasRead(q)' \/ imported[q] => data'[q].of = data[q].of
    BY <1>25 DEF PowerLoss, HasRead
  <2> QED BY <2>1, <2>2, <2>3, CurrentKept
<1>26. ASSUME NEW r \in Runs, SessionOpens(r) PROVE Current'
  <2>1. db' = db /\ imported' = imported /\ before' = before /\ pc' = pc
    BY <1>26 DEF SessionOpens
  <2>2. \A q \in Runs : HasRead(q)' => HasRead(q) \/ (q = r /\ data'[q].of = db)
    BY <1>26 DEF SessionOpens, HasRead
  <2>3. \A q \in Runs : HasRead(q) \/ imported[q] => data'[q].of = data[q].of
    BY <1>26 DEF SessionOpens, HasRead
  <2> QED BY <2>1, <2>2, <2>3 DEF Current, Disturbed
<1>27. ASSUME UNCHANGED vars PROVE Current'
  <2>1. db' = db /\ imported' = imported /\ before' = before
    BY <1>27 DEF vars
  <2>2. \A q \in Runs : HasRead(q)' => HasRead(q)
    BY <1>27 DEF vars, HasRead
  <2>3. \A q \in Runs : HasRead(q)' \/ imported[q] => data'[q].of = data[q].of
    BY <1>27 DEF vars, HasRead
  <2> QED BY <2>1, <2>2, <2>3, CurrentKept
<1> QED BY <1>1, <1>2, <1>3, <1>4, <1>5, <1>6, <1>7, <1>8, <1>9, <1>10, <1>11, <1>12,
        <1>13, <1>14, <1>15, <1>16, <1>17, <1>18, <1>19, <1>20, <1>21, <1>22, <1>23,
        <1>24, <1>25, <1>26, <1>27
   DEF Next, LocalStep, AnsweredStep, ContextDone

(* Every step keeps track of the files on their way. *)
LEMMA LeftoversInductive ==
  TypeOK /\ Fits /\ Leftovers /\ [Next]_vars => Leftovers'
<1> SUFFICES ASSUME TypeOK, Fits, Leftovers, [Next]_vars
             PROVE  Leftovers'
  OBVIOUS
<1>a. /\ pc \in [Runs -> Labels]
      /\ staged \in [Runs -> {"absent", "start", "end", "unremovable"}]
      /\ tmp \in [Runs -> {"absent", "there"}]
      /\ result \in [Runs -> {"none", "ok", "error", "leftover"}]
  BY DEF TypeOK
<1> USE <1>a DEF Fits, Leftovers, IsImport, Goto, local, disk, site
<1>1. ASSUME NEW r \in Runs, StartImport(r) PROVE Leftovers'
  BY <1>1 DEF StartImport, Return
<1>2. ASSUME NEW r \in Runs, DatabaseName(r) PROVE Leftovers'
  BY <1>2 DEF DatabaseName
<1>3. ASSUME NEW r \in Runs, CreateStaging(r) PROVE Leftovers'
  BY <1>3 DEF CreateStaging, Return
<1>4. ASSUME NEW r \in Runs, ScanAccepts(r) PROVE Leftovers'
  BY <1>4 DEF ScanAccepts
<1>5. ASSUME NEW r \in Runs, ScanRefuses(r) PROVE Leftovers'
  BY <1>5 DEF ScanRefuses, Return
<1>6. ASSUME NEW r \in Runs, Confirm(r) PROVE Leftovers'
  BY <1>6 DEF Confirm
<1>7. ASSUME NEW r \in Runs, StartExport(r) PROVE Leftovers'
  BY <1>7 DEF StartExport, Return
<1>8. ASSUME NEW r \in Runs, CreatePartial(r) PROVE Leftovers'
  BY <1>8 DEF CreatePartial, SaveFailed
<1>9. ASSUME NEW r \in Runs, StreamEnds(r) PROVE Leftovers'
  BY <1>9 DEF StreamEnds, VerifyDump
<1>10. ASSUME NEW r \in Runs, SyncAndClose(r) PROVE Leftovers'
  <2>1. pc[r] = "sync" /\ opt' = opt /\ staged' = staged /\ tmp' = tmp /\ result' = result
    BY <1>10 DEF SyncAndClose
  <2>2. pc'[r] \in {"link", "discard"} /\ \A q \in Runs : q # r => pc'[q] = pc[q]
    BY <1>10 DEF SyncAndClose
  <2> QED BY <2>1, <2>2
<1>11. ASSUME NEW r \in Runs, Publish(r) PROVE Leftovers'
  BY <1>11 DEF Publish
<1>12. ASSUME NEW r \in Runs, SyncDirectory(r) PROVE Leftovers'
  BY <1>12 DEF SyncDirectory, SaveFailed, Return
<1>13. ASSUME NEW r \in Runs, Discard(r) PROVE Leftovers'
  BY <1>13 DEF Discard, SaveFailed
<1>14. ASSUME NEW r \in Runs, Rewind(r) PROVE Leftovers'
  BY <1>14 DEF Rewind
<1>15. ASSUME NEW r \in Runs, BeginImport(r) PROVE Leftovers'
  BY <1>15 DEF BeginImport
<1>16. ASSUME NEW r \in Runs, ServerApplies(r) PROVE Leftovers'
  BY <1>16 DEF ServerApplies, Write
<1>17. ASSUME NEW r \in Runs, ImportSucceeds(r) PROVE Leftovers'
  BY <1>17 DEF ImportSucceeds, Write
<1>18. ASSUME NEW r \in Runs, ImportExits(r) PROVE Leftovers'
  BY <1>18 DEF ImportExits, Write
<1>19. ASSUME NEW r \in Runs, Unstage(r) PROVE Leftovers'
  BY <1>19 DEF Unstage
<1>20. ASSUME NEW r \in Runs, OpenSession(r) PROVE Leftovers'
  BY <1>20 DEF OpenSession
<1>21. ASSUME NEW r \in Runs, RemoteFails(r) PROVE Leftovers'
  BY <1>21 DEF RemoteFails, Return
<1>22. ASSUME NEW r \in Runs, Signal(r) PROVE Leftovers'
  BY <1>22 DEF Signal
<1>23. ASSUME NEW r \in Runs, Kill(r) PROVE Leftovers'
  BY <1>23 DEF Kill
<1>24. ASSUME NEW p \in Paths, OtherFile(p) PROVE Leftovers'
  BY <1>24 DEF OtherFile
<1>25. ASSUME PowerLoss PROVE Leftovers'
  BY <1>25 DEF PowerLoss
<1>26. ASSUME NEW r \in Runs, SessionOpens(r) PROVE Leftovers'
  BY <1>26 DEF SessionOpens
<1>27. ASSUME UNCHANGED vars PROVE Leftovers'
  BY <1>27 DEF vars
<1> QED BY <1>1, <1>2, <1>3, <1>4, <1>5, <1>6, <1>7, <1>8, <1>9, <1>10, <1>11, <1>12,
        <1>13, <1>14, <1>15, <1>16, <1>17, <1>18, <1>19, <1>20, <1>21, <1>22, <1>23,
        <1>24, <1>25, <1>26, <1>27
   DEF Next, LocalStep, AnsweredStep, ContextDone

----------------------------------------------------------------------------
(* At first nothing runs, and there is no file. *)
LEMMA InitIInv == Init => IInv
BY RestoreAssumption
   DEF Init, IInv, TypeOK, Fits, Sessions, Dumps, Published, Backed, Current, Leftovers,
       IsImport, HasRead, Labels, Lengths, Contents, NoDump

(* Every step keeps the inductive invariant. *)
LEMMA NextIInv == IInv /\ [Next]_vars => IInv'
BY BasicsInductive, SessionsInductive, PublishedInductive, CurrentInductive, LeftoversInductive
   DEF IInv

(* The inductive invariant holds, for any commands on any paths. *)
THEOREM Invariance == Spec => []IInv
<1> QED BY InitIInv, NextIInv, PTL DEF Spec

(* Types hold; in particular what was synced is a whole dump. *)
THEOREM TypeCorrect == Spec => []TypeOK
<1>1. IInv => TypeOK BY DEF IInv
<1> QED BY <1>1, Invariance, PTL

(* Nothing is imported without a whole backup under its final name, of the *)
(* database the import began to replace, unless another import ran (the    *)
(* order of restoreDB).                                                    *)
THEOREM AlwaysRestorable == Spec => []Restorable
<1>1. IInv => Restorable
  BY DEF IInv, TypeOK, Backed, Current, Disturbed, Restorable
<1> QED BY <1>1, Invariance, PTL

(* What has a final name is a whole dump, also after a power loss.         *)
THEOREM FinalNamesAreWhole == Spec => []FinalNamesWhole
<1>1. IInv => FinalNamesWhole
  BY DEF IInv, TypeOK, Published, FinalNamesWhole
<1> QED BY <1>1, Invariance, PTL

(* A command that ended by itself left no file on its way behind, or could *)
(* not remove it.                                                          *)
THEOREM NothingIsLeftBehind == Spec => []NothingLeftBehind
<1>1. IInv => NothingLeftBehind
  BY DEF IInv, Leftovers, NothingLeftBehind
<1> QED BY <1>1, Invariance, PTL

(* The step of NeverReplaced. *)
LEMMA StepReplacesNothing ==
  ASSUME TypeOK, [Next]_vars, NEW p \in Paths, files[p] # "absent", files'[p] # files[p]
  PROVE  powered /\ ~powered' /\ files'[p] = "absent"
<1> USE OptionsTyped DEF TypeOK
<1>1. ASSUME NEW r \in Runs, Publish(r) PROVE files'[p] = files[p]
  BY <1>1 DEF Publish
<1>2. ASSUME NEW q \in Paths, OtherFile(q) PROVE files'[p] = files[p]
  BY <1>2 DEF OtherFile
<1>3. ASSUME PowerLoss PROVE powered /\ ~powered' /\ files'[p] = "absent"
  BY <1>3 DEF PowerLoss
<1>4. \/ files' = files \/ PowerLoss
      \/ \E r \in Runs : Publish(r)
      \/ \E q \in Paths : OtherFile(q)
  BY DEF Next, LocalStep, AnsweredStep, ContextDone, vars, local, disk, site, StartImport,
    DatabaseName, CreateStaging, ScanAccepts, ScanRefuses, Confirm, StartExport, CreatePartial,
    StreamEnds, SyncAndClose, SyncDirectory, Discard, Rewind, BeginImport, ServerApplies,
    ImportSucceeds, ImportExits, Unstage, OpenSession, SessionOpens, RemoteFails,
    Signal, Kill
<1> QED BY <1>1, <1>2, <1>3, <1>4

(* No step replaces a file that has a final name, for any commands.        *)
THEOREM FilesAreNeverReplaced == Spec => NeverReplaced
<1>1. TypeOK /\ [Next]_vars =>
        [\A p \in Paths : files[p] # "absent" /\ files'[p] # files[p] =>
           powered /\ ~powered' /\ files'[p] = "absent"]_vars
  BY StepReplacesNothing
<1> QED BY <1>1, TypeCorrect, PTL DEF Spec, NeverReplaced
=============================================================================
