---------------------------- MODULE DumpReaders ----------------------------
(***************************************************************************)
(* How the programs behind wp db import read a dump: the mysql and mariadb *)
(* clients, which split it into statements, and servers that run or skip a *)
(* version comment.  None of them is in the repository: this is the        *)
(* reading that scanDump's documentation (internal/cmd/dumpscan.go:12-59)  *)
(* ascribes to them, one byte at a time and without looking ahead.         *)
(*                                                                         *)
(* Bytes are classes of bytes.  A word that matters as a whole is one      *)
(* byte: the client command "system", "use", "delimiter", "outfile", a     *)
(* version number "ver", and "nines" for 999999.                           *)
(***************************************************************************)
EXTENDS Integers, Sequences

Quotes == {"sq", "dq", "bq"}
Space == {"sp", "nl"}
WordBytes == {"w", "M", "ver", "nines", "system", "use", "delimiter", "outfile"}
Bytes ==
  Quotes \cup Space \cup WordBytes
  \cup {"bs", "hash", "dash", "slash", "star", "bang", "plus", "semi", "colon", "eq"}

(* Who reads: two clients, which send what they read, the servers of both, *)
(* and a server too old for the version of a comment.  MariaDB's know /*M! *)
Readers == {"mysql", "mariadb", "mysqld", "mariadbd", "old"}
IsClient(k) == k \in {"mysql", "mariadb"}
KnowsM(k) == k \in {"mariadb", "mariadbd", "old"}

(* in: code, a quote, "lc" to the end of the line, "ml" to the next */,    *)
(* DELIMITER's argument, or what cannot be taken back: "command", "file",  *)
(* "assign".                                                               *)
Places ==
  {"code", "lc", "ml", "hint", "argument", "command", "file", "assign"} \cup Quotes

(* pend: the bytes just read that may begin something, "opened" after /*.  *)
(* A word goes on; only one that the line begins with is a command.        *)
WordPends == {"word", "system", "use", "delimiter", "outfile"}
Pends ==
  {"none", "slash", "star", "firstdash", "dash", "dashes", "bs", "colon",
   "opened", "openedM", "version"} \cup WordPends

(* bol: only spaces so far on the line; new: no code so far in the         *)
(* statement.  ends: parity of the statements read.  delim: how many       *)
(* semicolons the delimiter has, semis: how many of them have been read.   *)
ReaderStates ==
  [in : Places, cond : BOOLEAN, pend : Pends, bol : BOOLEAN, new : BOOLEAN,
   ends : {0, 1}, delim : Nat, semis : Nat]

ReaderInit ==
  [in |-> "code", cond |-> FALSE, pend |-> "none", bol |-> TRUE, new |-> TRUE,
   ends |-> 0, delim |-> 1, semis |-> 0]

(* What a byte of code that completes nothing may begin. *)
Pending(k, r, b) ==
  CASE b = "dash" -> IF k = "mariadb" /\ r.bol /\ r.new THEN "firstdash" ELSE "dash"
    [] b = "star" -> IF r.cond THEN "star" ELSE "none"
    [] b \in {"slash", "bs", "colon", "outfile"} -> b
    [] b \in {"system", "use", "delimiter"} -> IF r.bol THEN b ELSE "word"
    [] b \in {"w", "M", "ver", "nines"} -> "word"
    [] OTHER -> "none"

(* The statement ends with the last semicolon of the delimiter. *)
Ends(r, b) == b = "semi" /\ r.semis + 1 = r.delim

(* A byte of code that completes nothing but, it may be, a delimiter. *)
Fresh(k, r, b) ==
  [r EXCEPT !.in = IF b \in Quotes THEN b ELSE IF b = "hash" THEN "lc" ELSE "code",
            !.pend = Pending(k, r, b),
            !.bol = b = "nl" \/ (@ /\ b = "sp"),
            !.new = Ends(r, b) \/ (@ /\ b \in Space \cup {"hash"}),
            !.ends = IF Ends(r, b) THEN 1 - @ ELSE @,
            !.semis = IF b = "semi" /\ ~Ends(r, b) THEN @ + 1 ELSE 0]

(* A byte of a comment. *)
Skip(r, b) == [r EXCEPT !.in = "ml", !.pend = IF b = "star" THEN "star" ELSE "none"]

(* The byte after "/*" or "/*M". *)
Opened(k, r, b) ==
  CASE b = "bang" -> [r EXCEPT !.pend = "version"]
    [] r.pend = "opened" /\ b = "M" /\ KnowsM(k) -> [r EXCEPT !.pend = "openedM"]
    [] r.pend = "opened" /\ b = "plus" -> [r EXCEPT !.in = "hint", !.pend = "none"]
    [] OTHER -> Skip(r, b)

(* The byte after "!".  A server skips a version comment it does not run   *)
(* to the next */, without reading quotes; 999999 is run by none.          *)
Version(k, r, b) ==
  LET skips == k = "old" \/ (b = "nines" /\ ~IsClient(k))
  IN CASE skips -> Skip(r, b)
       [] ~skips /\ b \in {"ver", "nines"} -> [r EXCEPT !.pend = "none", !.cond = TRUE]
       [] OTHER -> Fresh(k, [r EXCEPT !.cond = TRUE], b)

ReadCode(k, r, b) ==
  LET p == r.pend
      t == [r EXCEPT !.pend = "none"]
  IN CASE p \in {"opened", "openedM"} -> Opened(k, r, b)
       [] p = "version" -> Version(k, r, b)
       [] p = "slash" /\ b = "star" -> [r EXCEPT !.pend = "opened"]
       [] p = "star" /\ b = "slash" -> [t EXCEPT !.cond = FALSE]
       [] p = "firstdash" /\ b = "dash" -> [t EXCEPT !.in = "lc"]
       [] p \in {"dash", "dashes"} /\ b = "dash" -> [r EXCEPT !.pend = "dashes"]
       [] p = "dashes" /\ b = "sp" -> [t EXCEPT !.in = "lc"]
       [] p = "colon" /\ b = "eq" /\ ~IsClient(k) -> [t EXCEPT !.in = "assign"]
       [] p = "bs" -> IF b = "dash" THEN t ELSE [t EXCEPT !.in = "command"]
       [] p \in WordPends /\ b \in WordBytes -> [r EXCEPT !.pend = "word"]
       [] p = "outfile" /\ b \notin WordBytes /\ ~IsClient(k) -> [t EXCEPT !.in = "file"]
       [] p = "system" /\ b \notin WordBytes /\ IsClient(k) -> [t EXCEPT !.in = "command"]
       [] p = "use" /\ b \notin WordBytes \cup {"nl"} -> [t EXCEPT !.in = "lc"]
       [] p = "delimiter" /\ b = "sp" -> [t EXCEPT !.in = "argument", !.delim = 0]
       [] OTHER -> Fresh(k, r, b)

(* Clients read a backslash as an escape in every quote, servers not in    *)
(* backticks.                                                              *)
ReadQuoted(k, r, b) ==
  CASE r.pend = "bs" -> [r EXCEPT !.pend = "none"]
    [] r.pend /= "bs" /\ b = "bs" /\ (IsClient(k) \/ r.in /= "bq") -> [r EXCEPT !.pend = "bs"]
    [] r.pend /= "bs" /\ b = r.in -> [r EXCEPT !.in = "code"]
    [] OTHER -> r

Read(k, r, b) ==
  CASE r.in = "code" -> ReadCode(k, r, b)
    [] r.in \in Quotes -> ReadQuoted(k, r, b)
    [] r.in \in {"lc", "argument"} /\ b = "nl" -> [r EXCEPT !.in = "code", !.bol = TRUE]
    [] r.in = "argument" /\ b = "semi" -> [r EXCEPT !.delim = @ + 1]
    [] r.in = "ml" ->
         IF r.pend = "star" /\ b = "slash" THEN [r EXCEPT !.in = "code", !.pend = "none"]
                                           ELSE Skip(r, b)
    [] OTHER -> r

ReadAll(k, r, bytes) ==
  LET after[i \in 0 .. Len(bytes)] == IF i = 0 THEN r ELSE Read(k, after[i - 1], bytes[i])
  IN after[Len(bytes)]
=============================================================================
