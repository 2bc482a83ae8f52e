----------------------------- MODULE DumpLexer -----------------------------
(***************************************************************************)
(* dumpScanner of internal/cmd/dumpscan.go: the bytes of a dump, one byte  *)
(* or one short look-ahead at a time, beside the programs that will read   *)
(* the dump if it is accepted.  The dump is any sequence of Bytes, of any  *)
(* length; a byte is chosen when the scanner first looks at it.            *)
(*                                                                         *)
(* Of stmtCheck only the first token is kept: whether the rest of a        *)
(* statement is allowed is the subject of DumpStatement.                   *)
(***************************************************************************)
EXTENDS DumpReaders

CONSTANT
  MaxDelimiter  \* 16: the longest delimiter setDelimiter takes

ASSUME MaxDelimiterAssumption == MaxDelimiter \in Nat \ {0}

VARIABLES
  win,      \* the bytes looked at and not yet consumed
  eof,      \* the dump has no byte after win
  s,        \* the dumpScanner
  readers,  \* [Readers -> what each has read of the consumed bytes]
  verdict   \* "reading", "refused" or "accepted"

vars == <<win, eof, s, readers, verdict>>

(* at: lineStart's two stages "bol" and "indent", restOfLine "rest",       *)
(* skipLine "skip", lineComment "lc", openComment "open" and "version",    *)
(* and readLine for DELIMITER or use.  first: the statement has no token;  *)
(* cur: the token being collected.                                         *)
Scanner ==
  [at : {"bol", "indent", "rest", "skip", "lc", "open", "version", "delimiter", "use"},
   state : {"code", "comment"} \cup Quotes, cond : BOOLEAN, dead : BOOLEAN,
   delim : 1 .. MaxDelimiter, word : {"none", "outfile", "other"}, started : BOOLEAN,
   first : BOOLEAN, cur : {"none", "word", "quote"}, arg : 0 .. MaxDelimiter,
   argDone : BOOLEAN, ends : {0, 1}]

Init ==
  /\ win = <<>>
  /\ eof = FALSE
  /\ s = [at |-> "bol", state |-> "code", cond |-> FALSE, dead |-> FALSE, delim |-> 1,
          word |-> "none", started |-> FALSE, first |-> TRUE, cur |-> "none", arg |-> 0,
          argDone |-> FALSE, ends |-> 0]
  /\ readers = [k \in Readers |-> ReaderInit]
  /\ verdict = "reading"

At(i) == IF i <= Len(win) THEN win[i] ELSE "eof"

(* How many bytes the next step looks at: next, Peek(2) and Peek(3). *)
Need ==
  LET b == At(1)
      code == s.at = "rest" /\ s.state = "code"
      quoted == s.at = "rest" /\ s.state \in Quotes
  IN CASE b = "dash" /\ (s.at = "bol" \/ code) -> IF At(2) = "dash" THEN 3 ELSE 2
       [] b \in {"system", "use", "delimiter"} /\ s.at = "indent" -> 2
       [] b = "M" /\ s.at = "open" -> 2
       [] b = "semi" /\ code -> s.delim
       [] b \in {"slash", "colon", "bs"} /\ code -> 2
       [] b = "star" /\ s.at = "rest" -> 2
       [] b = "bs" /\ quoted -> IF At(2) = "star" THEN 3 ELSE 2
       [] b = s.state /\ quoted -> 2
       [] OTHER -> 1

Ready == verdict = "reading" /\ (Len(win) >= Need \/ eof)

Arrives ==
  /\ verdict = "reading" /\ ~Ready
  /\ \/ \E b \in Bytes : win' = Append(win, b) /\ UNCHANGED eof
     \/ eof' = TRUE /\ UNCHANGED win
  /\ UNCHANGED <<s, readers, verdict>>

(* The scanner consumes n bytes, and everybody else reads them. *)
Consume(n, t) ==
  /\ s' = t
  /\ win' = SubSeq(win, n + 1, Len(win))
  /\ readers' = [k \in Readers |-> ReadAll(k, readers[k], SubSeq(win, 1, n))]
  /\ UNCHANGED <<eof, verdict>>

Refuse == verdict' = "refused" /\ win' = <<>> /\ UNCHANGED <<eof, s, readers>>
----------------------------------------------------------------------------
(* stmtCheck as far as the scanner depends on it. *)

(* flush: the token collected so far is pushed. *)
Flush(t) == [t EXCEPT !.cur = "none", !.first = @ /\ t.cur = "none"]

EndStatement(t) ==
  [Flush(t) EXCEPT !.started = FALSE, !.first = TRUE, !.ends = 1 - @]

(* A statement that starts with punctuation or a quote is not one checkHead *)
(* allows.                                                                 *)
StartsWithWord(t) == t.cur = "word" \/ ~t.first
----------------------------------------------------------------------------
(* lineStart                                                               *)

DashComment(i) == At(i) = "dash" /\ At(i + 1) = "dash" /\ At(i + 2) \in Space \cup {"eof"}

(* A line that starts with # or "-- " is dropped whole. *)
DropLine ==
  /\ Ready /\ s.at = "bol" /\ win /= <<>>
  /\ At(1) = "hash" \/ DashComment(1)
  /\ IF s.cond THEN Refuse ELSE Consume(0, [s EXCEPT !.at = "skip"])

LeaveBol ==
  /\ Ready /\ s.at = "bol" /\ win /= <<>>
  /\ ~(At(1) = "hash" \/ DashComment(1))
  /\ Consume(0, [s EXCEPT !.at = "indent"])

Indent ==
  /\ Ready /\ s.at = "indent" /\ At(1) = "sp"
  /\ Consume(1, s)

IsLineWord(w) == At(1) = w /\ At(2) \notin WordBytes

(* Fault: client commands are looked for only between statements. *)
LineWord_BetweenStatements ==
  /\ Ready /\ s.at = "indent" /\ win /= <<>> /\ At(1) /= "sp"
  /\ CASE IsLineWord("system") /\ ~s.started -> Refuse
       [] IsLineWord("use") -> Consume(1, [s EXCEPT !.at = "use"])
       [] IsLineWord("delimiter") /\ At(2) = "sp" ->
            IF s.cond THEN Refuse
            ELSE Consume(1, [s EXCEPT !.at = "delimiter", !.arg = 0, !.argDone = FALSE])
       [] OTHER -> Consume(0, [s EXCEPT !.at = "rest"])

(* The first word of the line: a client command is refused, and "use" and  *)
(* DELIMITER read their argument.                                          *)
LineWord ==
  /\ Ready /\ s.at = "indent" /\ win /= <<>> /\ At(1) /= "sp"
  /\ CASE IsLineWord("system") -> Refuse
       [] IsLineWord("use") -> Consume(1, [s EXCEPT !.at = "use"])
       [] IsLineWord("delimiter") /\ At(2) = "sp" ->
            IF s.cond THEN Refuse
            ELSE Consume(1, [s EXCEPT !.at = "delimiter", !.arg = 0, !.argDone = FALSE])
       [] OTHER -> Consume(0, [s EXCEPT !.at = "rest"])

(* skipLine *)
SkipLine ==
  /\ Ready /\ s.at = "skip" /\ win /= <<>>
  /\ Consume(1, [s EXCEPT !.at = IF At(1) = "nl" THEN "bol" ELSE "skip"])

(* readLine and checkUse: whether the argument names the target database   *)
(* is left open.  Bound: that name is made of word bytes.                  *)
UseLine ==
  /\ Ready /\ s.at = "use"
  /\ \/ Refuse
     \/ /\ At(1) \in WordBytes \cup Space \cup Quotes \cup {"semi"}
        /\ Consume(1, [s EXCEPT !.at = IF At(1) = "nl" THEN "bol" ELSE "use"])

(* setDelimiter: not inside a statement, and one word. *)
CanSetDelimiter == ~s.started /\ s.arg > 0

(* readLine and setDelimiter.  Bound: delimiters of semicolons, what       *)
(* mysqldump writes; any other is refused.                                 *)
DelimiterLine ==
  /\ Ready /\ s.at = "delimiter" /\ win /= <<>>
  /\ CASE At(1) = "semi" /\ ~s.argDone /\ s.arg < MaxDelimiter -> Consume(1, [s EXCEPT !.arg = @ + 1])
       [] At(1) = "sp" -> Consume(1, [s EXCEPT !.argDone = s.arg > 0])
       [] At(1) = "nl" /\ CanSetDelimiter ->
            Consume(1, [s EXCEPT !.at = "bol", !.delim = s.arg, !.arg = 0, !.argDone = FALSE])
       [] OTHER -> Refuse
----------------------------------------------------------------------------
(* restOfLine                                                              *)

InLine == Ready /\ s.at = "rest" /\ win /= <<>>

(* Fault: endWord is forgotten at the end of a line. *)
EndLine_KeepsWord ==
  /\ InLine /\ At(1) = "nl"
  /\ IF s.state = "code" THEN Consume(1, [Flush(s) EXCEPT !.at = "bol", !.word = "none"])
     ELSE Consume(1, s)

(* The newline. *)
EndLine ==
  /\ InLine /\ At(1) = "nl"
  /\ CASE s.state /= "code" -> Consume(1, s)
       [] s.state = "code" /\ s.word = "outfile" -> Refuse
       [] OTHER -> Consume(1, [Flush(s) EXCEPT !.at = "bol", !.word = "none"])

InComment ==
  /\ InLine /\ s.state = "comment" /\ At(1) /= "nl"
  /\ IF At(1) = "star" /\ At(2) = "slash" THEN Consume(2, [s EXCEPT !.state = "code"])
                                          ELSE Consume(1, s)

(* Fault: a quote inside a version comment may run past its end. *)
CommentEndsAt_Nowhere(i) == FALSE

(* The bytes at which a server that skips the version comment ends it. *)
CommentEndsAt(i) == s.cond /\ At(i) = "star" /\ At(i + 1) = "slash"

(* endQuote: the quoted token is pushed. *)
CloseQuote ==
  IF s.first /\ s.cur = "quote" THEN Refuse
  ELSE Consume(1, [Flush(s) EXCEPT !.state = "code"])

(* What quoted refuses: a backslash or the same quote again in backticks,  *)
(* and the end of a version comment, escaped or not.                       *)
RefusedInQuote ==
  \/ s.state = "bq" /\ (At(1) = "bs" \/ (At(1) = "bq" /\ At(2) = "bq"))
  \/ CommentEndsAt(1)
  \/ At(1) = "bs" /\ CommentEndsAt(2)

(* quoted, and skipQuoted for the bytes that mean nothing in a quote. *)
Quoted ==
  /\ InLine /\ s.state \in Quotes /\ At(1) /= "nl"
  /\ IF RefusedInQuote THEN Refuse
     ELSE CASE At(1) = "bs" -> Consume(IF Len(win) = 1 THEN 1 ELSE 2, s)
            [] At(1) = s.state /\ At(2) = s.state -> Consume(2, s)
            [] At(1) = s.state /\ At(2) /= s.state -> CloseQuote
            [] OTHER -> Consume(1, s)

InCode == InLine /\ s.state = "code" /\ At(1) /= "nl"

(* endWord, called by code before anything but a word byte. *)
WordRefused == s.word = "outfile" /\ At(1) \notin WordBytes

(* Fault: the first byte of the delimiter is enough. *)
IsDelimiter_FirstByte == At(1) = "semi"

IsDelimiter == \A i \in 1 .. s.delim : At(i) = "semi"

Ended == [s EXCEPT !.word = "none"]

(* What code refuses whatever the statement: a client command, a delimiter *)
(* or a comment inside a version comment, and :=.                          *)
RefusedInCode ==
  \/ WordRefused
  \/ IsDelimiter /\ s.cond
  \/ At(1) = "colon" /\ At(2) = "eq" /\ ~s.dead
  \/ At(1) = "bs" /\ At(2) /= "dash"
  \/ s.cond /\ (At(1) = "hash" \/ DashComment(1) \/ (At(1) = "slash" /\ At(2) = "star"))

CodeRefuses == InCode /\ RefusedInCode /\ Refuse

Delimiter ==
  /\ InCode /\ ~RefusedInCode /\ IsDelimiter
  /\ Consume(s.delim, EndStatement(Ended))

OpenQuote ==
  /\ InCode /\ ~RefusedInCode /\ At(1) \in Quotes
  /\ Consume(1, IF s.dead THEN [Flush(Ended) EXCEPT !.state = At(1)]
                ELSE [Flush(Ended) EXCEPT !.state = At(1), !.started = TRUE, !.cur = "quote"])

(* The one backslash outside quotes: MariaDB's \-. *)
SwitchOffCommands ==
  /\ InCode /\ ~RefusedInCode /\ At(1) = "bs"
  /\ Consume(2, Ended)

(* lineComment, up to the newline that ends the line. *)
OpenLineComment ==
  /\ InCode /\ ~RefusedInCode /\ (At(1) = "hash" \/ DashComment(1))
  /\ Consume(IF At(1) = "hash" THEN 1 ELSE 2, [Flush(Ended) EXCEPT !.at = "lc"])

InLineComment ==
  /\ Ready /\ s.at = "lc" /\ win /= <<>>
  /\ Consume(1, [s EXCEPT !.at = IF At(1) = "nl" THEN "bol" ELSE "lc"])

OpenComment ==
  /\ InCode /\ ~RefusedInCode /\ At(1) = "slash" /\ At(2) = "star"
  /\ Consume(2, [Flush(Ended) EXCEPT !.at = "open"])

(* openComment: which comment it is. *)
KindOfComment ==
  /\ Ready /\ s.at = "open" /\ win /= <<>>
  /\ CASE At(1) = "bang" -> Consume(1, [s EXCEPT !.at = "version"])
       [] At(1) = "M" /\ At(2) = "bang" -> Consume(2, [s EXCEPT !.at = "version"])
       [] At(1) = "plus" -> Refuse
       [] OTHER -> Consume(0, [s EXCEPT !.at = "rest", !.state = "comment"])

(* openComment: the version.  No server runs 999999. *)
VersionOfComment ==
  /\ Ready /\ s.at = "version" /\ win /= <<>>
  /\ LET dead == At(1) = "nines"
         n == IF At(1) \in {"ver", "nines"} THEN 1 ELSE 0
     IN Consume(n, [s EXCEPT !.at = "rest", !.cond = TRUE, !.dead = dead,
                             !.started = @ \/ ~dead])

(* Fault: dead outlives the comment. *)
CloseVersionComment_KeepsDead ==
  /\ InCode /\ ~RefusedInCode /\ CommentEndsAt(1)
  /\ Consume(2, [Flush(Ended) EXCEPT !.cond = FALSE])

CloseVersionComment ==
  /\ InCode /\ ~RefusedInCode /\ CommentEndsAt(1)
  /\ Consume(2, [Flush(Ended) EXCEPT !.cond = FALSE, !.dead = FALSE])

(* codeByte of any other byte. *)
Plain ==
  At(1) \notin Quotes \cup {"bs", "hash"} /\ ~IsDelimiter /\ ~DashComment(1)
  /\ ~(At(1) = "slash" /\ At(2) = "star") /\ ~CommentEndsAt(1)

Word ==
  /\ InCode /\ Plain /\ At(1) \in WordBytes
  /\ LET word == IF s.word = "none" /\ At(1) = "outfile" THEN "outfile" ELSE "other"
         t == IF s.cur = "quote" THEN Flush(s) ELSE s
     IN Consume(1, IF s.dead THEN [s EXCEPT !.word = word]
                   ELSE [t EXCEPT !.word = word, !.cur = "word", !.started = TRUE])

CodeSpace ==
  /\ InCode /\ ~RefusedInCode /\ Plain /\ At(1) = "sp"
  /\ Consume(1, IF s.dead THEN Ended ELSE Flush(Ended))

Punctuation ==
  /\ InCode /\ ~RefusedInCode /\ Plain /\ At(1) \notin WordBytes \cup {"sp"}
  /\ IF ~s.dead /\ ~StartsWithWord(s) THEN Refuse
     ELSE Consume(1, IF s.dead THEN Ended
                     ELSE [Flush(Ended) EXCEPT !.first = FALSE, !.started = TRUE])
----------------------------------------------------------------------------
(* Fault: a quote left open is waited for. *)
Finish_ClosedQuotes ==
  /\ Ready /\ win = <<>> /\ s.state \notin Quotes
  /\ verdict' = IF s.word = "outfile" \/ (s.at = "delimiter" /\ ~CanSetDelimiter)
                THEN "refused" ELSE "accepted"
  /\ UNCHANGED <<win, eof, s, readers>>

(* The end of the dump: endWord, and setDelimiter for an unfinished line. *)
Finish ==
  /\ Ready /\ win = <<>>
  /\ verdict' = IF s.word = "outfile" \/ (s.at = "delimiter" /\ ~CanSetDelimiter)
                THEN "refused" ELSE "accepted"
  /\ UNCHANGED <<win, eof, s, readers>>

Scan ==
  \/ DropLine \/ LeaveBol \/ Indent \/ LineWord \/ SkipLine \/ UseLine \/ DelimiterLine
  \/ EndLine \/ InComment \/ Quoted
  \/ CodeRefuses \/ Delimiter \/ OpenQuote \/ SwitchOffCommands \/ OpenLineComment
  \/ InLineComment \/ OpenComment \/ KindOfComment \/ VersionOfComment
  \/ CloseVersionComment \/ Word \/ CodeSpace \/ Punctuation \/ Finish

Next == Arrives \/ Scan

Spec == Init /\ [][Next]_vars /\ WF_vars(Scan)
----------------------------------------------------------------------------
(* Every variable has its type, and the scanner is in a state of its code. *)
TypeOK ==
  /\ win \in Seq(Bytes) /\ (Len(win) <= 3 \/ Len(win) <= MaxDelimiter)
  /\ eof \in BOOLEAN
  /\ s \in Scanner
  /\ s.dead => s.cond
  /\ verdict \in {"reading", "refused", "accepted"}
  /\ readers \in [Readers -> ReaderStates]

(* Between two tokens of a line, where the scanner's state is a claim      *)
(* about what it read.                                                     *)
Settled == verdict /= "refused" /\ s.at \in {"bol", "indent", "rest"}

(* Nobody disagrees with the scanner on where quotes, comments and version *)
(* comments begin and end: a server that skips a version comment skips     *)
(* just what the scanner takes for its content (scanDump, "A server older  *)
(* than the comment's version skips it without reading quotes").           *)
ReadersAgree ==
  Settled => \A k \in Readers :
    LET r == readers[k]
    IN \/ r.pend \in {"opened", "openedM", "version"}
       \/ r.in = s.state /\ r.cond = s.cond
       \/ r.in = "ml" /\ s.state = "comment"
       \/ r.in = "ml" /\ s.cond /\ s.state /= "comment"

(* The client sends the statements the scanner checked: both split the     *)
(* dump at the same delimiters, also when DELIMITER changes them.          *)
StatementsSplitTogether ==
  Settled => \A k \in Readers :
    readers[k].ends = s.ends /\ readers[k].delim = s.delim

(* Nothing the scanner passes is a client command, a backslash outside     *)
(* quotes or a command word at the start of a line.                        *)
NoClientCommand ==
  verdict /= "refused" => \A k \in Readers : readers[k].in /= "command"

(* No server reads OUTFILE or := outside quotes in what the scanner        *)
(* passed, whatever stands around them, not even when the dump ends in the *)
(* middle of that word.                                                    *)
NoFileWord ==
  /\ Settled => \A k \in Readers : readers[k].in \notin {"file", "assign"}
  /\ verdict = "accepted" =>
       \A k \in Readers : readers[k].in = "code" => readers[k].pend /= "outfile"

(* The scanner reaches a verdict on every dump that ends. *)
ScanEnds == eof ~> verdict /= "reading"
=============================================================================
