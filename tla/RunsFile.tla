------------------------------- MODULE RunsFile -------------------------------
(***************************************************************************)
(* runs.jsonl (runs.py): processes that end append one row each, and a     *)
(* reader takes the file apart.                                            *)
(*                                                                         *)
(* The file is the sequence of the pieces written to it.  A row goes out   *)
(* in one os.write, modelled as its head, then its tail with the newline:  *)
(* nothing here rests on the kernel's own append lock.  A kill between the *)
(* two, or a write that comes back short (a full disk), leaves the head    *)
(* alone, which may be the whole JSON object without its newline.          *)
(***************************************************************************)
EXTENDS Integers, Sequences, FiniteSets

CONSTANTS
    Writers,  \* the processes; each appends one row, named by its writer
    NoWriter, \* the lock is free
    MaxShort, \* bound: writes cut short by a full disk
    MaxKills  \* bound: processes killed

ASSUME RunsFileAssumption ==
    NoWriter \notin Writers /\ MaxShort \in Nat /\ MaxKills \in Nat

VARIABLES
    style,   \* [writer -> what its row is to this reader]
    pc,      \* [writer -> where append_row stands]
    lock,    \* the writer that holds flock(LOCK_EX), or NoWriter
    file,    \* the pieces, in file order
    answer,  \* [writer -> what append_row returned; "none" before]
    cut      \* history: the writers whose row was cut short

vars == <<style, pc, lock, file, answer, cut>>

\* "split": a string of the row holds U+2028, U+2029 or U+0085, which
\* json.dumps(ensure_ascii=False) writes as it is.  "newer": a row_version
\* this reader does not know.
Styles == {"plain", "split", "newer"}
Pieces == [row : Writers, piece : {"stub", "object", "tail"}]

TypeOK ==
    /\ style \in [Writers -> Styles]
    /\ pc \in [Writers -> {"new", "opened", "locked", "writing", "written", "end"}]
    /\ lock \in Writers \cup {NoWriter}
    /\ \A w \in Writers :
           (lock = w) <=> (pc[w] \in {"locked", "writing", "written"})
    /\ file \in Seq(Pieces)
    /\ answer \in [Writers -> {"none", "true", "false", "killed"}]
    /\ cut \subseteq Writers

Init ==
    /\ style \in [Writers -> Styles]
    /\ pc = [w \in Writers |-> "new"]
    /\ lock = NoWriter
    /\ file = <<>>
    /\ answer = [w \in Writers |-> "none"]
    /\ cut = {}

-----------------------------------------------------------------------------
(* append_row.                                                             *)

Goto(w, from, to) == pc[w] = from /\ pc' = [pc EXCEPT ![w] = to]
Written(w, piece) == Append(file, [row |-> w, piece |-> piece])

\* mkdir, os.open: one of them may fail.
Open(w) ==
    /\ \/ Goto(w, "new", "opened") /\ UNCHANGED answer
       \/ Goto(w, "new", "end") /\ answer' = [answer EXCEPT ![w] = "false"]
    /\ UNCHANGED <<style, lock, file, cut>>

\* flock(LOCK_EX).  Mistake: LOCK_SH, which two writers hold together.
LockFreeMutant == lock \in Writers \cup {NoWriter}
LockFree == lock = NoWriter

Lock(w) ==
    /\ Goto(w, "opened", "locked")
    /\ LockFree
    /\ lock' = w
    /\ UNCHANGED <<style, file, answer, cut>>

BeginWrite(w) ==
    /\ Goto(w, "locked", "writing")
    /\ \E piece \in {"stub", "object"} : file' = Written(w, piece)
    /\ UNCHANGED <<style, lock, answer, cut>>

EndWrite(w) ==
    /\ Goto(w, "writing", "written")
    /\ file' = Written(w, "tail")
    /\ UNCHANGED <<style, lock, answer, cut>>

\* os.write returns less than it was given, and nothing looks.
ShortWrite(w) ==
    /\ Cardinality({v \in cut : answer[v] # "killed"}) < MaxShort
    /\ Goto(w, "writing", "written")
    /\ cut' = cut \cup {w}
    /\ UNCHANGED <<style, lock, file, answer>>

\* os.write raises before a byte is out: the two finally clauses, then False.
\* Mistake: the finally clauses are left out.
ReleasedMutant == lock
Released == NoWriter

WriteFails(w) ==
    /\ Goto(w, "locked", "end")
    /\ lock' = Released
    /\ answer' = [answer EXCEPT ![w] = "false"]
    /\ UNCHANGED <<style, file, cut>>

\* LOCK_UN, os.close, return True.
Return(w) ==
    /\ Goto(w, "written", "end")
    /\ lock' = NoWriter
    /\ answer' = [answer EXCEPT ![w] = "true"]
    /\ UNCHANGED <<style, file, cut>>

Append_row(w) ==
    \/ Open(w) \/ Lock(w) \/ BeginWrite(w) \/ EndWrite(w) \/ ShortWrite(w)
    \/ WriteFails(w) \/ Return(w)

\* The process is killed; the kernel closes its descriptor and its lock.
Kill(w) ==
    /\ Cardinality({v \in Writers : answer[v] = "killed"}) < MaxKills
    /\ pc[w] # "end"
    /\ pc' = [pc EXCEPT ![w] = "end"]
    /\ lock' = IF lock = w THEN NoWriter ELSE lock
    /\ answer' = [answer EXCEPT ![w] = "killed"]
    /\ cut' = IF pc[w] = "writing" THEN cut \cup {w} ELSE cut
    /\ UNCHANGED <<style, file>>

Next == \E w \in Writers : Append_row(w) \/ Kill(w)

Spec == Init /\ [][Next]_vars

\* The scheduler runs every process, and flock serves whoever waits.
FairSpec == Spec /\ \A w \in Writers : WF_vars(Append_row(w))

-----------------------------------------------------------------------------
(* read_rows.                                                              *)

Ends == {i \in 1..Len(file) : file[i].piece = "tail"}

\* text.splitlines(): where a line starts, and the pieces it is made of.
Starts == {i \in 1..Len(file) : i = 1 \/ i - 1 \in Ends}
LineAt(i) ==
    LET last == {j \in Ends \cup {Len(file)} :
                     j >= i /\ ~ \E k \in Ends : i <= k /\ k < j}
    IN SubSeq(file, i, CHOOSE j \in last : TRUE)

\* json.loads accepts the line: one object and nothing else, which a line
\* separator of the text has not cut in two.
Parses(line) ==
    /\ style[line[1].row] # "split"
    /\ \/ Len(line) = 2 /\ line[2] = [row |-> line[1].row, piece |-> "tail"]
       \/ Len(line) = 1 /\ line[1].piece = "object"

IsRow(line) == Parses(line) /\ style[line[1].row] # "newer"

\* The rows of the file, and the lines that are left out and counted (the two
\* halves of a split row are one line here).
Rows == {LineAt(i)[1].row : i \in {j \in Starts : IsRow(LineAt(j))}}
LinesLeftOut == {i \in Starts : ~IsRow(LineAt(i))}
\* Mistake: only what does not parse is counted.
SkippedMutant == Cardinality({i \in Starts : ~Parses(LineAt(i))})
Skipped == Cardinality(LinesLeftOut)

\* What read_rows may return now.  The file only grows, so reading it to its end
\* reads it as it is at one moment; an OSError other than FileNotFoundError is
\* logged and told like an empty file: no rows, and none left out.
Readings == {[failed |-> FALSE, rows |-> Rows, skipped |-> Skipped],
             [failed |-> TRUE, rows |-> {}, skipped |-> 0]}

-----------------------------------------------------------------------------
(* Properties.                                                             *)

Acknowledged == {w \in Writers : answer[w] = "true"}

\* The row whose piece comes right before w's first one.
CutBefore(w) ==
    \E i \in 2..Len(file) :
        file[i].row = w /\ file[i].piece # "tail" /\ file[i-1].row \in cut

\* "Two runs ending at once never interleave their lines": whoever else writes,
\* fails or is killed, a row that was written out is read whenever the file can
\* be, unless the row right before it was cut; one with a line separator in a
\* string, or of a version this reader does not know, is counted as left out.
WrittenRowIsRead ==
    \A r \in Readings, w \in Acknowledged \ cut :
        ~r.failed /\ ~CutBefore(w) =>
            IF style[w] = "plain" THEN w \in r.rows
            ELSE \E i \in LinesLeftOut : LineAt(i)[1].row = w

\* A reader that could read the file and is told that nothing was left out has
\* every row that append_row acknowledged, cut ones too: so does any reader that
\* is given a row and told so.  One that is given none may have met a file it
\* could not read, and is not told.
LossIsCounted ==
    \A r \in Readings :
        ~r.failed /\ r.skipped = 0 => Acknowledged \subseteq r.rows

\* Every append comes back or its process is killed: no failed or killed
\* writer leaves the others waiting on the lock.
AppendReturns == \A w \in Writers : <>(pc[w] = "end")
=============================================================================
