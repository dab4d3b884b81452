------------------------------- MODULE LogProofs -------------------------------
(***************************************************************************)
(* Theorems about what the package writes line by line and reads back:     *)
(* the rows of runs.jsonl (RunsFile), for any number of writers, short     *)
(* writes and kills; the log of a hook run (HookRun), for any stages; and  *)
(* the logs of a component and the shared one (ErrorLog), for any number   *)
(* of processes and days.                                                  *)
(*                                                                         *)
(* For RunsFile, the first part is how the file is made, which the lock    *)
(* decides; the second, what read_rows makes of such a file.  The third    *)
(* part is HookRun, the last one ErrorLog.                                 *)
(***************************************************************************)
EXTENDS RunsFile, HookRun, ErrorLog, FiniteSetTheorems, WellFoundedInduction, TLAPS

USE RunsFileAssumption

IsHead(i) == file[i].piece # "tail"

\* A tail lies right behind the head of its row.
TailsFollow ==
    \A i \in 1..Len(file) :
        ~IsHead(i) => i > 1 /\ IsHead(i - 1) /\ file[i - 1].row = file[i].row

\* A row has one head, and none before it is written.
OneHead ==
    /\ \A i, j \in 1..Len(file) : file[i].row = file[j].row /\ IsHead(i) /\ IsHead(j) => i = j
    /\ \A w \in Writers :
           pc[w] \in {"new", "opened", "locked"} => \A i \in 1..Len(file) : file[i].row # w

\* A head is followed by its tail, unless it was cut or is being written.
HeadsAreWhole ==
    \A i \in 1..Len(file) :
        IsHead(i) => \/ file[i].row \in cut
                     \/ i < Len(file) /\ file[i + 1] = [row |-> file[i].row, piece |-> "tail"]
                     \/ i = Len(file) /\ pc[file[i].row] = "writing"

\* A row is in the file from its first piece on.
RowsStay ==
    \A w \in Writers :
        /\ answer[w] = "true" => pc[w] = "end"
        /\ pc[w] \in {"writing", "written"} \/ answer[w] = "true" =>
               \E i \in 1..Len(file) : file[i].row = w /\ IsHead(i)
        /\ pc[w] = "writing" =>
               file[Len(file)].row = w /\ IsHead(Len(file)) /\ file # <<>>

FileInv == TailsFollow /\ OneHead /\ HeadsAreWhole /\ RowsStay
IInv == TypeOK /\ FileInv

-----------------------------------------------------------------------------
(* How the file is made.                                                   *)

LEMMA InitEstablishes == Init => IInv
  BY DEF Init, IInv, TypeOK, FileInv, TailsFollow, OneHead, HeadsAreWhole, RowsStay, Styles

LEMMA FileIs ==
    ASSUME TypeOK
    PROVE  /\ Len(file) \in Nat /\ DOMAIN file = 1..Len(file)
           /\ \A i \in 1..Len(file) :
                  /\ file[i] \in Pieces /\ file[i].row \in Writers
                  /\ ~IsHead(i) => file[i] = [row |-> file[i].row, piece |-> "tail"]
  <1>1. file \in Seq(Pieces)
    BY DEF TypeOK
  <1>2. \A x \in Pieces : /\ x.row \in Writers
                          /\ x.piece = "tail" => x = [row |-> x.row, piece |-> "tail"]
    BY DEF Pieces
  <1> QED
    BY <1>1, <1>2 DEF IsHead

\* Only the writer that holds the lock is in the file.
LEMMA OneInside ==
    ASSUME TypeOK, NEW v \in Writers, NEW w \in Writers,
           pc[v] \in {"locked", "writing", "written"},
           pc[w] \in {"locked", "writing", "written"}
    PROVE  v = w
  BY DEF TypeOK

\* A step that writes nothing leaves the file as it must be, when it leaves no
\* head behind that is neither cut nor being written.
LEMMA SilentStep ==
    ASSUME IInv, NEW w \in Writers, NEW to \in {"opened", "locked", "written", "end"},
           pc' = [pc EXCEPT ![w] = to], UNCHANGED file,
           cut' = cut \/ cut' = cut \cup {w},
           pc[w] = "writing" => w \in cut',
           to \in {"opened", "locked"} => pc[w] \in {"new", "opened"},
           to = "written" => pc[w] = "writing",
           \A v \in Writers :
               answer'[v] = "true" => \/ answer[v] = "true" /\ pc[v] = pc'[v]
                                      \/ v = w /\ pc[w] = "written" /\ to = "end"
    PROVE  FileInv'
  <1> USE DEF IInv, FileInv
  <1>1. pc \in [Writers -> {"new", "opened", "locked", "writing", "written", "end"}]
    BY DEF TypeOK
  <1>2. \A v \in Writers : pc'[v] = IF v = w THEN to ELSE pc[v]
    BY <1>1
  <1>3. TailsFollow'
    BY DEF TailsFollow, IsHead
  <1>4. OneHead'
    BY <1>2, SMTT(30) DEF OneHead, IsHead
  <1>5. HeadsAreWhole'
    BY <1>2, FileIs, ZenonT(60) DEF HeadsAreWhole, IsHead
  <1>6. RowsStay'
    BY <1>2 DEF RowsStay, IsHead
  <1> QED
    BY <1>3, <1>4, <1>5, <1>6

LEMMA BeginWriteStep == ASSUME IInv, NEW w \in Writers, BeginWrite(w) PROVE FileInv'
  <1> USE DEF IInv, FileInv
  <1>1. PICK x \in Pieces : x.row = w /\ x.piece # "tail" /\ file' = Append(file, x)
    BY DEF BeginWrite, Written, Pieces
  <1>2. pc[w] = "locked" /\ pc' = [pc EXCEPT ![w] = "writing"]
        /\ UNCHANGED <<answer, cut>>
    BY DEF BeginWrite, Goto
  <1>3. \A v \in Writers : pc'[v] = IF v = w THEN "writing" ELSE pc[v]
    BY <1>2 DEF TypeOK
  <1> DEFINE n == Len(file)
  <1>4. /\ n \in Nat /\ Len(file') = n + 1 /\ file'[n + 1] = x
        /\ \A i \in 1..n : file'[i] = file[i]
    BY <1>1 DEF TypeOK
  <1> HIDE DEF n
  <1>5. \A i \in 1..(n + 1) : i \in 1..n \/ i = n + 1
    BY <1>4
  <1>6. \A v \in Writers : pc[v] # "writing" /\ pc[v] # "written"
    BY <1>2, OneInside
  <1>7. TailsFollow'
    <2> SUFFICES ASSUME NEW i \in 1..Len(file'), ~IsHead(i)'
                 PROVE  i > 1 /\ IsHead(i - 1)' /\ file'[i - 1].row = file'[i].row
      BY DEF TailsFollow
    <2>1. i \in 1..n
      BY <1>1, <1>4, <1>5 DEF IsHead
    <2>2. i > 1 /\ IsHead(i - 1) /\ file[i - 1].row = file[i].row
      BY <1>4, <2>1 DEF TailsFollow, IsHead, n
    <2>3. i - 1 \in 1..n
      BY <1>4, <2>1, <2>2
    <2> QED
      BY <1>4, <2>1, <2>2, <2>3 DEF IsHead
  <1>8. OneHead'
    <2>1. \A i \in 1..n : file'[i].row # w
      BY <1>2, <1>4 DEF OneHead, n
    <2>2. ASSUME NEW i \in 1..(n + 1), NEW j \in 1..(n + 1),
                 file'[i].row = file'[j].row, IsHead(i)', IsHead(j)'
          PROVE  i = j
      <3>1. CASE i \in 1..n /\ j \in 1..n
        BY <1>4, <2>2, <3>1 DEF OneHead, IsHead, n
      <3>2. CASE i = n + 1 \/ j = n + 1
        BY <1>1, <1>4, <1>5, <2>1, <2>2, <3>2
      <3> QED
        BY <1>5, <3>1, <3>2
    <2>3. ASSUME NEW v \in Writers, pc'[v] \in {"new", "opened", "locked"},
                 NEW i \in 1..(n + 1)
          PROVE  file'[i].row # v
      <3>1. v # w /\ pc[v] \in {"new", "opened", "locked"}
        BY <1>3, <2>3
      <3>2. CASE i \in 1..n
        BY <1>4, <3>1, <3>2 DEF OneHead, n
      <3> QED
        BY <1>1, <1>4, <1>5, <3>1, <3>2
    <2> QED
      BY <1>4, <2>2, <2>3 DEF OneHead
  <1>9. HeadsAreWhole'
    <2> SUFFICES ASSUME NEW i \in 1..(n + 1), IsHead(i)'
                 PROVE  \/ file'[i].row \in cut'
                        \/ i < n + 1 /\ file'[i + 1] = [row |-> file'[i].row, piece |-> "tail"]
                        \/ i = n + 1 /\ pc'[file'[i].row] = "writing"
      BY <1>4 DEF HeadsAreWhole
    <2>1. CASE i = n + 1
      BY <1>1, <1>3, <1>4, <2>1
    <2>2. CASE i \in 1..n
      <3>1. IsHead(i) /\ file'[i] = file[i] /\ file[i].row \in Writers
        BY <1>4, <2>2, FileIs DEF IsHead, n
      <3>2. \/ file[i].row \in cut
            \/ i < n /\ file[i + 1] = [row |-> file[i].row, piece |-> "tail"]
        BY <1>6, <2>2, <3>1 DEF HeadsAreWhole, n
      <3>3. i < n => i + 1 \in 1..n /\ i < n + 1
        BY <1>4, <2>2
      <3> QED
        BY <1>2, <1>4, <3>1, <3>2, <3>3
    <2> QED
      BY <1>5, <2>1, <2>2
  <1>10. RowsStay'
    <2> SUFFICES ASSUME NEW v \in Writers
                 PROVE  /\ answer'[v] = "true" => pc'[v] = "end"
                        /\ pc'[v] \in {"writing", "written"} \/ answer'[v] = "true" =>
                               \E i \in 1..(n + 1) : file'[i].row = v /\ IsHead(i)'
                        /\ pc'[v] = "writing" =>
                               file'[n + 1].row = v /\ file'[n + 1].piece # "tail"
                               /\ file' # <<>>
      BY <1>4 DEF RowsStay, IsHead
    <2>1. CASE v = w
      <3>1. answer[v] # "true"
        BY <1>2, <2>1 DEF RowsStay
      <3>2. n + 1 \in 1..(n + 1) /\ file'[n + 1].row = v /\ file'[n + 1].piece # "tail"
                               /\ file' # <<>>
        BY <1>1, <1>4, <2>1
      <3>3. \E i \in 1..(n + 1) : file'[i].row = v /\ IsHead(i)'
        BY <3>2 DEF IsHead
      <3> QED
        BY <1>2, <3>1, <3>2, <3>3
    <2>2. CASE v # w
      <3>1. pc'[v] = pc[v] /\ answer'[v] = answer[v] /\ pc[v] # "writing" /\ pc[v] # "written"
        BY <1>2, <1>3, <1>6, <2>2
      <3>2. answer[v] = "true" =>
                pc[v] = "end" /\ \E i \in 1..n : file[i].row = v /\ IsHead(i)
        BY DEF RowsStay, n
      <3>3. \A i \in 1..n : i \in 1..(n + 1) /\ (IsHead(i) => IsHead(i)')
        BY <1>4 DEF IsHead
      <3> QED
        BY <1>4, <3>1, <3>2, <3>3
    <2> QED
      BY <2>1, <2>2
  <1> QED
    BY <1>7, <1>8, <1>9, <1>10

LEMMA EndWriteStep == ASSUME IInv, NEW w \in Writers, EndWrite(w) PROVE FileInv'
  <1> USE DEF IInv, FileInv
  <1> DEFINE n == Len(file)
             x == [row |-> w, piece |-> "tail"]
  <1>1. x \in Pieces /\ x.row = w /\ x.piece = "tail" /\ file' = Append(file, x)
    BY DEF EndWrite, Written, Pieces
  <1>2. pc[w] = "writing" /\ pc' = [pc EXCEPT ![w] = "written"]
        /\ UNCHANGED <<answer, cut>>
    BY DEF EndWrite, Goto
  <1>3. \A v \in Writers : pc'[v] = IF v = w THEN "written" ELSE pc[v]
    BY <1>2 DEF TypeOK
  <1> HIDE DEF x
  <1>4. /\ n \in Nat /\ Len(file') = n + 1 /\ file'[n + 1] = x
        /\ \A i \in 1..n : file'[i] = file[i]
    BY <1>1 DEF TypeOK
  <1>5. n >= 1 /\ file[n].row = w /\ IsHead(n)
    BY <1>2 DEF RowsStay, TypeOK
  <1> HIDE DEF n
  <1>6. \A i \in 1..(n + 1) : i \in 1..n \/ i = n + 1
    BY <1>4
  <1>7. \A v \in Writers \ {w} : pc[v] # "writing"
    BY <1>2, OneInside
  <1>8. TailsFollow'
    <2> SUFFICES ASSUME NEW i \in 1..(n + 1), ~IsHead(i)'
                 PROVE  i > 1 /\ IsHead(i - 1)' /\ file'[i - 1].row = file'[i].row
      BY <1>4 DEF TailsFollow
    <2>1. CASE i \in 1..n
      <3>1. i > 1 /\ IsHead(i - 1) /\ file[i - 1].row = file[i].row
        BY <1>4, <2>1 DEF TailsFollow, IsHead, n
      <3>2. i - 1 \in 1..n
        BY <1>4, <2>1, <3>1
      <3> QED
        BY <1>4, <2>1, <3>1, <3>2 DEF IsHead
    <2>2. CASE i = n + 1
      <3>1. i > 1 /\ i - 1 = n /\ n \in 1..n
        BY <1>4, <1>5, <2>2
      <3> QED
        BY <1>1, <1>4, <1>5, <2>2, <3>1 DEF IsHead
    <2> QED
      BY <1>6, <2>1, <2>2
  <1>9. OneHead'
    <2>1. ASSUME NEW i \in 1..(n + 1), IsHead(i)' PROVE i \in 1..n /\ IsHead(i)
      BY <1>1, <1>4, <1>6, <2>1 DEF IsHead
    <2>2. ASSUME NEW i \in 1..(n + 1), NEW j \in 1..(n + 1),
                 file'[i].row = file'[j].row, IsHead(i)', IsHead(j)'
          PROVE  i = j
      BY <1>4, <2>1, <2>2 DEF OneHead, n
    <2>3. ASSUME NEW v \in Writers, pc'[v] \in {"new", "opened", "locked"},
                 NEW i \in 1..(n + 1)
          PROVE  file'[i].row # v
      <3>1. v # w /\ pc[v] \in {"new", "opened", "locked"}
        BY <1>3, <2>3
      <3>2. CASE i \in 1..n
        BY <1>4, <3>1, <3>2 DEF OneHead, n
      <3> QED
        BY <1>1, <1>4, <1>6, <3>1, <3>2
    <2> QED
      BY <1>4, <2>2, <2>3 DEF OneHead
  <1>10. HeadsAreWhole'
    <2> SUFFICES ASSUME NEW i \in 1..(n + 1), IsHead(i)'
                 PROVE  \/ file'[i].row \in cut'
                        \/ i < n + 1 /\ file'[i + 1] = [row |-> file'[i].row, piece |-> "tail"]
      BY <1>4 DEF HeadsAreWhole
    <2>1. i \in 1..n /\ IsHead(i) /\ file'[i] = file[i]
      BY <1>1, <1>4, <1>6 DEF IsHead
    <2>2. CASE i = n
      BY <1>4, <1>5, <2>1, <2>2 DEF x
    <2>3. CASE i # n
      <3>1. i < n /\ i + 1 \in 1..n /\ i < n + 1
        BY <1>4, <2>1, <2>3
      <3> QED
        BY <1>2, <1>4, <2>1, <2>3, <3>1 DEF HeadsAreWhole, n
    <2> QED
      BY <2>2, <2>3
  <1>11. RowsStay'
    <2> SUFFICES ASSUME NEW v \in Writers
                 PROVE  /\ answer'[v] = "true" => pc'[v] = "end"
                        /\ pc'[v] # "writing"
                        /\ pc'[v] \in {"writing", "written"} \/ answer'[v] = "true" =>
                               \E i \in 1..(n + 1) : file'[i].row = v /\ IsHead(i)'
      BY <1>4 DEF RowsStay
    <2>1. \A i \in 1..n : i \in 1..(n + 1) /\ (IsHead(i) => IsHead(i)')
      BY <1>4 DEF IsHead
    <2>2. pc'[v] # "writing" /\ (pc'[v] = "written" => pc[v] \in {"writing", "written"})
      BY <1>2, <1>3, <1>7
    <2>3. answer'[v] = answer[v] /\ (answer[v] = "true" => pc[v] = "end" /\ v # w)
      BY <1>2 DEF RowsStay
    <2>4. pc[v] \in {"writing", "written"} \/ answer[v] = "true" =>
              \E i \in 1..n : file[i].row = v /\ IsHead(i)
      BY DEF RowsStay, n
    <2> QED
      BY <1>3, <1>4, <2>1, <2>2, <2>3, <2>4
  <1> QED
    BY <1>8, <1>9, <1>10, <1>11

\* The lock keeps every other writer out.
LEMMA TypesStep == ASSUME TypeOK, [Next]_vars PROVE TypeOK'
  <1> USE DEF TypeOK
  <1>1. ASSUME NEW w \in Writers, Open(w) PROVE TypeOK'
    BY <1>1 DEF Open, Goto
  <1>2. ASSUME NEW w \in Writers, Lock(w) PROVE TypeOK'
    BY <1>2 DEF Lock, Goto, LockFree
  <1>3. ASSUME NEW w \in Writers, BeginWrite(w) PROVE TypeOK'
    <2>1. file' \in Seq(Pieces)
      BY <1>3 DEF BeginWrite, Written, Pieces
    <2> QED
      BY <1>3, <2>1 DEF BeginWrite, Goto
  <1>4. ASSUME NEW w \in Writers, EndWrite(w) PROVE TypeOK'
    <2>1. file' \in Seq(Pieces)
      BY <1>4 DEF EndWrite, Written, Pieces
    <2> QED
      BY <1>4, <2>1 DEF EndWrite, Goto
  <1>5. ASSUME NEW w \in Writers, ShortWrite(w) PROVE TypeOK'
    BY <1>5 DEF ShortWrite, Goto
  <1>6. ASSUME NEW w \in Writers, WriteFails(w) PROVE TypeOK'
    BY <1>6 DEF WriteFails, Goto, Released
  <1>7. ASSUME NEW w \in Writers, Return(w) PROVE TypeOK'
    BY <1>7 DEF Return, Goto
  <1>8. ASSUME NEW w \in Writers, Kill(w) PROVE TypeOK'
    BY <1>8 DEF Kill
  <1>9. CASE UNCHANGED vars
    BY <1>9 DEF vars
  <1> QED
    BY <1>1, <1>2, <1>3, <1>4, <1>5, <1>6, <1>7, <1>8, <1>9 DEF Next, Append_row

LEMMA FileStep == ASSUME IInv, [Next]_vars PROVE FileInv'
  <1>1. pc \in [Writers -> {"new", "opened", "locked", "writing", "written", "end"}]
        /\ answer \in [Writers -> {"none", "true", "false", "killed"}]
    BY DEF IInv, TypeOK
  <1>2. ASSUME NEW w \in Writers, Open(w) PROVE FileInv'
    <2>1. PICK to \in {"opened", "end"} : pc' = [pc EXCEPT ![w] = to] /\ pc[w] = "new"
      BY <1>2 DEF Open, Goto
    <2>2. \A v \in Writers : answer'[v] = "true" => answer[v] = "true" /\ v # w
      BY <1>1, <1>2, <2>1 DEF Open, IInv, FileInv, RowsStay
    <2> QED
      BY <1>1, <1>2, <2>1, <2>2, SilentStep, ZenonT(60) DEF Open
  <1>3. ASSUME NEW w \in Writers, Lock(w) PROVE FileInv'
    <2>1. \A v \in Writers : answer[v] = "true" => v # w
      BY <1>3 DEF Lock, Goto, IInv, FileInv, RowsStay
    <2> QED
      BY <1>1, <1>3, <2>1, SilentStep DEF Lock, Goto
  <1>4. ASSUME NEW w \in Writers, ShortWrite(w) PROVE FileInv'
    <2>1. \A v \in Writers : answer[v] = "true" => v # w
      BY <1>4 DEF ShortWrite, Goto, IInv, FileInv, RowsStay
    <2> QED
      BY <1>1, <1>4, <2>1, SilentStep DEF ShortWrite, Goto
  <1>5. ASSUME NEW w \in Writers, WriteFails(w) PROVE FileInv'
    <2>1. \A v \in Writers : answer'[v] = "true" => answer[v] = "true" /\ v # w
      BY <1>1, <1>5 DEF WriteFails
    <2> QED
      BY <1>1, <1>5, <2>1, SilentStep DEF WriteFails, Goto
  <1>6. ASSUME NEW w \in Writers, Return(w) PROVE FileInv'
    <2>1. \A v \in Writers : answer'[v] = "true" => (answer[v] = "true" /\ v # w) \/ v = w
      BY <1>1, <1>6 DEF Return
    <2> QED
      BY <1>1, <1>6, <2>1, SilentStep DEF Return, Goto
  <1>7. ASSUME NEW w \in Writers, Kill(w) PROVE FileInv'
    <2>1. \A v \in Writers : answer'[v] = "true" => answer[v] = "true" /\ v # w
      BY <1>1, <1>7 DEF Kill
    <2> QED
      BY <1>1, <1>7, <2>1, SilentStep DEF Kill
  <1>8. CASE UNCHANGED vars
    BY <1>8 DEF vars, IInv, FileInv, TailsFollow, OneHead, HeadsAreWhole, RowsStay, IsHead
  <1> QED
    BY <1>2, <1>3, <1>4, <1>5, <1>6, <1>7, <1>8, BeginWriteStep, EndWriteStep
    DEF Next, Append_row

LEMMA Invariant == Spec => []IInv
  <1>1. ASSUME IInv, [Next]_vars PROVE IInv'
    BY <1>1, TypesStep, FileStep DEF IInv
  <1> QED
    BY <1>1, InitEstablishes, PTL DEF Spec

-----------------------------------------------------------------------------
(* What read_rows makes of it.                                             *)

\* A set of numbers has a least one.
LEMMA NatMin ==
    ASSUME NEW T, T \subseteq Nat, T # {}
    PROVE  \E x \in T : \A y \in T : x <= y
  <1>1. \E x \in T : \A y \in T : ~ (<<y, x>> \in OpToRel(<, Nat))
    BY NatLessThanWellFounded, WFMin, Zenon
  <1>2. PICK x \in T : \A y \in T : ~ (<<y, x>> \in OpToRel(<, Nat))
    BY <1>1
  <1>3. ASSUME NEW y \in T PROVE x <= y
    <2>1. x \in Nat /\ y \in Nat /\ <<y, x>> \in Nat \X Nat
      OBVIOUS
    <2>2. ~(y < x)
      BY <1>2, <2>1 DEF OpToRel
    <2> QED
      BY <2>1, <2>2
  <1> QED
    BY <1>3

\* The line that starts at i ends at j.
EndsAt(i, j) == /\ j \in Ends \cup {Len(file)} /\ j >= i
                /\ \A k \in Ends : ~(i <= k /\ k < j)

LEMMA LineIs ==
    ASSUME TypeOK, NEW i \in 1..Len(file), NEW j, EndsAt(i, j)
    PROVE  LineAt(i) = SubSeq(file, i, j) /\ j \in 1..Len(file)
  <1> DEFINE last == {l \in Ends \cup {Len(file)} :
                          l >= i /\ ~ \E k \in Ends : i <= k /\ k < l}
  <1>1. Len(file) \in Nat /\ Ends \subseteq 1..Len(file)
    BY FileIs DEF Ends
  <1>2. j \in last /\ j \in 1..Len(file)
    BY <1>1 DEF EndsAt
  <1>3. ASSUME NEW l \in last PROVE l = j
    BY <1>1, <1>2, <1>3 DEF EndsAt
  <1>4. last = {j}
    BY <1>2, <1>3
  <1>5. (CHOOSE l \in last : TRUE) = j
    BY <1>4
  <1> QED
    BY <1>2, <1>5, Zenon DEF LineAt

\* What json.loads accepts is one row, whole, that starts where the line does.
LEMMA RowIs ==
    ASSUME TypeOK, TailsFollow, NEW i \in 1..Len(file), NEW j, EndsAt(i, j),
           IsRow(LineAt(i))
    PROVE  /\ LineAt(i)[1] = file[i]
           /\ j = i \/ (j = i + 1 /\ ~IsHead(j))
  <1>1. LineAt(i) = SubSeq(file, i, j) /\ j \in 1..Len(file) /\ j >= i
    BY LineIs DEF EndsAt
  <1>2. /\ Len(SubSeq(file, i, j)) = (j - i) + 1
        /\ \A k \in 1..((j - i) + 1) : SubSeq(file, i, j)[k] = file[(i + k) - 1]
    BY <1>1, FileIs DEF TypeOK
  <1>3. SubSeq(file, i, j)[1] = file[i]
    BY <1>1, <1>2, FileIs
  <1>4. \/ Len(SubSeq(file, i, j)) = 1
        \/ Len(SubSeq(file, i, j)) = 2 /\ SubSeq(file, i, j)[2].piece = "tail"
    BY <1>1 DEF IsRow, Parses
  <1>5. CASE Len(SubSeq(file, i, j)) = 1
    BY <1>1, <1>2, <1>3, <1>5, FileIs
  <1>6. CASE Len(SubSeq(file, i, j)) = 2 /\ SubSeq(file, i, j)[2].piece = "tail"
    <2>1. j = i + 1 /\ SubSeq(file, i, j)[2] = file[j]
      BY <1>1, <1>2, <1>6, FileIs
    <2> QED
      BY <1>1, <1>3, <1>6, <2>1 DEF IsHead
  <1> QED
    BY <1>4, <1>5, <1>6

\* A head and its tail behind a tail, or at the start, are a line that is read,
\* or left out for what the row is.
LEMMA WholeRowIsRead ==
    ASSUME TypeOK, NEW i \in Starts, IsHead(i), i < Len(file),
           file[i + 1] = [row |-> file[i].row, piece |-> "tail"]
    PROVE  IF style[file[i].row] = "plain" THEN file[i].row \in Rows
           ELSE i \in LinesLeftOut /\ LineAt(i)[1].row = file[i].row
  <1>1. Len(file) \in Nat /\ i \in 1..Len(file) /\ i + 1 \in 1..Len(file)
    BY FileIs DEF Starts
  <1>2. EndsAt(i, i + 1)
    <2>1. i + 1 \in Ends /\ i \notin Ends
      BY <1>1 DEF Ends, IsHead
    <2>2. \A k \in Ends : i <= k /\ k < i + 1 => k = i
      BY <1>1 DEF Ends
    <2> QED
      BY <1>1, <2>1, <2>2 DEF EndsAt
  <1>3. LineAt(i) = SubSeq(file, i, i + 1)
    BY <1>1, <1>2, LineIs
  <1> DEFINE line == SubSeq(file, i, i + 1)
  <1>4. Len(line) = 2 /\ line[1] = file[i] /\ line[2] = file[i + 1]
    BY <1>1 DEF TypeOK
  <1> HIDE DEF line
  <1>5. /\ IsRow(line) <=> style[file[i].row] = "plain"
        /\ line[1].row = file[i].row
    <2>1. style[file[i].row] \in Styles
      BY <1>1, FileIs DEF TypeOK, Pieces
    <2> QED
      BY <1>4, <2>1 DEF IsRow, Parses, Styles
  <1>6. /\ IsRow(LineAt(i)) <=> style[file[i].row] = "plain"
        /\ LineAt(i)[1].row = file[i].row
    BY <1>3, <1>5 DEF line
  <1>7. CASE style[file[i].row] = "plain"
    <2>1. i \in {j \in Starts : IsRow(LineAt(j))}
      BY <1>6, <1>7
    <2> QED
      BY <1>6, <1>7, <2>1 DEF Rows
  <1>8. CASE style[file[i].row] # "plain"
    BY <1>6, <1>8 DEF LinesLeftOut
  <1> QED
    BY <1>7, <1>8

LEMMA WrittenRowsAreRead == IInv => WrittenRowIsRead
  <1> SUFFICES ASSUME IInv, NEW w \in Acknowledged \ cut, ~CutBefore(w)
               PROVE  IF style[w] = "plain" THEN w \in Rows
                      ELSE \E i \in LinesLeftOut : LineAt(i)[1].row = w
    BY DEF WrittenRowIsRead, Readings
  <1> USE DEF IInv, FileInv
  <1>1. w \in Writers /\ answer[w] = "true" /\ pc[w] = "end" /\ w \notin cut
    BY DEF Acknowledged, RowsStay
  <1>2. PICK i \in 1..Len(file) : file[i].row = w /\ IsHead(i)
    BY <1>1 DEF RowsStay
  <1>3. Len(file) \in Nat
    BY FileIs
  <1>4. i < Len(file) /\ file[i + 1] = [row |-> file[i].row, piece |-> "tail"]
    BY <1>1, <1>2 DEF HeadsAreWhole
  <1>5. i \in Starts
    <2>1. CASE i = 1
      BY <1>2, <2>1 DEF Starts
    <2>2. CASE i # 1
      <3>1. i \in 2..Len(file) /\ i - 1 \in 1..Len(file) /\ i - 1 < Len(file) /\ (i - 1) + 1 = i
        BY <1>2, <1>3, <2>2
      <3>2. file[i - 1].row \notin cut
        BY <1>2, <3>1 DEF CutBefore, IsHead
      <3>3. ~IsHead(i - 1)
        <4> SUFFICES ASSUME IsHead(i - 1) PROVE FALSE
          OBVIOUS
        <4>1. file[(i - 1) + 1] = [row |-> file[i - 1].row, piece |-> "tail"]
          BY <1>3, <3>1, <3>2 DEF HeadsAreWhole
        <4> QED
          BY <1>2, <3>1, <4>1 DEF IsHead
      <3> QED
        BY <1>2, <3>1, <3>3 DEF Starts, Ends, IsHead
    <2> QED
      BY <2>1, <2>2
  <1> QED
    BY <1>2, <1>4, <1>5, WholeRowIsRead

\* Every piece is in some line: one that starts at or before it, and ends at or
\* behind it.
LEMMA PieceIsInLine ==
    ASSUME TypeOK, NEW i \in 1..Len(file)
    PROVE  \E s \in Starts, e \in 1..Len(file) : s <= i /\ i <= e /\ EndsAt(s, e)
  <1> DEFINE n == Len(file)
             Behind == {e \in Ends \cup {n} : e >= i}
             Back == {n - s : s \in {t \in Starts : t <= i}}
  <1>1. n \in Nat /\ Ends \subseteq 1..n /\ Starts \subseteq 1..n /\ 1 \in Starts
        /\ n \in 1..n /\ \A t \in 2..n : t - 1 \in Ends => t \in Starts
    BY FileIs DEF Ends, Starts
  <1>2. Behind \subseteq Nat /\ n \in Behind
    <2>1. n \in Nat /\ i \in 1..n /\ n >= i
      BY <1>1
    <2>2. \A y \in Behind : y \in Nat
      <3>1. \A y \in Ends \cup {n} : y \in Nat
        BY <1>1
      <3> QED
        BY <3>1
    <2>3. n \in Behind
      BY <2>1
    <2> QED
      BY <2>2, <2>3
  <1>3. PICK e \in Behind : \A y \in Behind : e <= y
    BY <1>2, NatMin
  <1>4. Back \subseteq Nat /\ n - 1 \in Back
    BY <1>1
  <1>5. PICK b \in Back : \A y \in Back : b <= y
    BY <1>4, NatMin
  <1>6. PICK s \in Starts : s <= i /\ b = n - s
    BY <1>5
  <1>7. \A t \in Starts : t <= i => t <= s
    <2> TAKE t \in Starts
    <2> HAVE t <= i
    <2>1. n - t \in Back
      OBVIOUS
    <2>2. n - s <= n - t
      BY <1>5, <1>6, <2>1
    <2> QED
      BY <1>1, <2>2
  <1>8. ASSUME NEW k \in Ends, s <= k, k < e PROVE FALSE
    <2>1. k \in 1..n /\ s \in 1..n /\ e \in 1..n /\ i \in 1..n
      BY <1>1, <1>3
    <2>2. CASE k >= i
      <3>1. k \in Behind
        BY <2>2
      <3> QED
        BY <1>3, <1>8, <2>1, <3>1
    <2>3. CASE k < i
      <3>1. k + 1 \in 2..n /\ (k + 1) - 1 = k /\ k + 1 <= i
        BY <2>1, <2>3
      <3>2. k + 1 \in Starts
        BY <1>1, <3>1
      <3>3. k + 1 <= s
        BY <1>7, <3>1, <3>2
      <3> QED
        BY <1>8, <2>1, <3>3
    <2> QED
      BY <2>1, <2>2, <2>3
  <1>9. e \in 1..n /\ e >= i /\ i >= s /\ e >= s /\ e \in Ends \cup {n}
    BY <1>1, <1>3, <1>6
  <1>10. EndsAt(s, e)
    BY <1>8, <1>9 DEF EndsAt
  <1> QED
    BY <1>6, <1>9, <1>10

LEMMA LossesAreCounted == IInv => LossIsCounted
  <1> SUFFICES ASSUME IInv, Skipped = 0, NEW w \in Acknowledged PROVE w \in Rows
    BY DEF LossIsCounted, Readings
  <1> USE DEF IInv, FileInv
  <1>1. w \in Writers /\ answer[w] = "true"
    BY DEF Acknowledged
  <1>2. PICK i \in 1..Len(file) : file[i].row = w /\ IsHead(i)
    BY <1>1 DEF RowsStay
  <1>3. \A s \in Starts : IsRow(LineAt(s))
    <2> DEFINE skipped == {s \in Starts : ~IsRow(LineAt(s))}
    <2>1. Len(file) \in Nat /\ skipped \subseteq 1..Len(file)
      BY FileIs DEF Starts
    <2>2. IsFiniteSet(1..Len(file))
      <3>1. 1 \in Int /\ Len(file) \in Int
        BY <2>1
      <3> QED
        BY <3>1, FS_Interval, Zenon
    <2>3. IsFiniteSet(skipped)
      BY <2>1, <2>2, FS_Subset
    <2>4. Cardinality(skipped) = 0
      BY DEF Skipped, LinesLeftOut
    <2>5. skipped = {}
      BY <2>3, <2>4, FS_EmptySet
    <2> QED
      BY <2>5
  <1>4. PICK s \in Starts, e \in 1..Len(file) : s <= i /\ i <= e /\ EndsAt(s, e)
    BY PieceIsInLine
  <1>5. Len(file) \in Nat /\ s \in 1..Len(file)
    BY FileIs DEF Starts
  <1>6. LineAt(s)[1] = file[s] /\ (e = s \/ (e = s + 1 /\ ~IsHead(e)))
    BY <1>3, <1>4, <1>5, RowIs
  <1>7. s = i
    BY <1>2, <1>4, <1>5, <1>6
  <1>8. s \in {j \in Starts : IsRow(LineAt(j))} /\ LineAt(s)[1].row = w
    BY <1>2, <1>3, <1>6, <1>7
  <1> QED
    BY <1>8 DEF Rows

-----------------------------------------------------------------------------
(* The theorems.                                                           *)

\* The types of RunsFile, and that the lock has one holder.
THEOREM TypeCorrect == Spec => []TypeOK
  <1>1. IInv => TypeOK
    BY DEF IInv
  <1> QED
    BY <1>1, Invariant, PTL

\* WrittenRowIsRead: a row that append_row has written out is returned by a
\* read_rows that can read the file, or counted as left out when it is not plain,
\* whoever else writes, is cut short or is killed, unless the row right before it
\* was cut.
THEOREM RowsAreRead == Spec => []WrittenRowIsRead
  BY Invariant, WrittenRowsAreRead, PTL

\* LossIsCounted: read_rows that could read the file and counts no line as left
\* out has returned every row that append_row acknowledged.
THEOREM LossShows == Spec => []LossIsCounted
  BY Invariant, LossesAreCounted, PTL

-----------------------------------------------------------------------------
(* The log of a hook run.                                                  *)

HIDE RunsFileAssumption

LogLines == {Entry} \cup WatchdogLines \cup ExitLines
Exits == {i \in DOMAIN lines : lines[i].kind = "EXIT"}
Over == {"gone", "ended"}

\* The types of what a line is made of.
LogTypes ==
    /\ active \in Seq(Stages) /\ stages \subseteq Stages
    /\ status \in {"ok", "error"} /\ fired \in BOOLEAN
    /\ stage \in Stages \cup {NoStage} /\ seen \subseteq Stages
    /\ exit \in ExitLines /\ lines \in Seq(LogLines)

\* The ENTRY line is written before anything else can be.
EntryFirst ==
    /\ main = "new" => lines = <<>> /\ watchdog = "off"
    /\ main \notin {"new", "killed"} \/ watchdog # "off" => lines # <<>>
    /\ lines # <<>> => lines[1] = Entry

\* Past the body nothing that the EXIT line tells can change.
BodyIsOver ==
    /\ main \in {"cancel", "exit", "emit"} \cup Over => active = <<>>
    /\ main \in {"emit"} \cup Over => exit.status = status /\ exit.stages = stages

OneExit ==
    /\ Exits # {} <=> main \in Over
    /\ \A i \in Exits : Exits = {i} /\ lines[i] = exit

HookInv == LogTypes /\ EntryFirst /\ BodyIsOver /\ OneExit

LEMMA HookInvInit == HookInit => HookInv
  <1> SUFFICES ASSUME HookInit PROVE HookInv
    OBVIOUS
  <1>1. LogTypes
    <2>1. exit \in ExitLines
      BY DEF HookInit, ExitLines
    <2>2. lines \in Seq(LogLines) /\ active \in Seq(Stages)
      BY DEF HookInit
    <2> QED
      BY <2>1, <2>2 DEF HookInit, LogTypes
  <1>2. EntryFirst /\ BodyIsOver
    BY DEF HookInit, EntryFirst, BodyIsOver, Over
  <1>3. OneExit
    BY DEF HookInit, OneExit, Exits, Over
  <1> QED
    BY <1>1, <1>2, <1>3 DEF HookInv

\* A step that writes no line.
LEMMA QuietStep ==
    ASSUME HookInv, LogTypes', UNCHANGED <<lines, exit>>,
           main' # main => main' \notin {"new"} \cup Over /\ (main = "new" => main' = "killed"),
           main' # main => main \notin {"killed"} \cup Over,
           watchdog' # watchdog => watchdog # "off" \/ lines # <<>>,
           BodyIsOver'
    PROVE  HookInv'
  <1> USE DEF HookInv
  <1>1. EntryFirst'
    BY DEF EntryFirst
  <1>2. OneExit'
    BY DEF OneExit, Exits, Over
  <1> QED
    BY <1>1, <1>2

\* What a line adds to the log.
LEMMA LineWritten ==
    ASSUME LogTypes, NEW line \in LogLines, EmitHookLine(line)
    PROVE  /\ lines' \in Seq(LogLines) /\ lines' # <<>>
           /\ lines # <<>> => lines'[1] = lines[1]
           /\ lines = <<>> => lines'[1] = line
           /\ Exits' = IF line.kind = "EXIT" THEN Exits \cup {Len(lines) + 1} ELSE Exits
           /\ lines'[Len(lines) + 1] = line
           /\ \A i \in Exits : lines'[i] = lines[i]
  <1>1. lines \in Seq(LogLines) /\ lines' = Append(lines, line) /\ Len(lines) \in Nat
    BY DEF LogTypes, EmitHookLine
  <1>2. /\ DOMAIN lines = 1..Len(lines) /\ DOMAIN lines' = 1..(Len(lines) + 1)
        /\ \A i \in 1..Len(lines) : lines'[i] = lines[i]
        /\ lines'[Len(lines) + 1] = line /\ lines' \in Seq(LogLines) /\ lines' # <<>>
    BY <1>1
  <1>3. Exits' = IF line.kind = "EXIT" THEN Exits \cup {Len(lines) + 1} ELSE Exits
    BY <1>1, <1>2 DEF Exits
  <1>4. lines # <<>> => lines'[1] = lines[1]
    BY <1>1, <1>2
  <1>5. lines = <<>> => lines'[1] = line
    BY <1>1, <1>2
  <1> QED
    BY <1>2, <1>3, <1>4, <1>5 DEF Exits

LEMMA LineKinds ==
    /\ Entry \in LogLines /\ Entry.kind = "ENTRY"
    /\ \A x \in WatchdogLines : x \in LogLines /\ x.kind = "WATCHDOG"
    /\ \A x \in ExitLines : x \in LogLines /\ x.kind = "EXIT"
  BY DEF LogLines, Entry, WatchdogLines, ExitLines

\* The three steps that write a line, those that change what the EXIT line will
\* say, and the quiet ones.
LEMMA HookStep == HookInv /\ [HookNext]_hookVars => HookInv'
  <1> SUFFICES ASSUME HookInv, [HookNext]_hookVars PROVE HookInv'
    OBVIOUS
  <1> USE DEF body, thread
  <1>1. CASE WriteEntry
    <2>1. EmitHookLine(Entry) /\ main = "new" /\ main' = "entered"
          /\ UNCHANGED <<active, stages, status, fired, stage, seen, exit, watchdog>>
      BY <1>1 DEF WriteEntry
    <2>2. LogTypes'
      BY <2>1, LineWritten, LineKinds DEF HookInv, LogTypes
    <2>3. EntryFirst'
      BY <2>1, LineWritten, LineKinds DEF HookInv, EntryFirst
    <2>4. OneExit' /\ BodyIsOver'
      BY <2>1, LineWritten, LineKinds DEF HookInv, OneExit, BodyIsOver, Over
    <2> QED
      BY <2>2, <2>3, <2>4 DEF HookInv
  <1>2. CASE WriteExit
    <2>1. EmitHookLine(exit) /\ main = "emit" /\ main' = "gone"
          /\ UNCHANGED <<active, stages, status, fired, stage, seen, exit, watchdog>>
      BY <1>2 DEF WriteExit
    <2>2. exit \in LogLines /\ exit.kind = "EXIT"
      BY LineKinds DEF HookInv, LogTypes
    <2>3. LogTypes'
      BY <2>1, <2>2, LineWritten DEF HookInv, LogTypes
    <2>4. EntryFirst'
      BY <2>1, <2>2, LineWritten DEF HookInv, EntryFirst
    <2>5. Exits = {} /\ Exits' = {Len(lines) + 1} /\ lines'[Len(lines) + 1] = exit
      BY <2>1, <2>2, LineWritten DEF HookInv, OneExit, Over
    <2>6. OneExit' /\ BodyIsOver'
      BY <2>1, <2>5 DEF HookInv, OneExit, BodyIsOver, Over
    <2> QED
      BY <2>3, <2>4, <2>6 DEF HookInv
  <1>3. CASE WriteWatchdog
    <2> DEFINE line == [kind |-> "WATCHDOG", stage |-> stage, stages |-> seen]
    <2>1. EmitHookLine(line) /\ watchdog = "emit" /\ watchdog' = "end"
          /\ UNCHANGED <<main, active, stages, status, fired, stage, seen, exit>>
      BY <1>3 DEF WriteWatchdog
    <2>2. line \in WatchdogLines
      BY DEF HookInv, LogTypes, WatchdogLines
    <2>3. line \in LogLines /\ line.kind = "WATCHDOG"
      BY <2>2, LineKinds
    <2> HIDE DEF line
    <2>4. LogTypes'
      BY <2>1, <2>3, LineWritten DEF HookInv, LogTypes
    <2>5. EntryFirst'
      BY <2>1, <2>3, LineWritten DEF HookInv, EntryFirst
    <2>6. OneExit' /\ BodyIsOver'
      BY <2>1, <2>3, LineWritten DEF HookInv, OneExit, BodyIsOver, Over
    <2> QED
      BY <2>4, <2>5, <2>6 DEF HookInv
  <1>4. CASE StartTimer
    <2>1. LogTypes' /\ BodyIsOver'
      BY <1>4 DEF StartTimer, HookInv, LogTypes, BodyIsOver, Over
    <2> QED
      BY <1>4, <2>1, QuietStep DEF StartTimer, HookInv, EntryFirst, Over
  <1>5. CASE EnterStage
    <2>1. LogTypes' /\ BodyIsOver'
      BY <1>5 DEF EnterStage, HookInv, LogTypes, BodyIsOver, Over
    <2> QED
      BY <1>5, <2>1, QuietStep DEF EnterStage
  <1>6. CASE RecordStage
    <2>1. Last(active) \in Stages
      BY <1>6 DEF RecordStage, Last, HookInv, LogTypes
    <2>2. LogTypes' /\ BodyIsOver'
      BY <1>6, <2>1 DEF RecordStage, HookInv, LogTypes, BodyIsOver, Over
    <2> QED
      BY <1>6, <2>2, QuietStep DEF RecordStage, Over
  <1>7. CASE LeaveStage
    <2>1. Front(active) \in Seq(Stages)
      BY <1>7 DEF Front, HookInv, LogTypes
    <2>2. LogTypes' /\ BodyIsOver'
      BY <1>7, <2>1 DEF LeaveStage, HookInv, LogTypes, BodyIsOver, Over
    <2> QED
      BY <1>7, <2>2, QuietStep DEF LeaveStage, Over
  <1>8. CASE Hang \/ BodyEnds \/ CancelTimer
    <2>1. LogTypes' /\ BodyIsOver'
      BY <1>8 DEF Hang, BodyEnds, CancelTimer, HookInv, LogTypes, BodyIsOver, Over
    <2> QED
      BY <1>8, <2>1, QuietStep DEF Hang, BodyEnds, CancelTimer, Over
  <1>9. CASE BuildExit
    <2>1. LogTypes' /\ BodyIsOver'
      BY <1>9 DEF BuildExit, ExitLine, ExitLines, HookInv, LogTypes, BodyIsOver, Over
    <2>2. Exits = {} /\ Exits' = {} /\ main = "exit" /\ main' = "emit"
          /\ UNCHANGED <<lines, watchdog>>
      BY <1>9 DEF BuildExit, HookInv, OneExit, Exits, Over
    <2>3. OneExit' /\ EntryFirst'
      BY <2>2 DEF HookInv, OneExit, EntryFirst, Over
    <2> QED
      BY <2>1, <2>3 DEF HookInv
  <1>10. CASE TimerFires \/ ReadStage \/ BeginWalk \/ EndWalk \/ SetFlag
    <2>1. CurrentStage \in Stages \cup {NoStage}
      BY DEF CurrentStage, Last, HookInv, LogTypes
    <2>2. LogTypes' /\ BodyIsOver'
      BY <1>10, <2>1 DEF TimerFires, ReadStage, BeginWalk, EndWalk,
                         SetFlag, HookInv, LogTypes, BodyIsOver, Over
    <2> QED
      BY <1>10, <2>2, QuietStep DEF TimerFires, ReadStage, BeginWalk,
                                    EndWalk, SetFlag
  <1>11. CASE Killed
    <2>1. LogTypes' /\ BodyIsOver'
      BY <1>11 DEF Killed, HookInv, LogTypes, BodyIsOver, Over
    <2>2. UNCHANGED <<lines, exit, watchdog>> /\ Exits' = Exits
          /\ \/ main = "gone" /\ main' = "ended"
             \/ main \notin Over /\ main' = "killed"
      BY <1>11 DEF Killed, Alive, Over, Exits
    <2>3. OneExit' /\ EntryFirst'
      BY <2>2 DEF HookInv, OneExit, EntryFirst, Over
    <2> QED
      BY <2>1, <2>3 DEF HookInv
  <1>12. CASE UNCHANGED hookVars
    BY <1>12 DEF hookVars, HookInv, LogTypes, EntryFirst, BodyIsOver, OneExit, Exits
  <1> QED
    BY <1>1, <1>2, <1>3, <1>4, <1>5, <1>6, <1>7, <1>8, <1>9, <1>10, <1>11, <1>12
       DEF HookNext, Main, Watchdog

\* What is in the one EXIT line is what holds for good.
LEMMA HookSays == HookInv => PairTellsTheEnd
  BY DEF HookInv, PairTellsTheEnd, EntryFirst, OneExit, BodyIsOver, Exits, Over

\* PairTellsTheEnd: a run of hook_run leaves its ENTRY line first, and one EXIT
\* line exactly when its body came to its end and nothing killed the process;
\* the line says how it ended, and times every stage, whatever the timer thread
\* writes in between.
THEOREM PairTells == HookSpec => []PairTellsTheEnd
  BY HookInvInit, HookStep, HookSays, PTL DEF HookSpec

-----------------------------------------------------------------------------
(* The logs of a component and the shared one: what keeps their lines.     *)

\* A line is a record with the fields of one.
IsLine(l) ==
    l \in [id : {l.id}, log : {l.log}, day : {l.day}, file : {l.file}, doomed : {l.doomed}]

\* The types, as far as the proof needs them: nothing of a line but its log and
\* its file.
DirTypes ==
    /\ today \in Days /\ mtime \in [Logs -> Seq(Days)]
    /\ current \in FilesOf("errors") /\ legacy \in FilesOf("component")
    /\ dated \in [Logs -> [Days -> Nat \cup {NoFile}]]
    /\ \A l \in Logs, d \in Days : dated[l][d] \in FilesOf(l)
    /\ step \in [Loggers -> Steps]
    /\ chosen \in [Loggers -> Logs \X Days]
    /\ handle \in [Loggers -> [Logs -> Nat \cup {NoFile}]]
    /\ \A p \in Loggers, l \in Logs : handle[p][l] \in FilesOf(l)
    /\ \A p \in Loggers :
           step[p] \notin {"starting", "linking", "unlinking", "opening"} =>
               handle[p]["errors"] # NoFile
    /\ \A l \in written :
           /\ l.log \in Logs /\ l.file \in DOMAIN mtime[l.log]
           /\ IsLine(l)

\* No file of the shared log is without a name: this is what makes a line safe
\* that an old handler writes to hook-errors.log after it was rotated.
ErrorsNamed == \A f \in DOMAIN mtime["errors"] : Named("errors", f) \/ MadeAfterStall(f)

Ledgered(f) == \E d \in Days : dated["errors"][d] = f

\* Who rotates, rotates the shared log.
Linkers == \A p \in Loggers : step[p] = "linking" => chosen[p][1] = "errors"

\* All who rotate at one time rotate to one name, as long as no day passes
\* meanwhile: so one of them links, and until it has unlinked, the others find
\* the name taken.  What it unlinks has its dated name by then, and is the very
\* file it has linked: there was no moment when another could come in its place.
OneRotation ==
    /\ \A p \in Loggers : step[p] = "linking" =>
           /\ chosen[p][1] = "errors"
           /\ current # NoFile => mtime["errors"][current] \in {chosen[p][2], today}
    /\ \A p, q \in Loggers : step[p] = "linking" /\ step[q] = "linking" => chosen[p] = chosen[q]
    /\ \A p \in Loggers : step[p] = "unlinking" =>
           /\ current # NoFile /\ Ledgered(current)
           /\ \/ mtime["errors"][current] = today
              \/ dated["errors"][mtime["errors"][current]] # NoFile
           /\ \A q \in Loggers :
                  /\ step[q] = "unlinking" => q = p
                  /\ step[q] = "linking" => dated["errors"][chosen[q][2]] # NoFile

\* Once a day has passed meanwhile, who unlinks may unlink a file made since,
\* but no older one that has no other name.
AfterStall ==
    /\ heldUp \in 0..Len(mtime["errors"])
    /\ \A p \in Loggers : step[p] = "unlinking" =>
           current = NoFile \/ MadeAfterStall(current) \/ Ledgered(current)

\* An open handler of the component writes to the file of the day, or to one
\* renamed over; and on the day of the old file, a process of the component that
\* has its handlers has made that day's.
OwnFiles ==
    /\ \A p \in Loggers : IsOpen(p) =>
           \/ dated["component"][today] = handle[p]["component"]
           \/ handle[p]["component"] \in replaced /\ dated["component"][today] # NoFile
    /\ \A p \in owners : step[p] # "starting" /\ today = 0 => dated["component"][0] # NoFile

\* No process of the component renames the old file over another: a handler
\* makes the file of day 0 on that day only, and whoever looks for it on that
\* day has made it already, so a name that was free at the look is free at the
\* rename.  And what is removed after a merge has been copied, with all its
\* lines.
Migration ==
    /\ legacy # NoFile => replaced = {} /\ \A d \in Days : dated["component"][d] # legacy
    /\ \A p \in Loggers :
           /\ step[p] = "renaming" /\ p \in owners /\ legacy # NoFile =>
                  dated["component"][0] = NoFile
           /\ step[p] \in {"merging", "removing"} => dated["component"][0] # NoFile
           /\ step[p] = "removing" => \A l \in written :
                  l.log = "component" /\ l.file = legacy =>
                      \E m \in written : /\ m.id = l.id /\ m.log = "component"
                                         /\ m.file = dated["component"][0]

\* Without retention nothing is swept.
NoSweep == \A p \in Loggers : step[p] \notin {"sweeping", "deleting"}

\* Until the old file is migrated, every line is where it was written, in a
\* file that has a name.
InPlace == legacy # NoFile =>
               \A l \in written : l.log = "component" => Named("component", l.file)

\* A copy of the line is in a file that has a name, or it is one of those that
\* the code may lose.
Held(l) == \E m \in written : m.id = l.id /\ m.log = l.log /\ Named(l.log, m.file)
MayBeLost(l) == \/ l.log = "errors" /\ MadeAfterStall(l.file)
                \/ l.log = "component" /\ l.file \in replaced
LinesHeld == \A l \in written : Held(l) \/ MayBeLost(l)

NothingSwept ==
    /\ retention = 0 /\ NoSweep /\ owners \subseteq Loggers
    /\ ErrorsNamed /\ Linkers
    /\ heldUp = NoFile => OneRotation
    /\ heldUp # NoFile => AfterStall
    /\ OwnFiles /\ Migration /\ InPlace /\ LinesHeld

\* What the proof uses of ErrorLogAssumption.
Numbers == MaxDay \in Nat /\ NoFile \notin Nat /\ Retentions \subseteq Nat

LEMMA FilesAre ==
    ASSUME DirTypes
    PROVE  \A l \in {"errors", "component"} :
               /\ l \in Logs /\ mtime[l] \in Seq(Days) /\ Len(mtime[l]) \in Nat
               /\ DOMAIN mtime[l] = 1..Len(mtime[l])
               /\ Created(l) = Len(mtime[l]) + 1
               /\ FilesOf(l) = 1..Len(mtime[l]) \cup {NoFile}
               /\ dated[l] \in [Days -> Nat \cup {NoFile}]
  BY DEF DirTypes, Logs, Created, FilesOf

LEMMA OpenedIs ==
    ASSUME DirTypes, Numbers, NEW l \in Logs, NEW f \in FilesOf(l)
    PROVE  /\ Opened(l, f) \in 1..(Len(mtime[l]) + 1)
           /\ Opened(l, f) # NoFile
           /\ f # NoFile => Opened(l, f) = f /\ f \in 1..Len(mtime[l])
           /\ f = NoFile => Opened(l, f) = Created(l)
  BY FilesAre DEF Opened, Logs, Numbers

\* What a line does to the file it goes to, which it may create.
LEMMA WrittenIs ==
    ASSUME DirTypes, NEW l \in Logs, NEW f \in 1..(Len(mtime[l]) + 1)
    PROVE  /\ LastWritten(l, f) \in Seq(Days)
           /\ DOMAIN LastWritten(l, f) = (DOMAIN mtime[l]) \cup {f}
           /\ LastWritten(l, f)[f] = today
           /\ \A g \in DOMAIN mtime[l] : LastWritten(l, f)[g] \in {mtime[l][g], today}
  <1>1. /\ mtime[l] \in Seq(Days) /\ Len(mtime[l]) \in Nat /\ today \in Days
        /\ DOMAIN mtime[l] = 1..Len(mtime[l]) /\ Created(l) = Len(mtime[l]) + 1
    BY FilesAre DEF DirTypes, Logs
  <1>2. CASE f = Created(l)
    BY <1>1, <1>2 DEF LastWritten
  <1>3. CASE f # Created(l)
    <2>1. f \in 1..Len(mtime[l])
      BY <1>1, <1>3
    <2> QED
      BY <1>1, <1>3, <2>1 DEF LastWritten
  <1> QED
    BY <1>2, <1>3

\* The component's handler opens the file of the day, unless it has one open.
LEMMA OwnOpens ==
    ASSUME DirTypes, Numbers, NEW p \in Loggers, p \in owners, OpensOwn(p)
    PROVE  /\ OwnFile(p) \in 1..(Len(mtime["component"]) + 1) /\ OwnFile(p) # NoFile
           /\ handle'[p]["component"] = OwnFile(p)
           /\ handle' \in [Loggers -> [Logs -> Nat \cup {NoFile}]]
           /\ dated' \in [Logs -> [Days -> Nat \cup {NoFile}]]
           /\ handle'[p]["errors"] = handle[p]["errors"]
           /\ \A q \in Loggers \ {p} : handle'[q] = handle[q]
           /\ dated'["errors"] = dated["errors"]
           /\ \A d \in Days : d # today => dated'["component"][d] = dated["component"][d]
           /\ \/ /\ IsOpen(p) /\ OwnFile(p) = handle[p]["component"]
                 /\ dated'["component"][today] = dated["component"][today]
              \/ /\ ~IsOpen(p) /\ dated'["component"][today] = OwnFile(p)
                 /\ dated["component"][today] # NoFile => OwnFile(p) = dated["component"][today]
                 /\ dated["component"][today] = NoFile => OwnFile(p) = Created("component")
  <1> DEFINE f == dated["component"][today]
             own == OwnFile(p)
  <1>1. /\ today \in Days /\ f \in FilesOf("component") /\ "component" \in Logs
        /\ "errors" \in Logs /\ handle[p]["component"] \in FilesOf("component")
    BY DEF DirTypes, Logs
  <1>2. /\ own \in 1..(Len(mtime["component"]) + 1) /\ own # NoFile
        /\ IsOpen(p) => own = handle[p]["component"]
        /\ ~IsOpen(p) => (f # NoFile => own = f) /\ (f = NoFile => own = Created("component"))
    <2>1. CASE IsOpen(p)
      <3>1. own = handle[p]["component"] /\ own # NoFile
        BY <2>1 DEF OwnFile, IsOpen
      <3> QED
        BY <1>1, <2>1, <3>1, FilesAre
    <2>2. CASE ~IsOpen(p)
      BY <1>1, <2>2, OpenedIs DEF OwnFile
    <2> QED
      BY <2>1, <2>2
  <1>3. own \in Nat
    BY <1>1, <1>2, FilesAre
  <1>4. handle' = [handle EXCEPT ![p]["component"] = own]
    BY DEF OpensOwn
  <1>5. dated' = IF IsOpen(p) THEN dated ELSE [dated EXCEPT !["component"][today] = own]
    BY DEF OpensOwn
  <1> HIDE DEF own
  <1>6. /\ handle'[p]["component"] = own /\ handle'[p]["errors"] = handle[p]["errors"]
        /\ handle' \in [Loggers -> [Logs -> Nat \cup {NoFile}]]
        /\ \A q \in Loggers \ {p} : handle'[q] = handle[q]
    BY <1>1, <1>3, <1>4 DEF DirTypes
  <1>7. /\ dated' \in [Logs -> [Days -> Nat \cup {NoFile}]]
        /\ dated'["errors"] = dated["errors"]
        /\ \A d \in Days : d # today => dated'["component"][d] = dated["component"][d]
        /\ IsOpen(p) => dated'["component"][today] = f
        /\ ~IsOpen(p) => dated'["component"][today] = own
    BY <1>1, <1>3, <1>5 DEF DirTypes
  <1> QED
    BY <1>2, <1>6, <1>7 DEF own

\* Other processes have no such handler.
LEMMA OthersOpenNone ==
    ASSUME NEW p \in Loggers, p \notin owners, OpensOwn(p)
    PROVE  UNCHANGED <<dated, handle>>
  BY DEF OpensOwn

\* The shared log is left alone.
LEMMA OpensNoErrors ==
    ASSUME DirTypes, Numbers, NEW p \in Loggers, OpensOwn(p)
    PROVE  /\ dated'["errors"] = dated["errors"]
           /\ \A q \in Loggers : handle'[q]["errors"] = handle[q]["errors"]
  <1>1. CASE p \in owners
    <2>1. /\ dated'["errors"] = dated["errors"] /\ handle'[p]["errors"] = handle[p]["errors"]
          /\ \A q \in Loggers \ {p} : handle'[q] = handle[q]
      BY <1>1, OwnOpens
    <2> QED
      BY <2>1
  <1>2. CASE p \notin owners
    BY <1>2, OthersOpenNone
  <1> QED
    BY <1>1, <1>2

\* While nothing is swept, no name is taken from a file by it.
LEMMA OwnIs ==
    ASSUME DirTypes, Numbers, NEW p \in Loggers, p \in owners, OwnFiles, Migration, OpensOwn(p)
    PROVE  /\ OwnFile(p) # legacy
           /\ dated'["component"][today] = OwnFile(p) \/ OwnFile(p) \in replaced
           /\ dated["component"][today] # NoFile =>
                  dated'["component"][today] = dated["component"][today]
           /\ dated'["component"][today] # legacy \/ legacy = NoFile
           /\ dated'["component"][today] # NoFile
  <1> DEFINE own == OwnFile(p)
             f == dated["component"][today]
  <1>1. today \in Days /\ legacy \in FilesOf("component") /\ "component" \in Logs
    BY DEF DirTypes, Logs
  <1>2. \/ /\ IsOpen(p) /\ own = handle[p]["component"] /\ dated'["component"][today] = f
        \/ /\ ~IsOpen(p) /\ dated'["component"][today] = own
           /\ f # NoFile => own = f
           /\ f = NoFile => own = Created("component")
    BY OwnOpens
  <1>3. own # NoFile
    BY OwnOpens
  <1>4. legacy # Created("component") \/ legacy = NoFile
    BY <1>1, FilesAre
  <1>5. legacy # NoFile => f # legacy /\ replaced = {}
    BY <1>1 DEF Migration
  <1>6. IsOpen(p) => own = f \/ (own \in replaced /\ f # NoFile)
    BY <1>2 DEF OwnFiles
  <1> HIDE DEF own, f
  <1> QED
    BY <1>2, <1>3, <1>4, <1>5, <1>6 DEF own, f

Before == {"starting", "linking", "unlinking", "opening"}
\* A step of one process that only adds files and lines.
LEMMA TypesKept ==
    ASSUME DirTypes, NEW p \in Loggers, NEW to \in Steps, NEW c \in Logs \X Days,
           UNCHANGED today,
           mtime' \in [Logs -> Seq(Days)],
           \A l \in Logs : DOMAIN mtime[l] \subseteq DOMAIN mtime'[l],
           current' \in FilesOf("errors")', legacy' \in {legacy, NoFile},
           dated' \in [Logs -> [Days -> Nat \cup {NoFile}]],
           \A l \in Logs, d \in Days :
               dated'[l][d] \in {dated[l][d], NoFile} \cup DOMAIN mtime'[l],
           step' = [step EXCEPT ![p] = to], chosen' \in {chosen, [chosen EXCEPT ![p] = c]},
           handle' \in [Loggers -> [Logs -> Nat \cup {NoFile}]],
           \A q \in Loggers, l \in Logs :
               handle'[q][l] \in {handle[q][l], NoFile} \cup DOMAIN mtime'[l],
           \A q \in Loggers : handle'[q]["errors"] = NoFile =>
               \/ q = p /\ to \in Before
               \/ handle[q]["errors"] = NoFile /\ (q = p => step[p] \notin Before),
           \A l \in written' \ written :
               l.log \in Logs /\ l.file \in DOMAIN mtime'[l.log] /\ IsLine(l)
    PROVE  DirTypes'
  <1>1. \A l \in Logs : FilesOf(l)' = (DOMAIN mtime'[l]) \cup {NoFile}
                            /\ FilesOf(l) = (DOMAIN mtime[l]) \cup {NoFile}
    BY DEF FilesOf
  <1>2. legacy' \in FilesOf("component")'
    BY <1>1 DEF DirTypes, Logs
  <1>3. \A l \in Logs, d \in Days : dated'[l][d] \in FilesOf(l)'
    BY <1>1 DEF DirTypes
  <1>4. \A q \in Loggers, l \in Logs : handle'[q][l] \in FilesOf(l)'
    BY <1>1, SMTT(30) DEF DirTypes
  <1>5. /\ step' \in [Loggers -> Steps] /\ chosen' \in [Loggers -> Logs \X Days]
        /\ \A q \in Loggers : step'[q] = IF q = p THEN to ELSE step[q]
    <2>1. step \in [Loggers -> Steps] /\ chosen \in [Loggers -> Logs \X Days]
      BY DEF DirTypes
    <2> QED
      BY <2>1
  <1>6. \A q \in Loggers : step'[q] \notin Before => handle'[q]["errors"] # NoFile
    BY <1>5 DEF DirTypes, Before
  <1>7. \A l \in written' : l.log \in Logs /\ l.file \in DOMAIN mtime'[l.log] /\ IsLine(l)
    BY DEF DirTypes
  <1>8. today' \in (Days)'
    BY DEF DirTypes, Days
  <1> QED
    BY <1>2, <1>3, <1>4, <1>5, <1>6, <1>7, <1>8 DEF DirTypes, Before, Days, Logs, Steps

\* A step that writes to no file.
LEMMA TypesMoved ==
    ASSUME DirTypes, NEW p \in Loggers, NEW to \in Steps, NEW c \in Logs \X Days,
           UNCHANGED <<today, mtime, written>>,
           current' \in {current, NoFile}, legacy' \in {legacy, NoFile},
           dated' \in [Logs -> [Days -> Nat \cup {NoFile}]],
           \A l \in Logs, d \in Days : dated'[l][d] \in FilesOf(l),
           step' = [step EXCEPT ![p] = to], chosen' \in {chosen, [chosen EXCEPT ![p] = c]},
           \/ handle' = handle /\ (step[p] \in Before => to \in Before)
           \/ handle' = [handle EXCEPT ![p] = [l \in Logs |-> NoFile]] /\ to \in Before
    PROVE  DirTypes'
  <1>1. \A l \in Logs : FilesOf(l) = (DOMAIN mtime[l]) \cup {NoFile}
                            /\ DOMAIN mtime'[l] = DOMAIN mtime[l]
    BY DEF FilesOf
  <1>2. current' \in FilesOf("errors")'
    BY DEF DirTypes, FilesOf
  <1>3. /\ handle' \in [Loggers -> [Logs -> Nat \cup {NoFile}]]
        /\ \A q \in Loggers, l \in Logs : handle'[q][l] \in {handle[q][l], NoFile}
        /\ \A q \in Loggers : handle'[q]["errors"] = NoFile =>
               \/ q = p /\ to \in Before
               \/ handle[q]["errors"] = NoFile /\ (q = p => step[p] \notin Before)
    <2>1. CASE handle' = handle /\ (step[p] \in Before => to \in Before)
      BY <2>1 DEF DirTypes
    <2>2. CASE handle' = [handle EXCEPT ![p] = [l \in Logs |-> NoFile]] /\ to \in Before
      <3>1. /\ handle'[p] = [l \in Logs |-> NoFile]
            /\ \A q \in Loggers : q # p => handle'[q] = handle[q]
            /\ handle' \in [Loggers -> [Logs -> Nat \cup {NoFile}]]
        BY <2>2 DEF DirTypes
      <3>2. \A q \in Loggers, l \in Logs : handle'[q][l] \in {handle[q][l], NoFile}
        BY <3>1
      <3>3. \A q \in Loggers : handle'[q]["errors"] = NoFile =>
               (q = p /\ to \in Before) \/ (q # p /\ handle[q]["errors"] = NoFile)
        BY <2>2, <3>1
      <3> QED
        BY <3>1, <3>2, <3>3
    <2> QED
      BY <2>1, <2>2
  <1>4. mtime' \in [Logs -> Seq(Days)]
    BY DEF DirTypes
  <1>5. \A l \in Logs, d \in Days :
               dated'[l][d] \in {dated[l][d], NoFile} \cup DOMAIN mtime'[l]
    BY <1>1
  <1> QED
    BY <1>1, <1>2, <1>3, <1>4, <1>5, TypesKept

LEMMA NameGiven ==
    ASSUME DirTypes, NEW k \in Logs, NEW e \in Days, NEW f \in Nat \cup {NoFile},
           dated' = [dated EXCEPT ![k][e] = f]
    PROVE  /\ dated' \in [Logs -> [Days -> Nat \cup {NoFile}]]
           /\ \A l \in Logs, d \in Days :
                  dated'[l][d] = IF l = k /\ d = e THEN f ELSE dated[l][d]
  BY DEF DirTypes

LEMMA LineIsLine ==
    ASSUME NEW a, NEW b, NEW c, NEW d, NEW e
    PROVE  IsLine([id |-> a, log |-> b, day |-> c, file |-> d, doomed |-> e])
  BY DEF IsLine

\* Every line of the old file is copied as it is, but for the file it is in.
LEMMA CopiesAre ==
    ASSUME DirTypes, NEW f
    PROVE  /\ written \subseteq Copied(f)
           /\ \A l \in Copied(f) \ written : l.log = "component" /\ l.file = f /\ IsLine(l)
           /\ \A l \in Copied(f) \ written :
                  \E m \in written : /\ m.log = "component" /\ m.file = legacy
                                     /\ l.day = m.day
           /\ \A m \in written : m.log = "component" /\ m.file = legacy =>
                  \E l \in Copied(f) : l.id = m.id /\ l.log = "component" /\ l.file = f
  <1> DEFINE x == Doomed("component", f)
             Copy(m) == [m EXCEPT !.file = f, !.doomed = x]
             Fields(m) == [id : {m.id}, log : {m.log}, day : {m.day},
                           file : {m.file, f}, doomed : {m.doomed, x}]
  <1>1. Copied(f) =
            written \cup {Copy(m) : m \in {n \in written : n.log = "component" /\ n.file = legacy}}
    BY DEF Copied
  <1> HIDE DEF x
  <1>2. ASSUME NEW m \in written
        PROVE  /\ Copy(m).id = m.id /\ Copy(m).log = m.log /\ Copy(m).file = f
               /\ Copy(m).day = m.day /\ IsLine(Copy(m))
    <2>1. m \in Fields(m)
      BY DEF DirTypes, IsLine
    <2>2. Copy(m) \in Fields(m) /\ Copy(m).file = f /\ Copy(m).doomed = x
      BY <2>1
    <2>3. IsLine(Copy(m))
      BY <2>2 DEF IsLine
    <2> QED
      BY <2>2, <2>3
  <1> HIDE DEF Copy
  <1> QED
    BY <1>1, <1>2

\* What a process does when nothing is swept.
Unswept(p) == \/ Stat(p) \/ Link(p) \/ Unlink(p) \/ OpenErrorLog(p)
             \/ MigrationFinds(p) \/ Merge(p) \/ RemoveLegacy(p) \/ Rename(p)
             \/ LogError(p) \/ Restart(p)

\* What it does in a sweep.
Sweeps(p) == SweepFinds(p) \/ Delete(p) \/ SweepEnds(p)

\* The file a step may create or write to, in one log.
LEMMA FileWritten ==
    ASSUME DirTypes, NEW l \in Logs, NEW f \in 1..(Len(mtime[l]) + 1),
           mtime' = [mtime EXCEPT ![l] = LastWritten(l, f)]
    PROVE  /\ mtime' \in [Logs -> Seq(Days)]
           /\ \A k \in Logs : DOMAIN mtime[k] \subseteq DOMAIN mtime'[k]
           /\ \A k \in Logs : \A g \in DOMAIN mtime[k] : mtime'[k][g] \in {mtime[k][g], today}
           /\ f \in DOMAIN mtime'[l] /\ mtime'[l][f] = today
           /\ \A g \in DOMAIN mtime'[l] : g # f => g \in DOMAIN mtime[l]
           /\ \A k \in Logs \ {l} : mtime'[k] = mtime[k]
  <1> DEFINE W == LastWritten(l, f)
  <1>1. /\ W \in Seq(Days) /\ DOMAIN W = (DOMAIN mtime[l]) \cup {f} /\ W[f] = today
        /\ \A g \in DOMAIN mtime[l] : W[g] \in {mtime[l][g], today}
    BY WrittenIs
  <1>2. mtime' = [mtime EXCEPT ![l] = W]
    OBVIOUS
  <1> HIDE DEF W
  <1>3. /\ mtime' \in [Logs -> Seq(Days)] /\ mtime'[l] = W
        /\ \A k \in Logs \ {l} : mtime'[k] = mtime[k]
    BY <1>1, <1>2 DEF DirTypes
  <1>4. \A k \in Logs : \A g \in DOMAIN mtime[k] :
            g \in DOMAIN mtime'[k] /\ mtime'[k][g] \in {mtime[k][g], today}
    <2> TAKE k \in Logs
    <2>1. CASE k = l
      BY <1>1, <1>3, <2>1
    <2>2. CASE k # l
      <3>1. mtime'[k] = mtime[k]
        BY <1>3, <2>2
      <3> QED
        BY <3>1
    <2> QED
      BY <2>1, <2>2
  <1>5. /\ f \in DOMAIN mtime'[l] /\ mtime'[l][f] = today
        /\ \A g \in DOMAIN mtime'[l] : g # f => g \in DOMAIN mtime[l]
    BY <1>1, <1>3
  <1> QED
    BY <1>3, <1>4, <1>5

LEMMA OwnerStats ==
    ASSUME DirTypes, Numbers, NEW p \in Loggers, p \in owners, Stat(p)
    PROVE  /\ DirTypes' /\ OpensOwn(p)
           /\ mtime'["errors"] = mtime["errors"]
           /\ \A l \in Logs : DOMAIN mtime[l] \subseteq DOMAIN mtime'[l]
           /\ \/ /\ step' = [step EXCEPT ![p] = "linking"] /\ current # NoFile
                 /\ mtime["errors"][current] \in Days /\ mtime["errors"][current] < today
                 /\ chosen' = [chosen EXCEPT ![p] = <<"errors", mtime["errors"][current]>>]
              \/ step' = [step EXCEPT ![p] = "opening"] /\ chosen' = chosen
  <1> DEFINE own == OwnFile(p)
  <1>0. "errors" \in Logs /\ "component" \in Logs
    BY DEF Logs
  <1>1. /\ OpensOwn(p) /\ step[p] = "starting"
        /\ UNCHANGED <<retention, today, current, legacy, written>>
    BY DEF Stat, world
  <1>2. /\ mtime' \in [Logs -> Seq(Days)] /\ mtime'["errors"] = mtime["errors"]
        /\ \A l \in Logs : DOMAIN mtime[l] \subseteq DOMAIN mtime'[l]
        /\ own \in DOMAIN mtime'["component"]
    <2>1. own \in 1..(Len(mtime["component"]) + 1)
      BY <1>1, OwnOpens
    <2>2. CASE own = Created("component")
      <3>1. mtime' = [mtime EXCEPT !["component"] = LastWritten("component", own)]
        BY <2>2 DEF Stat
      <3> HIDE DEF own
      <3> QED
        BY <1>0, <2>1, <3>1, FileWritten
    <2>3. CASE own # Created("component")
      <3>1. mtime' = mtime
        BY <2>3 DEF Stat
      <3> HIDE DEF own
      <3>2. own \in DOMAIN mtime["component"]
        BY <1>0, <2>1, <2>3, FilesAre
      <3> QED
        BY <3>1, <3>2 DEF DirTypes
    <2> QED
      BY <2>2, <2>3
  <1>3. \/ /\ step' = [step EXCEPT ![p] = "linking"] /\ current # NoFile
           /\ mtime["errors"][current] \in Days /\ mtime["errors"][current] < today
           /\ chosen' = [chosen EXCEPT ![p] = <<"errors", mtime["errors"][current]>>]
        \/ step' = [step EXCEPT ![p] = "opening"] /\ chosen' = chosen
    <2>1. CASE current # NoFile /\ OfEarlierDay(mtime["errors"][current])
      <3>1. mtime["errors"][current] \in Days
        BY <1>0, <2>1, FilesAre DEF DirTypes
      <3> QED
        BY <2>1, <3>1 DEF Stat, StepTo, Chooses, OfEarlierDay
    <2>2. CASE ~(current # NoFile /\ OfEarlierDay(mtime["errors"][current]))
      BY <2>2 DEF Stat, StepTo
    <2> QED
      BY <2>1, <2>2
  <1>4. /\ dated' \in [Logs -> [Days -> Nat \cup {NoFile}]]
        /\ \A l \in Logs, d \in Days : dated'[l][d] \in {dated[l][d], own}
        /\ \A d \in Days : dated'["errors"][d] = dated["errors"][d]
        /\ handle' \in [Loggers -> [Logs -> Nat \cup {NoFile}]]
        /\ \A q \in Loggers, l \in Logs :
               handle'[q][l] = handle[q][l] \/ (l = "component" /\ handle'[q][l] = own)
        /\ \A q \in Loggers : handle'[q]["errors"] = handle[q]["errors"]
    <2>2. /\ handle'[p]["component"] = own /\ handle'[p]["errors"] = handle[p]["errors"]
          /\ \A q \in Loggers \ {p} : handle'[q] = handle[q]
          /\ dated'["errors"] = dated["errors"]
          /\ dated'["component"][today] \in {dated["component"][today], own}
          /\ \A d \in Days : d # today => dated'["component"][d] = dated["component"][d]
          /\ dated' \in [Logs -> [Days -> Nat \cup {NoFile}]]
          /\ handle' \in [Loggers -> [Logs -> Nat \cup {NoFile}]]
      BY <1>1, OwnOpens
    <2> HIDE DEF own
    <2> QED
      BY <2>2 DEF Logs
  <1> HIDE DEF own
  <1>5. \A l \in Logs, d \in Days :
               dated'[l][d] \in {dated[l][d], NoFile} \cup DOMAIN mtime'[l]
    BY <1>2, <1>4 DEF Logs
  <1>6. \A q \in Loggers, l \in Logs :
               handle'[q][l] \in {handle[q][l], NoFile} \cup DOMAIN mtime'[l]
    BY <1>2, <1>4
  <1>7. current' \in FilesOf("errors")' /\ legacy' \in {legacy, NoFile} /\ written' \ written = {}
    BY <1>1, <1>2 DEF DirTypes, FilesOf
  <1>8. PICK to \in Steps, c \in Logs \X Days :
            /\ step' = [step EXCEPT ![p] = to] /\ chosen' \in {chosen, [chosen EXCEPT ![p] = c]}
            /\ to \in Before
    <2>1. "linking" \in Steps /\ "opening" \in Steps /\ <<"errors", today>> \in Logs \X Days
          /\ "linking" \in Before /\ "opening" \in Before
      BY <1>0 DEF Steps, DirTypes, Before
    <2> QED
      BY <1>0, <1>3, <2>1
  <1>9. \A q \in Loggers : handle'[q]["errors"] = NoFile =>
               \/ q = p /\ to \in Before
               \/ handle[q]["errors"] = NoFile /\ (q = p => step[p] \notin Before)
    BY <1>4, <1>8
  <1>10. DirTypes'
    BY <1>1, <1>2, <1>4, <1>5, <1>6, <1>7, <1>8, <1>9, TypesKept
  <1> QED
    BY <1>1, <1>2, <1>3, <1>10

LEMMA OtherStats ==
    ASSUME DirTypes, Numbers, NEW p \in Loggers, p \notin owners, Stat(p)
    PROVE  /\ DirTypes' /\ OpensOwn(p) /\ UNCHANGED <<mtime, dated, handle>>
           /\ \/ /\ step' = [step EXCEPT ![p] = "linking"] /\ current # NoFile
                 /\ mtime["errors"][current] \in Days /\ mtime["errors"][current] < today
                 /\ chosen' = [chosen EXCEPT ![p] = <<"errors", mtime["errors"][current]>>]
              \/ step' = [step EXCEPT ![p] = "opening"] /\ chosen' = chosen
  <1>0. "errors" \in Logs
    BY DEF Logs
  <1>1. /\ OpensOwn(p) /\ UNCHANGED <<mtime, dated, handle>>
        /\ UNCHANGED <<today, current, legacy, written>>
    BY OthersOpenNone DEF Stat, world
  <1>2. \/ /\ step' = [step EXCEPT ![p] = "linking"] /\ current # NoFile
           /\ mtime["errors"][current] \in Days /\ mtime["errors"][current] < today
           /\ chosen' = [chosen EXCEPT ![p] = <<"errors", mtime["errors"][current]>>]
        \/ step' = [step EXCEPT ![p] = "opening"] /\ chosen' = chosen
    <2>1. CASE current # NoFile /\ OfEarlierDay(mtime["errors"][current])
      <3>1. mtime["errors"][current] \in Days
        BY <1>0, <2>1, FilesAre DEF DirTypes
      <3> QED
        BY <2>1, <3>1 DEF Stat, StepTo, Chooses, OfEarlierDay
    <2>2. CASE ~(current # NoFile /\ OfEarlierDay(mtime["errors"][current]))
      BY <2>2 DEF Stat, StepTo
    <2> QED
      BY <2>1, <2>2
  <1>3. PICK to \in Steps, c \in Logs \X Days :
            /\ step' = [step EXCEPT ![p] = to] /\ chosen' \in {chosen, [chosen EXCEPT ![p] = c]}
            /\ to \in Before
    <2>1. /\ "linking" \in Steps /\ "opening" \in Steps /\ <<"errors", today>> \in Logs \X Days
          /\ "linking" \in Before /\ "opening" \in Before
      BY <1>0 DEF Steps, DirTypes, Before
    <2> QED
      BY <1>0, <1>2, <2>1
  <1>4. /\ dated' \in [Logs -> [Days -> Nat \cup {NoFile}]]
        /\ \A l \in Logs, d \in Days : dated'[l][d] \in FilesOf(l)
    BY <1>1 DEF DirTypes
  <1>5. DirTypes'
    BY <1>1, <1>3, <1>4, TypesMoved
  <1> QED
    BY <1>1, <1>2, <1>5

LEMMA StatTypes ==
    ASSUME DirTypes, Numbers, NEW p \in Loggers, Stat(p)
    PROVE  /\ DirTypes' /\ OpensOwn(p)
           /\ mtime'["errors"] = mtime["errors"]
           /\ \A l \in Logs : DOMAIN mtime[l] \subseteq DOMAIN mtime'[l]
           /\ \/ /\ step' = [step EXCEPT ![p] = "linking"] /\ current # NoFile
                 /\ mtime["errors"][current] \in Days /\ mtime["errors"][current] < today
                 /\ chosen' = [chosen EXCEPT ![p] = <<"errors", mtime["errors"][current]>>]
              \/ step' = [step EXCEPT ![p] = "opening"] /\ chosen' = chosen
  <1>1. CASE p \in owners
    BY <1>1, OwnerStats
  <1>2. CASE p \notin owners
    BY <1>2, OtherStats
  <1> QED
    BY <1>1, <1>2

\* An error of a process of the component goes to both logs, one of another
\* process to the shared log only.
LEMMA OwnerLines ==
    ASSUME NEW p \in Loggers, p \in owners, LogError(p)
    PROVE  /\ UNCHANGED <<today, current, legacy, step, chosen>> /\ step[p] = "logging"
           /\ OpensOwn(p)
           /\ mtime' = [l \in Logs |-> LastWritten(l, handle'[p][l])]
           /\ written' = written \cup {LineIn(NextId, l, handle'[p][l], Doomed(l, handle'[p][l])) :
                                l \in Logs}
  BY DEF LogError, LogsOf, world

LEMMA OtherLines ==
    ASSUME DirTypes, NEW p \in Loggers, p \notin owners, LogError(p),
           NEW e, e = handle[p]["errors"]
    PROVE  /\ UNCHANGED <<today, current, legacy, step, chosen, dated, handle>>
           /\ step[p] = "logging" /\ e \in DOMAIN mtime["errors"]
           /\ e \in 1..(Len(mtime["errors"]) + 1)
           /\ mtime' = [mtime EXCEPT !["errors"] = LastWritten("errors", e)]
           /\ written' = written \cup {LineIn(NextId, "errors", e, Doomed("errors", e))}
  <1>1. /\ UNCHANGED <<today, current, legacy, step, chosen, dated, handle>>
        /\ step[p] = "logging" /\ LogsOf(p) = {"errors"}
    BY OthersOpenNone DEF LogError, LogsOf, world
  <1>2. /\ e \in DOMAIN mtime["errors"] /\ e \in 1..(Len(mtime["errors"]) + 1)
        /\ "errors" \in Logs
    <2>1. e # NoFile /\ e \in FilesOf("errors") /\ "errors" \in Logs
      BY <1>1 DEF DirTypes, Logs
    <2>2. /\ FilesOf("errors") = 1..Len(mtime["errors"]) \cup {NoFile}
          /\ DOMAIN mtime["errors"] = 1..Len(mtime["errors"]) /\ Len(mtime["errors"]) \in Nat
      BY FilesAre
    <2> QED
      BY <2>1, <2>2
  <1>3. mtime' = [mtime EXCEPT !["errors"] = LastWritten("errors", e)]
    <2>1. mtime' = [l \in Logs |-> IF l = "errors" THEN LastWritten(l, handle[p][l]) ELSE mtime[l]]
      BY <1>1 DEF LogError
    <2>2. mtime' = [l \in Logs |-> IF l = "errors" THEN LastWritten("errors", e) ELSE mtime[l]]
      BY <2>1
    <2> QED
      BY <1>2, <2>2 DEF DirTypes
  <1>4. written' = written \cup {LineIn(NextId, "errors", e, Doomed("errors", e))}
    BY <1>1 DEF LogError
  <1> QED
    BY <1>1, <1>2, <1>3, <1>4

LEMMA DirTypesStep ==
    ASSUME DirTypes, Numbers, NEW p \in Loggers, Unswept(p) \/ Sweeps(p),
           step[p] = "linking" => chosen[p][1] = "errors"
    PROVE  DirTypes'
  <1>0. /\ AfterMigration \in {"logging", "sweeping"}
        /\ "errors" \in Logs /\ "component" \in Logs /\ 0 \in Days
        /\ "starting" \in Steps /\ "unlinking" \in Steps /\ "opening" \in Steps
        /\ "migrating" \in Steps /\ "merging" \in Steps /\ "removing" \in Steps
        /\ "renaming" \in Steps /\ "logging" \in Steps
        /\ "sweeping" \in Steps /\ "deleting" \in Steps
        /\ Nothing \in Logs \X Days
        /\ \A l \in Logs : FilesOf(l) = (DOMAIN mtime[l]) \cup {NoFile}
        /\ FilesOf("errors")' = (DOMAIN mtime'["errors"]) \cup {NoFile}
        /\ FilesOf("component")' = (DOMAIN mtime'["component"]) \cup {NoFile}
    BY DEF AfterMigration, Logs, Steps, Nothing, Days, Numbers, FilesOf
  <1>1. CASE Stat(p)
    BY <1>1, StatTypes
  <1>2. CASE Link(p)
    <2>1. /\ UNCHANGED <<today, mtime, current, legacy, written, handle>>
          /\ chosen' = [chosen EXCEPT ![p] = Nothing] /\ step[p] = "linking"
          /\ chosen[p][1] \in Logs /\ chosen[p][2] \in Days
      BY <1>2 DEF Link, Chooses, world, DirTypes
    <2>2. PICK to \in {"unlinking", "opening"} : step' = [step EXCEPT ![p] = to]
      BY <1>2 DEF Link, StepTo, AfterFailedLink
    <2>3. dated' = dated \/ (current # NoFile
                             /\ dated' = [dated EXCEPT ![chosen[p][1]][chosen[p][2]] = current])
      BY <1>2 DEF Link, Names, CanLink
    <2>4. chosen[p][1] = "errors"
      BY <2>1
    <2>5. current \in DOMAIN mtime["errors"] \cup {NoFile} /\ current \in Nat \cup {NoFile}
      BY <1>0, FilesAre DEF DirTypes
    <2>6. /\ dated' \in [Logs -> [Days -> Nat \cup {NoFile}]]
          /\ \A l \in Logs, d \in Days : dated'[l][d] \in FilesOf(l)
      <3>1. CASE dated' = dated
        BY <3>1 DEF DirTypes
      <3>2. CASE dated' = [dated EXCEPT !["errors"][chosen[p][2]] = current]
        BY <1>0, <2>1, <2>5, <3>2, NameGiven DEF DirTypes
      <3> QED
        BY <2>3, <2>4, <3>1, <3>2
    <2>7. to \in Steps /\ to \in Before
      BY <1>0 DEF Before
    <2> QED
      BY <1>0, <2>1, <2>2, <2>6, <2>7, TypesMoved
  <1>3. CASE Unlink(p)
    <2>1. /\ UNCHANGED <<today, mtime, dated, legacy, written, handle, chosen>>
          /\ current' = NoFile /\ step' = [step EXCEPT ![p] = "opening"] /\ step[p] = "unlinking"
      BY <1>3 DEF Unlink, world, StepTo
    <2> QED
      BY <1>0, <2>1, TypesMoved DEF DirTypes, Before
  <1>4. CASE OpenErrorLog(p)
    <2> DEFINE f == Opened("errors", current)
    <2>1. /\ UNCHANGED <<today, dated, legacy, written, chosen>>
          /\ current' = f /\ handle' = [handle EXCEPT ![p]["errors"] = f]
          /\ mtime' = IF current = NoFile
                      THEN [mtime EXCEPT !["errors"] = LastWritten("errors", f)] ELSE mtime
      BY <1>4 DEF OpenErrorLog, world
    <2>2. PICK to \in {"migrating", "logging", "sweeping"} : step' = [step EXCEPT ![p] = to]
      BY <1>0, <1>4 DEF OpenErrorLog, StepTo
    <2>3. /\ f \in 1..(Len(mtime["errors"]) + 1) /\ f # NoFile
          /\ current # NoFile => f \in DOMAIN mtime["errors"]
      BY <1>0, OpenedIs, FilesAre DEF DirTypes
    <2> HIDE DEF f
    <2>4. /\ mtime' \in [Logs -> Seq(Days)]
          /\ \A l \in Logs : DOMAIN mtime[l] \subseteq DOMAIN mtime'[l]
          /\ f \in DOMAIN mtime'["errors"]
      <3>1. CASE current = NoFile
        <4>1. mtime' = [mtime EXCEPT !["errors"] = LastWritten("errors", f)]
          BY <2>1, <3>1
        <4> QED
          BY <1>0, <2>3, <4>1, FileWritten
      <3>2. CASE current # NoFile
        BY <2>1, <2>3, <3>2 DEF DirTypes
      <3> QED
        BY <3>1, <3>2
    <2>5. f \in Nat
      BY <1>0, <2>3, FilesAre
    <2>6. /\ handle' \in [Loggers -> [Logs -> Nat \cup {NoFile}]]
          /\ \A q \in Loggers, l \in Logs :
               handle'[q][l] = handle[q][l] \/ (q = p /\ l = "errors" /\ handle'[q][l] = f)
          /\ handle'[p]["errors"] = f
      BY <1>0, <2>1, <2>5 DEF DirTypes
    <2>7. \A q \in Loggers, l \in Logs :
               handle'[q][l] \in {handle[q][l], NoFile} \cup DOMAIN mtime'[l]
      BY <2>4, <2>6
    <2>8. \A q \in Loggers : handle'[q]["errors"] = NoFile =>
               handle[q]["errors"] = NoFile /\ q # p
      BY <1>0, <2>3, <2>6
    <2>9. current' \in FilesOf("errors")'
      BY <1>0, <2>1, <2>4
    <2>10. dated' \in [Logs -> [Days -> Nat \cup {NoFile}]]
      BY <2>1 DEF DirTypes
    <2>11. \A l \in Logs, d \in Days :
               dated'[l][d] \in {dated[l][d], NoFile} \cup DOMAIN mtime'[l]
      BY <2>1
    <2>12. /\ to \in Steps /\ legacy' \in {legacy, NoFile} /\ chosen' \in {chosen}
           /\ written' \ written = {} /\ UNCHANGED today
      BY <1>0, <2>1
    <2> HIDE <1>4
    <2>13. \A q \in Loggers : handle'[q]["errors"] = NoFile =>
               \/ q = p /\ to \in Before
               \/ handle[q]["errors"] = NoFile /\ (q = p => step[p] \notin Before)
      BY <2>8
    <2>14. /\ chosen' \in {chosen, [chosen EXCEPT ![p] = Nothing]}
           /\ Nothing \in Logs \X Days
           /\ \A l \in written' \ written :
                  l.log \in Logs /\ l.file \in DOMAIN mtime'[l.log] /\ IsLine(l)
      BY <1>0, <2>12
    <2> QED
      <3>1. /\ mtime' \in [Logs -> Seq(Days)]
            /\ \A l \in Logs : DOMAIN mtime[l] \subseteq DOMAIN mtime'[l]
        BY <2>4
      <3>2. /\ handle' \in [Loggers -> [Logs -> Nat \cup {NoFile}]]
            /\ to \in Steps /\ legacy' \in {legacy, NoFile} /\ UNCHANGED today
            /\ step' = [step EXCEPT ![p] = to]
        BY <2>2, <2>6, <2>12
      <3> QED
        BY <3>1, <3>2, <2>7, <2>9, <2>10, <2>11, <2>13, <2>14, TypesKept
  <1>5. CASE MigrationFinds(p)
    <2>1. UNCHANGED <<today, mtime, current, dated, legacy, written, handle, chosen>>
          /\ step[p] = "migrating"
      BY <1>5 DEF MigrationFinds, world, diskVars
    <2>2. PICK to \in {"merging", "renaming"} : step' = [step EXCEPT ![p] = to]
      BY <1>5 DEF MigrationFinds, StepTo
    <2> QED
      BY <1>0, <2>1, <2>2, TypesMoved DEF DirTypes, Before
  <1>6. CASE Merge(p)
    <2> DEFINE f == Opened("component", dated["component"][0])
    <2>1. /\ UNCHANGED <<today, current, legacy, handle, chosen>> /\ step[p] = "merging"
      BY <1>6 DEF Merge, world
    <2>2. PICK to \in {"removing", "logging", "sweeping"} : step' = [step EXCEPT ![p] = to]
      BY <1>0, <1>6 DEF Merge, StepTo
    <2>3. f \in 1..(Len(mtime["component"]) + 1) /\ f \in Nat
      <3>1. dated["component"][0] \in FilesOf("component")
        BY <1>0 DEF DirTypes
      <3> QED
        BY <1>0, <3>1, OpenedIs, FilesAre
    <2>4. \/ UNCHANGED <<dated, mtime, written>>
          \/ /\ dated' = [dated EXCEPT !["component"][0] = f]
             /\ mtime' = [mtime EXCEPT !["component"] = LastWritten("component", f)]
             /\ written' = Copied(f)
      BY <1>6 DEF Merge
    <2> HIDE DEF f
    <2>5. CASE UNCHANGED <<dated, mtime, written>>
      BY <1>0, <2>1, <2>2, <2>5, TypesKept, SMTT(30) DEF DirTypes, Before, FilesOf
    <2>6. CASE /\ dated' = [dated EXCEPT !["component"][0] = f]
               /\ mtime' = [mtime EXCEPT !["component"] = LastWritten("component", f)]
               /\ written' = Copied(f)
      <3>1. /\ mtime' \in [Logs -> Seq(Days)] /\ f \in DOMAIN mtime'["component"]
            /\ \A l \in Logs : DOMAIN mtime[l] \subseteq DOMAIN mtime'[l]
        BY <1>0, <2>3, <2>6, FileWritten
      <3>2. /\ dated' \in [Logs -> [Days -> Nat \cup {NoFile}]]
            /\ \A l \in Logs, d \in Days :
                   dated'[l][d] \in {dated[l][d], NoFile} \cup DOMAIN mtime'[l]
        <4>1. /\ dated' = [dated EXCEPT !["component"][0] = f] /\ f \in Nat \cup {NoFile}
              /\ "component" \in Logs /\ 0 \in Days
          BY <1>0, <2>3, <2>6
        <4>2. /\ dated' \in [Logs -> [Days -> Nat \cup {NoFile}]]
              /\ \A l \in Logs, d \in Days : dated'[l][d] =
                     IF l = "component" /\ d = 0 THEN f ELSE dated[l][d]
          BY <4>1, NameGiven, ZenonT(60)
        <4> QED
          BY <3>1, <4>2
      <3>3. \A l \in written' \ written :
              l.log \in Logs /\ l.file \in DOMAIN mtime'[l.log] /\ IsLine(l)
        BY <1>0, <2>6, <3>1, CopiesAre
      <3>4. /\ current' \in FilesOf("errors")' /\ to \in Steps /\ step[p] \notin Before
            /\ \A q \in Loggers, l \in Logs :
                   handle'[q][l] \in {handle[q][l], NoFile} \cup DOMAIN mtime'[l]
        <4>1. current \in (DOMAIN mtime["errors"]) \cup {NoFile}
          BY <1>0 DEF DirTypes
        <4>2. current' \in FilesOf("errors")'
          BY <1>0, <2>1, <3>1, <4>1
        <4>3. to \in Steps /\ step[p] \notin Before
          BY <1>0, <2>1 DEF Before
        <4> QED
          BY <2>1, <4>2, <4>3
      <3>5. /\ UNCHANGED today /\ step' = [step EXCEPT ![p] = to]
            /\ chosen' \in {chosen, [chosen EXCEPT ![p] = Nothing]} /\ Nothing \in Logs \X Days
            /\ legacy' \in {legacy, NoFile} /\ handle' \in [Loggers -> [Logs -> Nat \cup {NoFile}]]
        BY <1>0, <2>1, <2>2 DEF DirTypes
      <3>6. \A q \in Loggers : handle'[q]["errors"] = NoFile =>
               \/ q = p /\ to \in Before
               \/ handle[q]["errors"] = NoFile /\ (q = p => step[p] \notin Before)
        BY <2>1, <3>4
      <3> HIDE <1>6
      <3> QED
        BY <3>1, <3>2, <3>3, <3>4, <3>5, <3>6, TypesKept
    <2> QED
        BY <2>4, <2>5, <2>6
  <1>7. CASE RemoveLegacy(p)
    <2>1. UNCHANGED <<today, mtime, current, dated, written, handle, chosen>>
          /\ step[p] = "removing" /\ legacy' = NoFile /\ step' = [step EXCEPT ![p] = AfterMigration]
      BY <1>0, <1>7 DEF RemoveLegacy, world, StepTo
    <2> QED
      BY <1>0, <2>1, TypesMoved DEF DirTypes, Before
  <1>8. CASE Rename(p)
    <2>1. /\ UNCHANGED <<today, mtime, current, written, handle, chosen>>
          /\ step[p] = "renaming" /\ step' = [step EXCEPT ![p] = AfterMigration]
          /\ legacy' = NoFile
          /\ dated' = dated \/ (dated' = [dated EXCEPT !["component"][0] = legacy] /\ legacy # NoFile)
      BY <1>0, <1>8 DEF Rename, world, StepTo
    <2>2. legacy \in Nat \cup {NoFile} /\ legacy \in (DOMAIN mtime["component"]) \cup {NoFile}
      BY <1>0, FilesAre DEF DirTypes
    <2>3. /\ dated' \in [Logs -> [Days -> Nat \cup {NoFile}]]
          /\ \A l \in Logs, d \in Days : dated'[l][d] \in FilesOf(l)
      <3>1. CASE dated' = dated
        BY <3>1 DEF DirTypes
      <3>2. CASE dated' = [dated EXCEPT !["component"][0] = legacy]
        BY <1>0, <2>2, <3>2, NameGiven DEF DirTypes
      <3> QED
        BY <2>1, <3>1, <3>2
    <2>4. step[p] \notin Before
      BY <1>8 DEF Rename, Before
    <2>5. /\ chosen' \in {chosen, [chosen EXCEPT ![p] = Nothing]}
          /\ Nothing \in Logs \X Days /\ AfterMigration \in Steps
          /\ step' = [step EXCEPT ![p] = AfterMigration] /\ handle' = handle
          /\ UNCHANGED <<today, mtime, written>>
          /\ current' \in {current, NoFile} /\ legacy' \in {legacy, NoFile}
      BY <1>0, <2>1
    <2> QED
      BY <2>3, <2>4, <2>5, TypesMoved
  <1>9. CASE LogError(p) /\ p \in owners
    <2>1. /\ UNCHANGED <<today, current, legacy, step, chosen>> /\ step[p] = "logging"
          /\ OpensOwn(p)
          /\ mtime' = [l \in Logs |-> LastWritten(l, handle'[p][l])]
          /\ written' = written \cup {LineIn(NextId, l, handle'[p][l], Doomed(l, handle'[p][l])) :
                                l \in Logs}
      BY <1>9, OwnerLines
    <2> DEFINE own == OwnFile(p)
    <2>2. /\ handle'[p]["component"] = own /\ own \in 1..(Len(mtime["component"]) + 1)
          /\ handle'[p]["errors"] = handle[p]["errors"]
          /\ handle' \in [Loggers -> [Logs -> Nat \cup {NoFile}]]
          /\ dated' \in [Logs -> [Days -> Nat \cup {NoFile}]]
          /\ \A q \in Loggers \ {p} : handle'[q] = handle[q]
          /\ dated'["errors"] = dated["errors"]
          /\ dated'["component"][today] \in {dated["component"][today], own}
          /\ \A d \in Days : d # today => dated'["component"][d] = dated["component"][d]
      BY <1>9, <2>1, OwnOpens
    <2> HIDE DEF own
    <2>3. handle[p]["errors"] \in DOMAIN mtime["errors"] /\ handle[p]["errors"] \in 1..(Len(mtime["errors"]) + 1)
      <3>1. handle[p]["errors"] # NoFile /\ handle[p]["errors"] \in FilesOf("errors")
        BY <1>0, <2>1 DEF DirTypes
      <3>2. /\ FilesOf("errors") = 1..Len(mtime["errors"]) \cup {NoFile}
            /\ DOMAIN mtime["errors"] = 1..Len(mtime["errors"]) /\ Len(mtime["errors"]) \in Nat
        BY FilesAre
      <3> QED
        BY <3>1, <3>2
    <2>4. \A l \in Logs : /\ mtime'[l] \in Seq(Days)
                          /\ DOMAIN mtime'[l] = (DOMAIN mtime[l]) \cup {handle'[p][l]}
      <3>1. \A l \in Logs : handle'[p][l] \in 1..(Len(mtime[l]) + 1)
        BY <2>2, <2>3 DEF Logs
      <3>2. \A l \in Logs : mtime'[l] = LastWritten(l, handle'[p][l])
        BY <2>1
      <3> QED
        BY <3>1, <3>2, WrittenIs, ZenonT(60)
    <2>5. mtime' \in [Logs -> Seq(Days)]
      BY <2>1, <2>4
    <2>6. \A l \in written' \ written : /\ l.log \in Logs /\ IsLine(l)
                                        /\ l.file = handle'[p][l.log]
      BY <2>1, LineIsLine DEF LineIn
    <2>7. \A l \in Logs, d \in Days :
               dated'[l][d] \in {dated[l][d], NoFile} \cup DOMAIN mtime'[l]
      BY <2>2, <2>4 DEF Logs
    <2>8. \A q \in Loggers, l \in Logs :
               handle'[q][l] \in {handle[q][l], NoFile} \cup DOMAIN mtime'[l]
      BY <2>2, <2>4
    <2>9. \A q \in Loggers : handle'[q]["errors"] = handle[q]["errors"]
      BY <2>2
    <2>10. step' = [step EXCEPT ![p] = "logging"]
      BY <2>1 DEF DirTypes
    <2>11. current' \in FilesOf("errors")'
      <3>1. current \in (DOMAIN mtime["errors"]) \cup {NoFile}
        BY DEF DirTypes, FilesOf
      <3>2. current' = current /\ DOMAIN mtime["errors"] \subseteq DOMAIN mtime'["errors"]
        BY <1>0, <2>1, <2>4
      <3> QED
        BY <3>1, <3>2 DEF FilesOf
    <2>12. "logging" \in Steps /\ step[p] \notin Before
      BY <1>0, <2>1 DEF Before
    <2>13. \A l \in written' \ written :
              l.log \in Logs /\ l.file \in DOMAIN mtime'[l.log] /\ IsLine(l)
      BY <2>4, <2>6
    <2>14. \A l \in Logs : DOMAIN mtime[l] \subseteq DOMAIN mtime'[l]
      BY <2>4
    <2> HIDE <1>9
    <2>15. /\ chosen' \in {chosen, [chosen EXCEPT ![p] = Nothing]}
           /\ Nothing \in Logs \X Days /\ "logging" \in Steps
           /\ legacy' \in {legacy, NoFile} /\ UNCHANGED today
           /\ dated' \in [Logs -> [Days -> Nat \cup {NoFile}]]
           /\ handle' \in [Loggers -> [Logs -> Nat \cup {NoFile}]]
      BY <1>0, <2>1, <2>2
    <2>16. \A q \in Loggers : handle'[q]["errors"] = NoFile =>
               \/ q = p /\ "logging" \in Before
               \/ handle[q]["errors"] = NoFile /\ (q = p => step[p] \notin Before)
      BY <2>9, <2>12
    <2> QED
      BY <2>5, <2>7, <2>8, <2>10, <2>11, <2>13, <2>14, <2>15, <2>16, TypesKept
  <1>10. CASE Restart(p)
    <2>1. UNCHANGED <<today, mtime, current, dated, legacy, written>>
          /\ step' = [step EXCEPT ![p] = "starting"] /\ chosen' = [chosen EXCEPT ![p] = Nothing]
          /\ handle' = [handle EXCEPT ![p] = [l \in Logs |-> NoFile]]
      BY <1>10 DEF Restart, world, diskVars, StepTo, Chooses
    <2>2. dated' \in [Logs -> [Days -> Nat \cup {NoFile}]]
          /\ (\A l \in Logs, d \in Days : dated'[l][d] \in FilesOf(l))
          /\ "starting" \in Before
      BY <2>1 DEF DirTypes, Before
    <2> HIDE <1>10
    <2> QED
      BY <1>0, <2>1, <2>2, TypesMoved
  <1>11. CASE Sweeps(p)
    <2>1. UNCHANGED <<today, mtime, current, legacy, written, handle>> /\ step[p] \notin Before
      BY <1>11 DEF Sweeps, SweepFinds, Delete, SweepEnds, world, diskVars, Before
    <2>2. PICK to \in {"sweeping", "deleting", "logging"} : step' = [step EXCEPT ![p] = to]
      BY <1>11 DEF Sweeps, SweepFinds, Delete, SweepEnds, StepTo
    <2>3. PICK c \in Logs \X Days : chosen' \in {chosen, [chosen EXCEPT ![p] = c]}
      BY <1>0, <1>11 DEF Sweeps, SweepFinds, Delete, SweepEnds, Chooses
    <2>4. /\ dated' \in [Logs -> [Days -> Nat \cup {NoFile}]]
          /\ \A l \in Logs, d \in Days : dated'[l][d] \in FilesOf(l)
      <3>1. CASE dated' = dated
        BY <3>1 DEF DirTypes
      <3>2. CASE dated' # dated
        <4>1. /\ dated' = [dated EXCEPT ![chosen[p][1]][chosen[p][2]] = NoFile]
              /\ chosen[p][1] \in Logs /\ chosen[p][2] \in Days
          BY <1>11, <3>2 DEF Sweeps, SweepFinds, Delete, SweepEnds, Names, diskVars, DirTypes
        <4> QED
          BY <1>0, <4>1, NameGiven DEF DirTypes
      <3> QED
        BY <3>1, <3>2
    <2>5. to \in Steps /\ current' \in {current, NoFile} /\ legacy' \in {legacy, NoFile}
          /\ handle' = handle /\ UNCHANGED <<today, mtime, written>>
      BY <1>0, <2>1
    <2> HIDE <1>11
    <2> QED
      BY <2>1, <2>2, <2>3, <2>4, <2>5, TypesMoved
  <1>12. CASE LogError(p) /\ p \notin owners
    <2> DEFINE e == handle[p]["errors"]
    <2>1. /\ UNCHANGED <<today, current, legacy, step, chosen, dated, handle>>
          /\ step[p] = "logging" /\ e \in 1..(Len(mtime["errors"]) + 1)
          /\ mtime' = [mtime EXCEPT !["errors"] = LastWritten("errors", e)]
          /\ written' = written \cup {LineIn(NextId, "errors", e, Doomed("errors", e))}
      BY <1>12, OtherLines
    <2> HIDE DEF e
    <2>2. /\ mtime' \in [Logs -> Seq(Days)] /\ e \in DOMAIN mtime'["errors"]
          /\ \A l \in Logs : DOMAIN mtime[l] \subseteq DOMAIN mtime'[l]
      BY <1>0, <2>1, FileWritten
    <2>3. \A l \in written' \ written :
              l.log \in Logs /\ l.file \in DOMAIN mtime'[l.log] /\ IsLine(l)
      <3>1. \A l \in written' \ written : l.log = "errors" /\ l.file = e /\ IsLine(l)
        BY <2>1, LineIsLine DEF LineIn
      <3> QED
        BY <1>0, <2>2, <3>1
    <2>4. current' \in FilesOf("errors")'
      <3>1. current \in (DOMAIN mtime["errors"]) \cup {NoFile}
        BY DEF DirTypes, FilesOf
      <3> QED
        BY <1>0, <2>1, <2>2, <3>1
    <2>5. /\ step' = [step EXCEPT ![p] = "logging"] /\ "logging" \in Steps
          /\ step[p] \notin Before
          /\ dated' \in [Logs -> [Days -> Nat \cup {NoFile}]]
          /\ handle' \in [Loggers -> [Logs -> Nat \cup {NoFile}]]
      BY <1>0, <2>1 DEF DirTypes, Before
    <2>6. /\ \A l \in Logs, d \in Days :
                 dated'[l][d] \in {dated[l][d], NoFile} \cup DOMAIN mtime'[l]
          /\ \A q \in Loggers, l \in Logs :
                 handle'[q][l] \in {handle[q][l], NoFile} \cup DOMAIN mtime'[l]
          /\ \A q \in Loggers : handle'[q]["errors"] = NoFile =>
                 \/ q = p /\ "logging" \in Before
                 \/ handle[q]["errors"] = NoFile /\ (q = p => step[p] \notin Before)
      BY <2>1, <2>5
    <2>7. /\ UNCHANGED today /\ legacy' \in {legacy, NoFile}
          /\ chosen' \in {chosen, [chosen EXCEPT ![p] = Nothing]} /\ Nothing \in Logs \X Days
      BY <1>0, <2>1
    <2> HIDE <1>12
    <2> QED
      BY <2>2, <2>3, <2>4, <2>5, <2>6, <2>7, TypesKept
  <1> QED
    BY <1>1, <1>2, <1>3, <1>4, <1>5, <1>6, <1>7, <1>8, <1>9, <1>10, <1>11, <1>12 DEF Unswept

\* A shell hook writes to the shared log, under its name.
LEMMA HookAppendsTypes ==
    ASSUME DirTypes, Numbers, HookAppends
    PROVE  /\ DirTypes' /\ current' \in DOMAIN mtime'["errors"] /\ current' # NoFile
           /\ current # NoFile => current' = current
           /\ current = NoFile => current' \notin DOMAIN mtime["errors"]
           /\ mtime'["errors"][current'] = today
           /\ \A g \in DOMAIN mtime'["errors"] : g # current' => g \in DOMAIN mtime["errors"]
           /\ \A l \in Logs : DOMAIN mtime[l] \subseteq DOMAIN mtime'[l]
           /\ mtime'["component"] = mtime["component"]
           /\ written \subseteq written'
           /\ \A l \in written' \ written : l.log = "errors" /\ l.file = current'
  <1> DEFINE f == Opened("errors", current)
  <1>0. "errors" \in Logs /\ "component" \in Logs
    BY DEF Logs
  <1>1. /\ UNCHANGED <<retention, today, dated, legacy, step, chosen, handle>>
        /\ current' = f
        /\ mtime' = [mtime EXCEPT !["errors"] = LastWritten("errors", f)]
        /\ written' = written \cup {LineIn(NextId, "errors", f, Doomed("errors", f))}
    BY DEF HookAppends, world
  <1>2. /\ f \in 1..(Len(mtime["errors"]) + 1) /\ f # NoFile
        /\ current # NoFile => f = current
        /\ current = NoFile => f \notin DOMAIN mtime["errors"]
    BY <1>0, OpenedIs, FilesAre DEF DirTypes
  <1> HIDE DEF f
  <1>3. /\ mtime' \in [Logs -> Seq(Days)]
        /\ \A l \in Logs : DOMAIN mtime[l] \subseteq DOMAIN mtime'[l]
        /\ f \in DOMAIN mtime'["errors"] /\ mtime'["errors"][f] = today
        /\ \A g \in DOMAIN mtime'["errors"] : g # f => g \in DOMAIN mtime["errors"]
        /\ mtime'["component"] = mtime["component"]
    <2>1. "component" \in Logs \ {"errors"}
      BY <1>0
    <2> QED
      BY <1>0, <1>1, <1>2, <2>1, FileWritten
  <1>4. \A l \in written' \ written : l.log = "errors" /\ l.file = f /\ IsLine(l)
    BY <1>1, LineIsLine DEF LineIn
  <1>5. \A l \in Logs : FilesOf(l) \subseteq FilesOf(l)'
    BY <1>3 DEF FilesOf
  <1>6. f \in FilesOf("errors")' /\ legacy' \in FilesOf("component")'
    BY <1>0, <1>1, <1>3, <1>5 DEF FilesOf, DirTypes
  <1>7. \A l \in Logs, d \in Days : dated'[l][d] \in FilesOf(l)'
    BY <1>1, <1>5 DEF DirTypes
  <1>8. \A q \in Loggers, l \in Logs : handle'[q][l] \in FilesOf(l)'
    BY <1>1, <1>5 DEF DirTypes
  <1>9. \A l \in written' : l.log \in Logs /\ l.file \in DOMAIN mtime'[l.log] /\ IsLine(l)
    BY <1>0, <1>3, <1>4 DEF DirTypes
  <1>10. DirTypes'
    <2>1. /\ today' \in Days /\ dated' \in [Logs -> [Days -> Nat \cup {NoFile}]]
          /\ step' \in [Loggers -> Steps] /\ chosen' \in [Loggers -> Logs \X Days]
          /\ handle' \in [Loggers -> [Logs -> Nat \cup {NoFile}]]
          /\ \A p \in Loggers :
                step'[p] \notin {"starting", "linking", "unlinking", "opening"} =>
                   handle'[p]["errors"] # NoFile
      BY <1>1 DEF DirTypes
    <2> QED
      BY <1>1, <1>3, <1>6, <1>7, <1>8, <1>9, <2>1 DEF DirTypes
  <1> QED
    BY <1>1, <1>2, <1>3, <1>4, <1>10

LEMMA NewDayTypes ==
    ASSUME DirTypes, Numbers, NewDay
    PROVE  /\ DirTypes' /\ today' \in Days /\ today' = today + 1 /\ today \in Nat
           /\ UNCHANGED <<mtime, current, dated, legacy, written, step, chosen>>
           /\ \A p \in Loggers : handle'[p]["component"] = NoFile
           /\ heldUp # NoFile => heldUp' = heldUp
           /\ heldUp' # NoFile /\ heldUp = NoFile => heldUp' = Len(mtime["errors"])
           /\ heldUp' = NoFile => \A p \in Loggers : step[p] \notin {"linking", "unlinking"}
  <1>0. "errors" \in Logs /\ "component" \in Logs
    BY DEF Logs
  <1>1. /\ UNCHANGED <<mtime, current, dated, legacy, written, step, chosen>>
        /\ today' = today + 1 /\ today < MaxDay /\ today \in Nat
        /\ heldUp' = IF heldUp = NoFile /\ Rotating # {} THEN Len(mtime["errors"]) ELSE heldUp
        /\ handle' = [p \in Loggers |-> [handle[p] EXCEPT !["component"] = NoFile]]
    BY DEF NewDay, diskVars, DirTypes, Days, Numbers
  <1>2. /\ handle' \in [Loggers -> [Logs -> Nat \cup {NoFile}]]
        /\ \A p \in Loggers : handle'[p]["component"] = NoFile
                              /\ handle'[p]["errors"] = handle[p]["errors"]
        /\ \A p \in Loggers, l \in Logs : handle'[p][l] \in {handle[p][l], NoFile}
    BY <1>0, <1>1 DEF DirTypes
  <1>3. today' \in Days
    BY <1>1 DEF Days, Numbers
  <1>4. \A p \in Loggers, l \in Logs : handle'[p][l] \in FilesOf(l)'
    BY <1>1, <1>2 DEF DirTypes, FilesOf
  <1>5. current' \in FilesOf("errors")' /\ legacy' \in FilesOf("component")'
        /\ \A l \in Logs, d \in Days : dated'[l][d] \in FilesOf(l)'
    BY <1>1 DEF DirTypes, FilesOf
  <1>6. \A l \in written' : l.log \in Logs /\ l.file \in DOMAIN mtime'[l.log] /\ IsLine(l)
    BY <1>1 DEF DirTypes
  <1>7. /\ mtime' \in [Logs -> Seq(Days)]
        /\ dated' \in [Logs -> [Days -> Nat \cup {NoFile}]]
        /\ step' \in [Loggers -> Steps] /\ chosen' \in [Loggers -> Logs \X Days]
        /\ \A p \in Loggers :
                step'[p] \notin {"starting", "linking", "unlinking", "opening"} =>
                   handle'[p]["errors"] # NoFile
    BY <1>1, <1>2 DEF DirTypes
  <1>8. DirTypes'
    BY <1>2, <1>3, <1>4, <1>5, <1>6, <1>7 DEF DirTypes
  <1>9. Len(mtime["errors"]) \in Nat
    BY FilesAre
  <1> QED
    BY <1>1, <1>2, <1>3, <1>8, <1>9 DEF Rotating, Numbers

-----------------------------------------------------------------------------
(* The shared log: rotation.                                               *)

\* A step that gives no file of the shared log another name, and brings nobody
\* to rotate.
LEMMA CalmStep ==
    ASSUME DirTypes, DirTypes', ErrorsNamed, OneRotation, NEW p \in Loggers, NEW to,
           UNCHANGED <<today, current, heldUp>>, heldUp = NoFile, dated'["errors"] = dated["errors"],
           DOMAIN mtime'["errors"] = DOMAIN mtime["errors"],
           \A g \in DOMAIN mtime["errors"] : mtime'["errors"][g] \in {mtime["errors"][g], today},
           step' = [step EXCEPT ![p] = to], to \notin {"linking", "unlinking"},
           \A q \in Loggers \ {p} : chosen'[q] = chosen[q]
    PROVE  ErrorsNamed' /\ OneRotation'
  <1>0. current # NoFile => current \in DOMAIN mtime["errors"]
    BY DEF DirTypes, FilesOf
  <1>1. ErrorsNamed'
    BY DEF ErrorsNamed, MadeAfterStall, Named, Days
  <1>2. \A q \in Loggers : step'[q] \in {"linking", "unlinking"} => q # p /\ step'[q] = step[q]
    BY DEF DirTypes
  <1>3. Ledgered(current) => Ledgered(current)'
    BY DEF Ledgered, Days
  <1>4. current # NoFile => mtime'["errors"][current] \in {mtime["errors"][current], today}
    BY <1>0
  <1>5. OneRotation'
    <2>1. \A q \in Loggers : step'[q] = "linking" =>
           /\ chosen'[q][1] = "errors"
           /\ current # NoFile => mtime'["errors"][current] \in {chosen'[q][2], today}
      BY <1>2, <1>4 DEF OneRotation
    <2>2. \A q, r \in Loggers : step'[q] = "linking" /\ step'[r] = "linking" => chosen'[q] = chosen'[r]
      BY <1>2 DEF OneRotation
    <2>3. \A q \in Loggers : step'[q] = "unlinking" =>
           /\ current # NoFile /\ Ledgered(current)'
           /\ \/ mtime'["errors"][current] = today
              \/ dated'["errors"][mtime'["errors"][current]] # NoFile
           /\ \A r \in Loggers :
                  /\ step'[r] = "unlinking" => r = q
                  /\ step'[r] = "linking" => dated'["errors"][chosen'[r][2]] # NoFile
      BY <1>2, <1>3, <1>4 DEF OneRotation
    <2> QED
      BY <2>1, <2>2, <2>3 DEF OneRotation
  <1> QED
    BY <1>1, <1>5

LEMMA RotationStep ==
    ASSUME DirTypes, DirTypes', Numbers, retention = 0, ErrorsNamed, OneRotation,
           heldUp = NoFile, NEW p \in Loggers, Unswept(p)
    PROVE  ErrorsNamed' /\ OneRotation'
  <1>0. /\ AfterMigration = "logging" /\ heldUp' = NoFile
        /\ "errors" \in Logs /\ "component" \in Logs /\ 0 \in Days
    BY DEF AfterMigration, Logs, Days, Numbers, Unswept, Stat, Link, Unlink, OpenErrorLog,
           MigrationFinds, Merge, RemoveLegacy, Rename, LogError, Restart, world
  <1>1. CASE Stat(p)
    <2>1. /\ UNCHANGED <<today, current>> /\ dated'["errors"] = dated["errors"]
          /\ mtime'["errors"] = mtime["errors"] /\ step[p] = "starting"
      BY <1>1, StatTypes, OpensNoErrors DEF Stat, world
    <2>2. CASE step' = [step EXCEPT ![p] = "opening"] /\ chosen' = chosen
      BY <1>0, <2>1, <2>2, CalmStep
    <2>3. CASE /\ step' = [step EXCEPT ![p] = "linking"] /\ current # NoFile
               /\ mtime["errors"][current] \in Days /\ mtime["errors"][current] < today
               /\ chosen' = [chosen EXCEPT ![p] = <<"errors", mtime["errors"][current]>>]
      <3> DEFINE day == mtime["errors"][current]
      <3>1. /\ chosen'[p] = <<"errors", day>> /\ step'[p] = "linking" /\ day # today
            /\ \A q \in Loggers : q # p => chosen'[q] = chosen[q] /\ step'[q] = step[q]
        BY <2>3 DEF DirTypes, Days
      <3>2. \A q \in Loggers : step[q] = "linking" => chosen[q] = <<"errors", day>>
        <4> TAKE q \in Loggers
        <4> HAVE step[q] = "linking"
        <4>1. chosen[q] \in Logs \X Days /\ chosen[q][1] = "errors" /\ chosen[q][2] = day
          BY <2>3, <3>1 DEF OneRotation, DirTypes
        <4> QED
          BY <4>1
      <3>3. ErrorsNamed'
        BY <2>1 DEF ErrorsNamed, MadeAfterStall, Named, Days
      <3>4. \A q \in Loggers : step'[q] = "unlinking" =>
                /\ q # p /\ step[q] = "unlinking" /\ Ledgered(current) /\ dated["errors"][day] # NoFile
                /\ \A r \in Loggers : step[r] = "unlinking" => r = q
        BY <2>3, <3>1 DEF OneRotation
      <3>5. \A q \in Loggers : step'[q] = "linking" => chosen'[q] = <<"errors", day>>
        BY <3>1, <3>2
      <3>6. Ledgered(current) => Ledgered(current)'
        BY <2>1 DEF Ledgered, Days
      <3> HIDE DEF day
      <3>7. \A q \in Loggers : step'[q] = "linking" =>
                chosen'[q][1] = "errors" /\ chosen'[q][2] = day
        BY <3>5
      <3>8. mtime'["errors"][current'] = day
        BY <2>1 DEF day
      <3> QED
        BY <2>1, <2>3, <3>1, <3>3, <3>4, <3>5, <3>6, <3>7, <3>8 DEF OneRotation
    <2> QED
      BY <1>1, <2>2, <2>3, StatTypes
  <1>2. CASE Link(p)
    <2> DEFINE day == chosen[p][2]
    <2>1. /\ UNCHANGED <<today, mtime, current>> /\ step[p] = "linking" /\ chosen[p][1] = "errors"
          /\ chosen' = [chosen EXCEPT ![p] = Nothing] /\ day \in Days
      BY <1>2 DEF Link, Chooses, world, DirTypes, OneRotation
    <2>2. CASE ~CanLink(p)
      <3>1. step' = [step EXCEPT ![p] = "opening"] /\ dated' = dated
        BY <1>2, <2>2 DEF Link, StepTo, AfterFailedLink
      <3>2. \A q \in Loggers \ {p} : chosen'[q] = chosen[q]
        BY <2>1 DEF DirTypes
      <3> QED
        BY <1>0, <2>1, <3>1, <3>2, CalmStep
    <2>3. CASE CanLink(p)
      <3>1. /\ step' = [step EXCEPT ![p] = "unlinking"] /\ current # NoFile
            /\ dated' = [dated EXCEPT !["errors"][day] = current] /\ dated["errors"][day] = NoFile
        BY <1>2, <2>1, <2>3 DEF Link, StepTo, CanLink, Chosen, Names
      <3>2. current \in Nat \cup {NoFile}
        BY <1>0, FilesAre, SMTT(30) DEF DirTypes
      <3>3. \A d \in Days : dated'["errors"][d] = IF d = day THEN current ELSE dated["errors"][d]
        BY <1>0, <2>1, <3>1, <3>2, NameGiven, ZenonT(60)
      <3>4. \A f : f # NoFile /\ Ledgered(f) => Ledgered(f)'
        BY <3>1, <3>3 DEF Ledgered, Days
      <3>5. \A f \in DOMAIN mtime["errors"] : f \in Nat /\ f # NoFile
        BY <1>0, FilesAre DEF Numbers
      <3>6. ErrorsNamed'
        <4> SUFFICES ASSUME NEW f \in DOMAIN mtime["errors"] PROVE Named("errors", f)'
          BY <2>1 DEF ErrorsNamed, MadeAfterStall
        <4>1. f = current \/ Ledgered(f)
          BY DEF ErrorsNamed, MadeAfterStall, Named, Ledgered
        <4> QED
          BY <2>1, <3>4, <3>5, <4>1 DEF Named, Ledgered
      <3>7. Ledgered(current)'
        BY <2>1, <3>3 DEF Ledgered, Days
      <3>8. \A q \in Loggers : q # p => step'[q] = step[q] /\ chosen'[q] = chosen[q]
        BY <2>1, <3>1 DEF DirTypes
      <3>9. step'[p] = "unlinking"
        BY <3>1 DEF DirTypes
      <3>10. \A q \in Loggers : step'[q] = "unlinking" => q = p
        BY <2>1, <3>1, <3>8 DEF OneRotation
      <3>11. mtime["errors"][current] \in {day, today}
        BY <2>1, <3>1 DEF OneRotation
      <3>12. \A q \in Loggers : step'[q] = "linking" => q # p /\ step[q] = "linking" /\ chosen'[q] = chosen[p]
        BY <2>1, <3>8, <3>9 DEF OneRotation
      <3>13. dated'["errors"][day] # NoFile
        BY <2>1, <3>1, <3>3
      <3> HIDE DEF day
      <3>14. \A q \in Loggers : step'[q] = "linking" =>
                 /\ chosen'[q][1] = "errors" /\ chosen'[q][2] = day /\ chosen'[q] = chosen[p]
        BY <2>1, <3>12 DEF day
      <3>15. mtime'["errors"][current'] = today' \/ dated'["errors"][mtime'["errors"][current']] # NoFile
        BY <2>1, <3>11, <3>13
      <3> QED
        BY <2>1, <3>1, <3>6, <3>7, <3>10, <3>11, <3>13, <3>14, <3>15 DEF OneRotation
    <2> QED
      BY <2>2, <2>3
  <1>3. CASE Unlink(p)
    <2>1. /\ UNCHANGED <<today, mtime, dated, chosen>> /\ current' = NoFile
          /\ step[p] = "unlinking" /\ step' = [step EXCEPT ![p] = "opening"]
      BY <1>3 DEF Unlink, world, StepTo
    <2>2. \A q \in Loggers : step'[q] # "unlinking" /\ (step'[q] = "linking" => step[q] = "linking")
      BY <2>1 DEF OneRotation, DirTypes
    <2>3. ErrorsNamed'
      BY <2>1 DEF ErrorsNamed, MadeAfterStall, OneRotation, Named, Ledgered, Days
    <2> QED
      BY <2>1, <2>2, <2>3 DEF OneRotation
  <1>4. CASE OpenErrorLog(p)
    <2> DEFINE f == Opened("errors", current)
    <2>1. /\ UNCHANGED <<today, dated, chosen>> /\ current' = f /\ step[p] = "opening"
          /\ mtime' = IF current = NoFile
                      THEN [mtime EXCEPT !["errors"] = LastWritten("errors", f)] ELSE mtime
      BY <1>4 DEF OpenErrorLog, world
    <2>2. PICK to \in {"migrating", "logging"} : step' = [step EXCEPT ![p] = to]
      BY <1>0, <1>4 DEF OpenErrorLog, StepTo
    <2>3. /\ f \in 1..(Len(mtime["errors"]) + 1) /\ f # NoFile
          /\ current # NoFile => f = current
      BY <1>0, OpenedIs, FilesAre DEF DirTypes
    <2> HIDE DEF f
    <2>4. CASE current # NoFile
      <3>1. UNCHANGED <<today, current, dated, chosen, mtime>>
        BY <2>1, <2>3, <2>4
      <3> QED
        BY <1>0, <2>2, <3>1, CalmStep
    <2>5. CASE current = NoFile
      <3>1. mtime'["errors"][f] = today /\ \A g \in DOMAIN mtime'["errors"] : g # f => g \in DOMAIN mtime["errors"]
        <4>1. mtime' = [mtime EXCEPT !["errors"] = LastWritten("errors", f)]
          BY <2>1, <2>5
        <4>2. f \in 1..(Len(mtime["errors"]) + 1) /\ "errors" \in Logs
          BY <1>0, <2>3
        <4>3. mtime'["errors"][f] = today
          BY <4>1, <4>2, FileWritten
        <4>4. \A g \in DOMAIN mtime'["errors"] : g # f => g \in DOMAIN mtime["errors"]
          <5>1. mtime'["errors"] = LastWritten("errors", f)
            BY <4>1, <4>2 DEF DirTypes
          <5>2. DOMAIN LastWritten("errors", f) = (DOMAIN mtime["errors"]) \cup {f}
            BY <4>2, WrittenIs
          <5> QED
            BY <5>1, <5>2
        <4> QED
          BY <4>3, <4>4
      <3>2. \A g \in DOMAIN mtime["errors"] : g # NoFile
        BY <1>0, FilesAre DEF Numbers
      <3>3. ErrorsNamed'
        BY <2>1, <2>5, <3>1, <3>2 DEF ErrorsNamed, MadeAfterStall, Named, Days
      <3>4. \A q \in Loggers : step'[q] # "unlinking" /\ (step'[q] = "linking" => step[q] = "linking")
        BY <2>2, <2>5 DEF OneRotation, DirTypes
      <3> QED
        BY <2>1, <3>1, <3>3, <3>4 DEF OneRotation
    <2> QED
      BY <2>4, <2>5
  <1>5. CASE MigrationFinds(p)
    <2>1. UNCHANGED <<today, mtime, current, dated, chosen>>
      BY <1>5 DEF MigrationFinds, world, diskVars
    <2>2. PICK to \in {"merging", "renaming"} : step' = [step EXCEPT ![p] = to]
      BY <1>5 DEF MigrationFinds, StepTo
    <2> QED
      BY <1>0, <2>1, <2>2, CalmStep
  <1>6. CASE Merge(p)
    <2>1. UNCHANGED <<today, current, chosen>>
      BY <1>6 DEF Merge, world
    <2>2. PICK to \in {"removing", "logging"} : step' = [step EXCEPT ![p] = to]
      BY <1>0, <1>6 DEF Merge, StepTo
    <2>3. mtime'["errors"] = mtime["errors"] /\ dated'["errors"] = dated["errors"]
      BY <1>6 DEF Merge, DirTypes, Logs
    <2> QED
      BY <1>0, <2>1, <2>2, <2>3, CalmStep
  <1>7. CASE RemoveLegacy(p)
    <2>1. UNCHANGED <<today, mtime, current, dated, chosen>> /\ step' = [step EXCEPT ![p] = "logging"]
      BY <1>0, <1>7 DEF RemoveLegacy, world, StepTo
    <2> QED
      BY <1>0, <2>1, CalmStep
  <1>8. CASE Rename(p)
    <2>1. /\ UNCHANGED <<today, mtime, current, chosen>> /\ step' = [step EXCEPT ![p] = "logging"]
          /\ dated'["errors"] = dated["errors"]
      BY <1>0, <1>8 DEF Rename, world, StepTo, DirTypes
    <2>2. /\ UNCHANGED <<today, current>> /\ DOMAIN mtime'["errors"] = DOMAIN mtime["errors"]
          /\ \A g \in DOMAIN mtime["errors"] : mtime'["errors"][g] \in {mtime["errors"][g], today}
          /\ \A q \in Loggers \ {p} : chosen'[q] = chosen[q]
      BY <2>1
    <2>3. PICK to \in {"logging"} : step' = [step EXCEPT ![p] = to]
      BY <2>1
    <2>4. to \notin {"linking", "unlinking"} /\ dated'["errors"] = dated["errors"]
      BY <2>1
    <2> QED
      BY <1>0, <2>2, <2>3, <2>4, CalmStep
  <1>9. CASE LogError(p)
    <2> DEFINE e == handle[p]["errors"]
    <2>1. /\ UNCHANGED <<today, current, step, chosen>> /\ step[p] = "logging"
          /\ dated'["errors"] = dated["errors"] /\ e \in DOMAIN mtime["errors"]
          /\ mtime'["errors"] = LastWritten("errors", e)
      <3>1. CASE p \in owners
        <4>1. /\ UNCHANGED <<today, current, step, chosen>> /\ step[p] = "logging"
              /\ OpensOwn(p) /\ mtime'["errors"] = LastWritten("errors", handle'[p]["errors"])
          BY <1>0, <1>9, <3>1, OwnerLines
        <4>2. dated'["errors"] = dated["errors"] /\ handle'[p]["errors"] = e
          BY <4>1, OpensNoErrors
        <4>3. e # NoFile /\ e \in FilesOf("errors")
          BY <1>0, <4>1 DEF DirTypes
        <4> QED
          BY <4>1, <4>2, <4>3, FilesAre
      <3>2. CASE p \notin owners
        <4>1. /\ UNCHANGED <<today, current, step, chosen, dated>> /\ step[p] = "logging"
              /\ e \in DOMAIN mtime["errors"]
              /\ mtime' = [mtime EXCEPT !["errors"] = LastWritten("errors", e)]
          BY <1>9, <3>2, OtherLines
        <4> HIDE DEF e
        <4> QED
          BY <1>0, <4>1 DEF DirTypes
      <3> QED
        BY <3>1, <3>2
    <2> HIDE DEF e
    <2>2. e \in 1..(Len(mtime["errors"]) + 1)
      BY <2>1, FilesAre
    <2>3. /\ DOMAIN mtime'["errors"] = DOMAIN mtime["errors"]
          /\ \A g \in DOMAIN mtime["errors"] : mtime'["errors"][g] \in {mtime["errors"][g], today}
      <3>1. /\ DOMAIN LastWritten("errors", e) = (DOMAIN mtime["errors"]) \cup {e}
            /\ \A g \in DOMAIN mtime["errors"] : LastWritten("errors", e)[g] \in {mtime["errors"][g], today}
        BY <1>0, <2>2, WrittenIs
      <3> QED
        BY <2>1, <3>1
    <2>4. step' = [step EXCEPT ![p] = "logging"]
      BY <2>1 DEF DirTypes
    <2> QED
      BY <1>0, <2>1, <2>3, <2>4, CalmStep
  <1>10. CASE Restart(p)
    <2>1. /\ UNCHANGED <<today, mtime, current, dated>> /\ step' = [step EXCEPT ![p] = "starting"]
          /\ \A q \in Loggers \ {p} : chosen'[q] = chosen[q]
      BY <1>10 DEF Restart, world, diskVars, StepTo, Chooses, DirTypes
    <2> QED
      BY <1>0, <2>1, CalmStep
  <1> QED
    BY <1>1, <1>2, <1>3, <1>4, <1>5, <1>6, <1>7, <1>8, <1>9, <1>10 DEF Unswept

\* Nobody but a shell hook writes to a file that has come to the old one's name
\* since, and no day passes while a process rotates.
LEMMA RotationRests ==
    ASSUME DirTypes, DirTypes', Numbers, ErrorsNamed, OneRotation, heldUp' = NoFile,
           HookAppends \/ NewDay
    PROVE  ErrorsNamed' /\ OneRotation'
  <1>1. CASE HookAppends
    <2>1. UNCHANGED <<today, dated, step, chosen, heldUp>>
      BY <1>1 DEF HookAppends, world
    <2>2. /\ current' # NoFile /\ mtime'["errors"][current'] = today
          /\ current # NoFile => current' = current
          /\ \A g \in DOMAIN mtime'["errors"] : g # current' => g \in DOMAIN mtime["errors"]
      BY <1>1, HookAppendsTypes
    <2>3. \A g \in DOMAIN mtime["errors"] : g # NoFile
      BY FilesAre DEF Numbers
    <2>4. ErrorsNamed'
      BY <2>1, <2>2, <2>3 DEF ErrorsNamed, MadeAfterStall, Named, Days
    <2>5. OneRotation'
      BY <2>1, <2>2 DEF OneRotation, Ledgered, Days
    <2> QED
      BY <2>4, <2>5
  <1>2. CASE NewDay
    <2>1. /\ UNCHANGED <<mtime, current, dated, step>>
          /\ \A p \in Loggers : step[p] \notin {"linking", "unlinking"}
          /\ heldUp = NoFile
      BY <1>2, NewDayTypes
    <2> QED
      BY <2>1 DEF ErrorsNamed, MadeAfterStall, OneRotation, Named, Days
  <1> QED
    BY <1>1, <1>2

\* After a stall, a file that was there before is unlinked only when it has
\* another name.
LEMMA StalledStep ==
    ASSUME DirTypes, DirTypes', Numbers, ErrorsNamed, AfterStall, heldUp # NoFile,
           UNCHANGED heldUp, DOMAIN mtime["errors"] \subseteq DOMAIN mtime'["errors"],
           \A f \in DOMAIN mtime'["errors"] : f \in DOMAIN mtime["errors"] \/ f = current',
           \A d \in Days : dated["errors"][d] # NoFile => dated'["errors"][d] = dated["errors"][d],
           \/ current' = current
           \/ current = NoFile /\ current' \notin DOMAIN mtime["errors"]
           \/ current' = NoFile /\ \E p \in Loggers : step[p] = "unlinking",
           \A q \in Loggers : step'[q] = "unlinking" =>
               step[q] = "unlinking" \/ Ledgered(current)'
    PROVE  ErrorsNamed' /\ AfterStall'
  <1>0. "errors" \in Logs
    BY DEF Logs
  <1>1. /\ DOMAIN mtime["errors"] = 1..Len(mtime["errors"]) /\ Len(mtime["errors"]) \in Nat
        /\ DOMAIN mtime'["errors"] = 1..Len(mtime'["errors"]) /\ Len(mtime'["errors"]) \in Nat
    <2>1. mtime["errors"] \in Seq(Days) /\ mtime'["errors"] \in Seq(Days)
      BY <1>0 DEF DirTypes, Days, Logs
    <2> QED
      BY <2>1
  <1>2. /\ heldUp \in 0..Len(mtime["errors"]) /\ heldUp \in 0..Len(mtime'["errors"])
        /\ \A f \in DOMAIN mtime'["errors"] : f \notin DOMAIN mtime["errors"] => f > heldUp
    <2>1. Len(mtime["errors"]) <= Len(mtime'["errors"])
      <3>1. 1..Len(mtime["errors"]) \subseteq 1..Len(mtime'["errors"])
        BY <1>1
      <3> QED
        BY <1>1, <3>1
    <2> QED
      BY <1>1, <2>1 DEF AfterStall
  <1>3. /\ current \in (DOMAIN mtime["errors"]) \cup {NoFile}
        /\ current' \in (DOMAIN mtime'["errors"]) \cup {NoFile}
        /\ NoFile \notin DOMAIN mtime["errors"]
    BY <1>1 DEF DirTypes, FilesOf, Numbers
  <1>4. \A f : f # NoFile /\ Ledgered(f) => Ledgered(f)'
    BY DEF Ledgered, Days
  <1>5. ASSUME NEW f \in DOMAIN mtime'["errors"]
        PROVE  Named("errors", f)' \/ MadeAfterStall(f)'
    <2>1. CASE f \notin DOMAIN mtime["errors"]
      BY <1>2, <1>5, <2>1 DEF MadeAfterStall
    <2>2. CASE f \in DOMAIN mtime["errors"]
      <3>1. f # NoFile /\ (f = current \/ Ledgered(f) \/ MadeAfterStall(f))
        BY <1>3, <2>2 DEF ErrorsNamed, Named, Ledgered
      <3>2. Ledgered(f) => Named("errors", f)'
        BY <1>4, <3>1 DEF Ledgered, Named
      <3>3. CASE f = current /\ current' = current
        BY <3>3 DEF Named
      <3>4. CASE f = current /\ current' # current
        <4>1. MadeAfterStall(f) \/ Ledgered(f)
          BY <3>1, <3>4 DEF AfterStall
        <4> QED
          BY <3>2, <4>1 DEF MadeAfterStall
      <3> QED
        BY <3>1, <3>2, <3>3, <3>4 DEF MadeAfterStall
    <2> QED
      BY <2>1, <2>2
  <1>6. ASSUME NEW q \in Loggers, step'[q] = "unlinking"
        PROVE  current' = NoFile \/ MadeAfterStall(current)' \/ Ledgered(current)'
    <2>1. CASE current' = current
      <3>1. CASE step[q] = "unlinking"
        BY <1>4, <2>1, <3>1 DEF AfterStall, MadeAfterStall, Ledgered
      <3> QED
        BY <1>6, <3>1
    <2>2. CASE current' # current
      BY <1>2, <1>3, <2>2 DEF MadeAfterStall
    <2> QED
      BY <2>1, <2>2
  <1> QED
    BY <1>2, <1>5, <1>6 DEF ErrorsNamed, AfterStall

-----------------------------------------------------------------------------
(* The component's log: its own files, the migration, and the lines.       *)

\* The name of the old file's day goes to the old file.
Replaces ==
    /\ legacy # NoFile /\ legacy' = NoFile
    /\ dated["component"][0] \in replaced' /\ dated'["component"][0] = legacy

\* No other name of a file is taken or given to another.
NamesStay ==
    /\ replaced \subseteq replaced'
    /\ \A l \in Logs, d \in Days : dated[l][d] # NoFile =>
           dated'[l][d] = dated[l][d] \/ (l = "component" /\ d = 0 /\ Replaces)

\* A step that leaves the component's log alone, but for names that it gives
\* to the files of other logs, for handlers that are closed, and for a name that
\* the old file takes.
LEMMA OwnStep ==
    ASSUME DirTypes, DirTypes', OwnFiles, NEW p \in Loggers, NEW to,
           UNCHANGED <<today, owners>>, owners \subseteq Loggers,
           NamesStay, step' = [step EXCEPT ![p] = to],
           step[p] = "starting" => to = "starting",
           \A q \in Loggers : handle'[q]["component"] \in {handle[q]["component"], NoFile}
    PROVE  OwnFiles'
  <1>1. today \in Days /\ "component" \in Logs /\ (today = 0 => 0 \in Days)
    BY DEF DirTypes, Logs
  <1>2. \A q \in Loggers : step'[q] # "starting" => step[q] # "starting"
    BY DEF DirTypes
  <1>3. dated["component"][today] # NoFile =>
            /\ dated'["component"][today] # NoFile
            /\ \/ dated'["component"][today] = dated["component"][today]
               \/ dated["component"][today] \in replaced'
    BY <1>1 DEF NamesStay, Replaces
  <1>4. \A q \in Loggers : IsOpen(q)' =>
           \/ dated'["component"][today] = handle'[q]["component"]
           \/ handle'[q]["component"] \in replaced' /\ dated'["component"][today] # NoFile
    BY <1>3 DEF OwnFiles, NamesStay, IsOpen
  <1>5. \A q \in owners : step'[q] # "starting" /\ today = 0 => dated'["component"][0] # NoFile
    BY <1>2, <1>3 DEF OwnFiles
  <1> QED
    BY <1>4, <1>5 DEF OwnFiles

LEMMA NamesKept ==
    ASSUME DirTypes, Numbers, NothingSwept, NEW p \in Loggers, Unswept(p)
    PROVE  NamesStay /\ NoSweep'
  <1> USE DEF NothingSwept
  <1>0. /\ AfterMigration = "logging"
        /\ "errors" \in Logs /\ "component" \in Logs /\ 0 \in Days
    BY DEF AfterMigration, Logs, Days, Numbers
  <1>1. NamesStay
    <2>1. CASE Stat(p) \/ LogError(p)
      <3>1. OpensOwn(p) /\ UNCHANGED replaced
        BY <2>1 DEF Stat, LogError
      <3>2. CASE p \in owners
        <4>1. /\ dated["component"][today] # NoFile =>
                     dated'["component"][today] = dated["component"][today]
              /\ dated'["errors"] = dated["errors"]
              /\ \A d \in Days : d # today => dated'["component"][d] = dated["component"][d]
          BY <3>1, <3>2, OwnIs, OwnOpens
        <4> QED
          BY <3>1, <4>1 DEF NamesStay, Logs
      <3>3. CASE p \notin owners
        BY <3>1, <3>3, OthersOpenNone DEF NamesStay
      <3> QED
        BY <3>2, <3>3
    <2>2. CASE Link(p)
      <3>1. /\ chosen[p][1] \in Logs /\ chosen[p][2] \in Days /\ current \in Nat \cup {NoFile}
            /\ UNCHANGED replaced
        BY <1>0, <2>2, FilesAre DEF DirTypes, Link
      <3>2. CASE dated' = dated
        BY <3>1, <3>2 DEF NamesStay
      <3>3. CASE dated' # dated
        <4>1. dated' = [dated EXCEPT ![chosen[p][1]][chosen[p][2]] = current]
              /\ dated[chosen[p][1]][chosen[p][2]] = NoFile
          BY <2>2, <3>3 DEF Link, CanLink, Names, Chosen
        <4>2. \A l \in Logs, d \in Days : dated[l][d] # NoFile => dated'[l][d] = dated[l][d]
          BY <3>1, <4>1, NameGiven
        <4> QED
          BY <3>1, <4>2 DEF NamesStay
      <3> QED
        BY <3>2, <3>3
    <2>3. CASE Merge(p)
      <3> DEFINE f == Opened("component", dated["component"][0])
      <3>1. dated["component"][0] # NoFile /\ dated["component"][0] \in FilesOf("component")
        BY <1>0, <2>3 DEF DirTypes, Migration, Merge
      <3>2. f = dated["component"][0]
        BY <1>0, <3>1, OpenedIs
      <3>3. UNCHANGED replaced /\ (dated' = dated \/ dated' = [dated EXCEPT !["component"][0] = f])
        BY <2>3 DEF Merge
      <3> QED
        BY <1>0, <3>2, <3>3 DEF NamesStay, DirTypes
    <2>4. CASE Rename(p)
      <3>1. CASE legacy = NoFile
        BY <2>4, <3>1 DEF Rename, NamesStay
      <3>2. CASE legacy # NoFile
        <4>1. /\ legacy' = NoFile /\ dated' = [dated EXCEPT !["component"][0] = legacy]
              /\ step[p] = "renaming"
              /\ replaced' = IF p \in owners THEN replaced
                             ELSE replaced \cup ({dated["component"][0]} \ {NoFile})
          BY <2>4, <3>2 DEF Rename
        <4>2. legacy \in Nat \cup {NoFile}
          BY <1>0, FilesAre DEF DirTypes
        <4>3. \A l \in Logs, d \in Days :
                  dated'[l][d] = IF l = "component" /\ d = 0 THEN legacy ELSE dated[l][d]
          BY <1>0, <4>1, <4>2, NameGiven
        <4>4. dated["component"][0] # NoFile => Replaces
          BY <1>0, <3>2, <4>1, <4>3 DEF Migration, Replaces
        <4> QED
          BY <4>1, <4>3, <4>4 DEF NamesStay
      <3> QED
        BY <3>1, <3>2
    <2>5. CASE Unlink(p) \/ OpenErrorLog(p) \/ MigrationFinds(p) \/ RemoveLegacy(p) \/ Restart(p)
      <3>1. UNCHANGED <<dated, replaced>>
        BY <2>5 DEF Unlink, OpenErrorLog, MigrationFinds, RemoveLegacy, Restart, diskVars
      <3> QED
        BY <3>1 DEF NamesStay
    <2> QED
      BY <2>1, <2>2, <2>3, <2>4, <2>5 DEF Unswept
  <1>2. NoSweep'
    <2>1. \E to \in {"starting", "linking", "unlinking", "opening", "migrating", "merging",
                     "removing", "renaming", "logging"} : step' = [step EXCEPT ![p] = to]
      <3>1. CASE Stat(p)
        BY <3>1, StatTypes
      <3>2. CASE LogError(p)
        <4>1. step' = step /\ step[p] = "logging"
          BY <3>2 DEF LogError
        <4> QED
          BY <4>1 DEF DirTypes
      <3>3. CASE ~Stat(p) /\ ~LogError(p)
        BY <1>0, <3>3 DEF Unswept, Link, Unlink, OpenErrorLog, MigrationFinds,
              Merge, RemoveLegacy, Rename, Restart, StepTo, AfterFailedLink
      <3> QED
        BY <3>1, <3>2, <3>3
    <2> QED
      BY <2>1 DEF NoSweep, DirTypes
  <1> QED
    BY <1>1, <1>2

LEMMA OwnFilesStep ==
    ASSUME DirTypes, DirTypes', Numbers, NothingSwept, NEW p \in Loggers, Unswept(p)
    PROVE  OwnFiles'
  <1> USE DEF NothingSwept
  <1>0. /\ AfterMigration = "logging" /\ "component" \in Logs /\ 0 \in Days
        /\ today \in Days
    BY DEF AfterMigration, Logs, Days, Numbers, DirTypes
  <1>1. NamesStay
    BY NamesKept
  <1>2. CASE (Stat(p) \/ LogError(p)) /\ p \in owners
    <2>1. OpensOwn(p) /\ UNCHANGED <<today, owners, replaced, legacy>>
      BY <1>2 DEF Stat, LogError, world
    <2>2. \A q \in Loggers \ {p} : handle'[q] = handle[q]
      BY <1>2, <2>1, OwnOpens
    <2>3. /\ dated'["component"][today] # NoFile
          /\ \/ dated'["component"][today] = handle'[p]["component"]
             \/ handle'[p]["component"] \in replaced
      BY <1>2, <2>1, OwnIs, OwnOpens
    <2>4. dated["component"][today] # NoFile =>
              dated'["component"][today] = dated["component"][today]
      BY <1>2, <2>1, OwnIs
    <2>5. ASSUME NEW q \in Loggers, handle'[q]["component"] # NoFile
          PROVE  \/ dated'["component"][today] = handle'[q]["component"]
                 \/ handle'[q]["component"] \in replaced
      <3>1. CASE q = p
        BY <2>3, <3>1
      <3>2. CASE q # p
        <4>1. handle'[q] = handle[q]
          BY <2>2, <3>2
        <4>2. \/ dated["component"][today] = handle[q]["component"]
              \/ handle[q]["component"] \in replaced
          BY <2>5, <4>1 DEF OwnFiles, IsOpen
        <4> QED
          BY <2>4, <2>5, <4>1, <4>2
      <3> QED
        BY <3>1, <3>2
    <2> QED
      BY <2>1, <2>3, <2>5 DEF OwnFiles, IsOpen
  <1>4. CASE (Stat(p) \/ LogError(p)) /\ p \notin owners
    <2>1. OpensOwn(p) /\ UNCHANGED <<today, owners, replaced>>
      BY <1>4 DEF Stat, LogError, world
    <2>2. UNCHANGED <<dated, handle>>
      BY <1>4, <2>1, OthersOpenNone
    <2>3. \A q \in owners : step'[q] = step[q]
      <3>1. CASE Stat(p)
        <4>1. step' = [step EXCEPT ![p] = "linking"] \/ step' = [step EXCEPT ![p] = "opening"]
          BY <3>1, StatTypes
        <4> QED
          BY <1>4, <4>1 DEF DirTypes
      <3>2. CASE LogError(p)
        BY <3>2 DEF LogError
      <3> QED
        BY <1>4, <3>1, <3>2
    <2> QED
      BY <2>1, <2>2, <2>3 DEF OwnFiles, IsOpen
  <1>3. CASE ~Stat(p) /\ ~LogError(p)
    <2>1. UNCHANGED <<today, owners>>
      BY <1>3 DEF Unswept, Link, Unlink, OpenErrorLog, MigrationFinds,
              Merge, RemoveLegacy, Rename, Restart, world
    <2>2. \E to : step' = [step EXCEPT ![p] = to] /\ (step[p] = "starting" => to = "starting")
      BY <1>3 DEF Unswept, Link, Unlink, OpenErrorLog, MigrationFinds,
              Merge, RemoveLegacy, Rename, Restart, StepTo
    <2>3. \A q \in Loggers : handle'[q]["component"] \in {handle[q]["component"], NoFile}
      <3>1. CASE OpenErrorLog(p)
        BY <3>1 DEF OpenErrorLog, DirTypes
      <3>2. CASE Restart(p)
        BY <1>0, <3>2 DEF Restart, DirTypes
      <3>3. CASE ~OpenErrorLog(p) /\ ~Restart(p)
        BY <1>3, <3>3 DEF Unswept, Link, Unlink, MigrationFinds,
              Merge, RemoveLegacy, Rename
      <3> QED
        BY <3>1, <3>2, <3>3
    <2> QED
      BY <1>1, <2>1, <2>2, <2>3, OwnStep
  <1> QED
    BY <1>2, <1>3, <1>4

\* A step that neither migrates nor gives a file of the component's log a name
\* it did not have, nor writes to that log.
LEMMA MigrationRests ==
    ASSUME DirTypes, Migration, NEW p \in Loggers, NEW to,
           UNCHANGED <<legacy, replaced, owners>>, dated'["component"] = dated["component"],
           step' = [step EXCEPT ![p] = to], to \notin {"merging", "removing", "renaming"},
           written \subseteq written', \A l \in written' \ written : l.log # "component"
    PROVE  Migration'
  <1>1. \A q \in Loggers : step'[q] \in {"merging", "removing", "renaming"} => step'[q] = step[q]
    BY DEF DirTypes
  <1> QED
    BY <1>1 DEF Migration, Days

LEMMA MigrationStep ==
    ASSUME DirTypes, DirTypes', Numbers, NothingSwept, NEW p \in Loggers, Unswept(p)
    PROVE  Migration'
  <1> USE DEF NothingSwept
  <1>0. /\ AfterMigration = "logging" /\ "component" \in Logs /\ "errors" \in Logs
        /\ 0 \in Days /\ today \in Days
        /\ \A l \in written : l.log = "component" => l.file # NoFile
    <2>1. \A l \in written : l.log = "component" => l.file # NoFile
      BY FilesAre, SMTT(30) DEF DirTypes, Numbers
    <2> QED
      BY <2>1 DEF AfterMigration, Logs, Days, Numbers, DirTypes
  <1>1. NamesStay
    BY NamesKept
  <1>2. CASE (Stat(p) \/ LogError(p)) /\ p \in owners
    <2> DEFINE own == OwnFile(p)
    <2>1. OpensOwn(p) /\ UNCHANGED <<today, legacy, replaced, owners>>
      BY <1>2 DEF Stat, LogError, world
    <2>2. /\ own # NoFile /\ own # legacy /\ dated'["component"][today] \in {dated["component"][today], own}
          /\ \A d \in Days : d # today => dated'["component"][d] = dated["component"][d]
          /\ handle'[p]["component"] = own
      BY <1>2, <2>1, OwnIs, OwnOpens
    <2> HIDE DEF own
    <2>3. /\ written \subseteq written'
          /\ \A l \in written' \ written : l.log = "component" => l.file = own
      <3>1. CASE Stat(p)
        BY <3>1 DEF Stat
      <3>2. CASE LogError(p)
        BY <1>2, <2>2, <3>2, OwnerLines DEF LineIn
      <3> QED
        BY <1>2, <3>1, <3>2
    <2>4. \A q \in Loggers : step'[q] \in {"merging", "removing", "renaming"} => step'[q] = step[q]
      <3>1. CASE Stat(p)
        <4>1. step' = [step EXCEPT ![p] = "linking"] \/ step' = [step EXCEPT ![p] = "opening"]
          BY <3>1, StatTypes
        <4> QED
          BY <4>1 DEF DirTypes
      <3>2. CASE LogError(p)
        BY <3>2 DEF LogError
      <3> QED
        BY <1>2, <3>1, <3>2
    <2>5. legacy # NoFile => replaced = {} /\ \A d \in Days : dated'["component"][d] # legacy
      BY <1>0, <2>2 DEF Migration
    <2>6. ASSUME NEW q \in Loggers, step'[q] = "renaming", q \in owners, legacy # NoFile
          PROVE  dated'["component"][0] = NoFile
      <3>1. step[q] = "renaming" /\ dated["component"][0] = NoFile
        BY <2>4, <2>6 DEF Migration
      <3>2. today # 0
        BY <2>6, <3>1 DEF OwnFiles
      <3> QED
        BY <1>0, <2>2, <3>1, <3>2
    <2>7. ASSUME NEW q \in Loggers, step'[q] \in {"merging", "removing"}
          PROVE  dated["component"][0] # NoFile /\ dated'["component"][0] = dated["component"][0]
      BY <1>0, <1>1, <2>1, <2>4, <2>7 DEF Migration, NamesStay, Replaces
    <2>8. ASSUME NEW q \in Loggers, step'[q] = "removing", NEW l \in written',
                 l.log = "component", l.file = legacy
          PROVE  \E m \in written' : /\ m.id = l.id /\ m.log = "component"
                                     /\ m.file = dated'["component"][0]
      <3>1. l \in written /\ step[q] = "removing"
        BY <2>2, <2>3, <2>4, <2>8
      <3>2. dated'["component"][0] = dated["component"][0]
        BY <2>7, <2>8
      <3> QED
        BY <2>3, <2>8, <3>1, <3>2 DEF Migration
    <2> QED
      BY <2>1, <2>5, <2>6, <2>7, <2>8 DEF Migration, Days
  <1>7. CASE (Stat(p) \/ LogError(p)) /\ p \notin owners
    <2>1. OpensOwn(p) /\ UNCHANGED <<legacy, replaced, owners>>
      BY <1>7 DEF Stat, LogError, world
    <2>2. dated'["component"] = dated["component"]
      BY <1>7, <2>1, OthersOpenNone
    <2>3. CASE Stat(p)
      <3>1. step' = [step EXCEPT ![p] = "linking"] \/ step' = [step EXCEPT ![p] = "opening"]
        BY <2>3, StatTypes
      <3>2. written' = written
        BY <2>3 DEF Stat
      <3> QED
        BY <2>1, <2>2, <3>1, <3>2, MigrationRests
    <2>4. CASE LogError(p)
      <3>1. step' = [step EXCEPT ![p] = "logging"] /\ step' = step /\ step[p] = "logging"
        BY <2>4 DEF LogError, DirTypes
      <3>2. written \subseteq written' /\ \A l \in written' \ written : l.log # "component"
        BY <1>7, <2>4, OtherLines DEF LineIn
      <3> QED
        BY <2>1, <2>2, <3>1, <3>2, MigrationRests
    <2> QED
      BY <1>7, <2>3, <2>4
  <1>3. CASE Link(p) \/ Unlink(p) \/ OpenErrorLog(p) \/ Restart(p)
    <2>1. UNCHANGED <<legacy, written, replaced, owners>>
      BY <1>3 DEF Link, Unlink, OpenErrorLog, Restart, diskVars, world
    <2>2. \E to : step' = [step EXCEPT ![p] = to] /\ to \notin {"merging", "removing", "renaming"}
      BY <1>0, <1>3 DEF Link, Unlink, OpenErrorLog, Restart, StepTo, AfterFailedLink
    <2>3. dated'["component"] = dated["component"]
      <3>1. CASE Link(p)
        <4>1. chosen[p][1] = "errors"
          BY <3>1 DEF Link, Linkers
        <4>2. dated' = dated \/ dated' = [dated EXCEPT !["errors"][chosen[p][2]] = current]
          BY <3>1, <4>1 DEF Link, Names
        <4> QED
          BY <1>0, <4>2 DEF DirTypes
      <3>2. CASE ~Link(p)
        BY <1>3, <3>2 DEF Unlink, OpenErrorLog, Restart, diskVars
      <3> QED
        BY <3>1, <3>2
    <2> QED
      BY <2>1, <2>2, <2>3, MigrationRests
  <1>4. CASE MigrationFinds(p)
    <2>1. UNCHANGED <<legacy, written, dated, replaced, owners>>
      BY <1>4 DEF MigrationFinds, diskVars, world
    <2>2. step' = [step EXCEPT ![p] = IF dated["component"][0] # NoFile THEN "merging" ELSE "renaming"]
      BY <1>4 DEF MigrationFinds, StepTo
    <2>3. \A q \in Loggers :
              /\ step'[q] = "renaming" => step[q] = "renaming" \/ dated["component"][0] = NoFile
              /\ step'[q] = "merging" => step[q] = "merging" \/ dated["component"][0] # NoFile
              /\ step'[q] = "removing" => step[q] = "removing"
      BY <2>2 DEF DirTypes
    <2> QED
      BY <2>1, <2>3 DEF Migration, Days
  <1>5. CASE Merge(p)
    <2> DEFINE f == dated["component"][0]
    <2>1. /\ UNCHANGED <<legacy, replaced, owners>>
          /\ f # NoFile /\ (legacy # NoFile => f # legacy)
      BY <1>0, <1>5 DEF Merge, Migration, world
    <2>2. Opened("component", f) = f
      BY <1>0, <2>1, OpenedIs DEF DirTypes
    <2>3. dated'["component"] = dated["component"]
      <3>1. dated' = dated \/ dated' = [dated EXCEPT !["component"][0] = f]
        BY <1>5, <2>2 DEF Merge
      <3>2. f \in Nat \cup {NoFile} /\ dated \in [Logs -> [Days -> Nat \cup {NoFile}]]
        BY <1>0 DEF DirTypes
      <3>3. dated["component"][0] = f
        OBVIOUS
      <3> HIDE DEF f
      <3> QED
        BY <1>0, <3>1, <3>2, <3>3
    <2>4. CASE legacy = NoFile
      <3>1. step' = [step EXCEPT ![p] = "logging"] /\ written' = written
        BY <1>0, <1>5, <2>4 DEF Merge, StepTo
      <3> QED
        BY <2>1, <2>3, <3>1, MigrationRests
    <2>5. CASE legacy # NoFile
      <3>1. step' = [step EXCEPT ![p] = "removing"] /\ written' = Copied(f)
        BY <1>5, <2>2, <2>5 DEF Merge, StepTo
      <3> HIDE DEF f
      <3>2. \A q \in Loggers :
                /\ step'[q] = "renaming" => step[q] = "renaming"
                /\ step'[q] = "merging" => step[q] = "merging"
        BY <3>1 DEF DirTypes
      <3>3. ASSUME NEW l \in written', l.log = "component", l.file = legacy
            PROVE  \E m \in written' : m.id = l.id /\ m.log = "component" /\ m.file = f
        <4>1. l \in written
          BY <2>1, <2>5, <3>1, <3>3, CopiesAre
        <4> QED
          BY <3>1, <3>3, <4>1, CopiesAre
      <3> QED
        BY <2>1, <2>3, <3>2, <3>3 DEF Migration, Days, f
    <2> QED
      BY <2>4, <2>5
  <1>6. CASE RemoveLegacy(p) \/ Rename(p)
    <2>1. legacy' = NoFile /\ written' = written /\ step' = [step EXCEPT ![p] = "logging"]
      BY <1>0, <1>6 DEF RemoveLegacy, Rename, StepTo
    <2>2. \A q \in Loggers : step'[q] \in {"merging", "removing"} => step[q] \in {"merging", "removing"}
      BY <2>1 DEF DirTypes
    <2>3. \A q \in Loggers : step'[q] \in {"merging", "removing"} => dated'["component"][0] # NoFile
      BY <1>0, <1>1, <2>2 DEF Migration, NamesStay, Replaces
    <2> QED
      BY <1>0, <2>1, <2>3 DEF Migration
  <1> QED
    BY <1>2, <1>3, <1>4, <1>5, <1>6, <1>7 DEF Unswept

\* Who links, and what becomes of the shared log once a process was held up.
LEMMA LinkersStep ==
    ASSUME DirTypes, Numbers, Linkers, NEW p \in Loggers, Unswept(p)
    PROVE  Linkers'
  <1>1. CASE Stat(p)
    <2>1. CASE step' = [step EXCEPT ![p] = "opening"] /\ chosen' = chosen
      BY <2>1 DEF Linkers, DirTypes
    <2>2. CASE /\ step' = [step EXCEPT ![p] = "linking"]
               /\ chosen' = [chosen EXCEPT ![p] = <<"errors", mtime["errors"][current]>>]
      BY <2>2 DEF Linkers, DirTypes
    <2> QED
      BY <1>1, <2>1, <2>2, StatTypes
  <1>2. CASE LogError(p)
    BY <1>2 DEF LogError, Linkers
  <1>3. CASE ~Stat(p) /\ ~LogError(p)
    <2>1. \E to : step' = [step EXCEPT ![p] = to] /\ to # "linking"
      BY <1>3 DEF Unswept, Link, Unlink, OpenErrorLog, MigrationFinds, Merge, RemoveLegacy,
                  Rename, Restart, StepTo, AfterFailedLink, AfterMigration
    <2>2. \E c : chosen' \in {chosen, [chosen EXCEPT ![p] = c]}
      BY <1>3 DEF Unswept, Link, Unlink, OpenErrorLog, MigrationFinds, Merge, RemoveLegacy,
                  Rename, Restart, Chooses
    <2> QED
      BY <2>1, <2>2 DEF Linkers, DirTypes
  <1> QED
    BY <1>1, <1>2, <1>3

LEMMA StalledActs ==
    ASSUME DirTypes, DirTypes', Numbers, NothingSwept, heldUp # NoFile,
           NEW p \in Loggers, Unswept(p)
    PROVE  ErrorsNamed' /\ AfterStall'
  <1> USE DEF NothingSwept
  <1>0. "errors" \in Logs /\ current \in FilesOf("errors")
    BY DEF Logs, DirTypes
  <1>1. heldUp' = heldUp
    BY DEF Unswept, Stat, Link, Unlink, OpenErrorLog, MigrationFinds, Merge, RemoveLegacy,
           Rename, LogError, Restart, world
  <1>2. \A d \in Days : dated["errors"][d] # NoFile => dated'["errors"][d] = dated["errors"][d]
    BY <1>0, NamesKept DEF NamesStay
  <1>3. /\ DOMAIN mtime["errors"] \subseteq DOMAIN mtime'["errors"]
        /\ \A f \in DOMAIN mtime'["errors"] : f \in DOMAIN mtime["errors"] \/ f = current'
        /\ \/ current' = current
           \/ current = NoFile /\ current' \notin DOMAIN mtime["errors"]
           \/ current' = NoFile /\ \E q \in Loggers : step[q] = "unlinking"
    <2>1. CASE Stat(p)
      BY <2>1, StatTypes DEF Stat
    <2>2. CASE OpenErrorLog(p)
      <3> DEFINE f == Opened("errors", current)
      <3>1. /\ current' = f
            /\ current # NoFile => mtime' = mtime
            /\ current = NoFile => mtime' = [mtime EXCEPT !["errors"] = LastWritten("errors", f)]
        BY <2>2 DEF OpenErrorLog
      <3>2. /\ f \in 1..(Len(mtime["errors"]) + 1)
            /\ current # NoFile => f = current
            /\ current = NoFile => f \notin DOMAIN mtime["errors"]
        BY <1>0, OpenedIs, FilesAre
      <3> HIDE DEF f
      <3>3. CASE current # NoFile
        BY <3>1, <3>2, <3>3
      <3>4. CASE current = NoFile
        <4>1. mtime' = [mtime EXCEPT !["errors"] = LastWritten("errors", f)]
          BY <3>1, <3>4
        <4>2. /\ DOMAIN mtime["errors"] \subseteq DOMAIN mtime'["errors"]
              /\ \A g \in DOMAIN mtime'["errors"] : g # f => g \in DOMAIN mtime["errors"]
          BY <1>0, <3>2, <4>1, FileWritten
        <4> QED
          BY <3>1, <3>2, <3>4, <4>2
      <3> QED
        BY <3>3, <3>4
    <2>3. CASE Merge(p)
      <3>1. current' = current /\ mtime'["errors"] = mtime["errors"]
        BY <2>3 DEF Merge, DirTypes, Logs
      <3> QED
        BY <3>1
    <2>4. CASE LogError(p)
      <3>1. CASE p \in owners
        <4>1. /\ current' = current /\ OpensOwn(p) /\ step[p] = "logging"
              /\ mtime'["errors"] = LastWritten("errors", handle'[p]["errors"])
          BY <1>0, <2>4, <3>1, OwnerLines
        <4>2. handle'[p]["errors"] = handle[p]["errors"]
          BY <4>1, OpensNoErrors
        <4>3. /\ handle[p]["errors"] \in DOMAIN mtime["errors"]
              /\ handle[p]["errors"] \in 1..(Len(mtime["errors"]) + 1)
          <5>1. handle[p]["errors"] # NoFile /\ handle[p]["errors"] \in FilesOf("errors")
            BY <1>0, <4>1 DEF DirTypes
          <5> QED
            BY <5>1, FilesAre
        <4>4. DOMAIN mtime'["errors"] = DOMAIN mtime["errors"]
          <5>1. DOMAIN LastWritten("errors", handle[p]["errors"]) =
                    (DOMAIN mtime["errors"]) \cup {handle[p]["errors"]}
            BY <1>0, <4>3, WrittenIs
          <5> QED
            BY <4>1, <4>2, <4>3, <5>1
        <4> QED
          BY <4>1, <4>4
      <3>2. CASE p \notin owners
        <4> DEFINE e == handle[p]["errors"]
        <4>1. /\ current' = current /\ e \in DOMAIN mtime["errors"]
              /\ e \in 1..(Len(mtime["errors"]) + 1)
              /\ mtime' = [mtime EXCEPT !["errors"] = LastWritten("errors", e)]
          BY <2>4, <3>2, OtherLines
        <4> HIDE DEF e
        <4>2. /\ DOMAIN mtime["errors"] \subseteq DOMAIN mtime'["errors"]
              /\ \A g \in DOMAIN mtime'["errors"] : g # e => g \in DOMAIN mtime["errors"]
          BY <1>0, <4>1, FileWritten
        <4> QED
          BY <4>1, <4>2
      <3> QED
        BY <3>1, <3>2
    <2>5. CASE Unlink(p)
      BY <2>5 DEF Unlink
    <2>6. CASE Link(p) \/ MigrationFinds(p) \/ RemoveLegacy(p) \/ Rename(p) \/ Restart(p)
      BY <2>6 DEF Link, MigrationFinds, RemoveLegacy, Rename, Restart, diskVars
    <2> QED
      BY <2>1, <2>2, <2>3, <2>4, <2>5, <2>6 DEF Unswept
  <1>4. ASSUME NEW q \in Loggers, step'[q] = "unlinking"
        PROVE  step[q] = "unlinking" \/ Ledgered(current)'
    <2>1. CASE Link(p) /\ CanLink(p)
      <3>1. /\ chosen[p][1] = "errors" /\ chosen[p][2] \in Days /\ current' = current
            /\ dated' = [dated EXCEPT !["errors"][chosen[p][2]] = current]
        BY <2>1 DEF Link, Names, Linkers, DirTypes
      <3>2. dated'["errors"][chosen[p][2]] = current'
        BY <1>0, <3>1 DEF DirTypes
      <3> QED
        BY <3>1, <3>2 DEF Ledgered, Days
    <2>2. CASE Stat(p)
      BY <1>4, <2>2, StatTypes DEF DirTypes
    <2>3. CASE LogError(p)
      BY <1>4, <2>3 DEF LogError
    <2>4. CASE ~(Link(p) /\ CanLink(p)) /\ ~Stat(p) /\ ~LogError(p)
      <3>1. \E to : step' = [step EXCEPT ![p] = to] /\ to # "unlinking"
        BY <2>4 DEF Unswept, Link, Unlink, OpenErrorLog, MigrationFinds, Merge, RemoveLegacy,
                    Rename, Restart, StepTo, AfterFailedLink, AfterMigration
      <3> QED
        BY <1>4, <3>1 DEF DirTypes
    <2> QED
      BY <2>1, <2>2, <2>3, <2>4
  <1> QED
    BY <1>1, <1>2, <1>3, <1>4, StalledStep

\* What is held under a name stays held.
LEMMA LinesStay ==
    ASSUME DirTypes, DirTypes', Numbers, ErrorsNamed', LinesHeld, NamesStay, UNCHANGED legacy,
           written \subseteq written',
           \A l \in written' \ written : l.log = "component" =>
               \/ l.file \in replaced
               \/ l.file # NoFile /\ \E d \in Days : dated'["component"][d] = l.file
    PROVE  LinesHeld'
  <1> SUFFICES ASSUME NEW l \in written' PROVE Held(l)' \/ MayBeLost(l)'
    BY DEF LinesHeld
  <1>0. "component" \in Logs /\ l.log \in {"errors", "component"} /\ replaced \subseteq replaced'
    BY DEF Logs, DirTypes, NamesStay
  <1>1. CASE l.log = "errors"
    <2>1. l.file \in DOMAIN mtime'["errors"]
      BY <1>1 DEF DirTypes
    <2>2. Named("errors", l.file)' \/ MadeAfterStall(l.file)'
      BY <2>1 DEF ErrorsNamed
    <2> QED
      BY <1>1, <2>2 DEF Held, MayBeLost
  <1>2. CASE l.log = "component" /\ l \notin written
    <2>1. Named(l.log, l.file)' \/ l.file \in replaced'
      BY <1>0, <1>2 DEF Named, Days
    <2> QED
      BY <1>2, <2>1 DEF Held, MayBeLost
  <1>3. CASE l.log = "component" /\ l \in written /\ Held(l)
    <2>1. PICK m \in written : m.id = l.id /\ m.log = l.log /\ Named("component", m.file)
      BY <1>3 DEF Held
    <2>2. m.file # NoFile
      <3>1. m.file \in DOMAIN mtime["component"]
        BY <1>3, <2>1 DEF DirTypes
      <3> QED
        BY <3>1, FilesAre DEF Numbers
    <2>3. Named("component", m.file)'
      BY <1>0, <2>1, <2>2 DEF Named, NamesStay, Replaces, Days
    <2> QED
      BY <1>3, <2>1, <2>3 DEF Held
  <1>4. CASE l.log = "component" /\ l \in written /\ ~Held(l)
    BY <1>0, <1>4 DEF LinesHeld, MayBeLost
  <1> QED
    BY <1>0, <1>1, <1>2, <1>3, <1>4

\* A file of the component's log that a process or a migration has just written
\* to is the one of a day, or one renamed over.
LEMMA NewLines ==
    ASSUME DirTypes, DirTypes', Numbers, NothingSwept, NEW p \in Loggers, Unswept(p)
    PROVE  /\ written \subseteq written'
           /\ \A l \in written' \ written : l.log = "component" =>
                  \/ l.file \in replaced
                  \/ l.file # NoFile /\ \E d \in Days : dated'["component"][d] = l.file
  <1> USE DEF NothingSwept
  <1>0. "component" \in Logs /\ "errors" \in Logs /\ 0 \in Days /\ today \in Days
    BY DEF Logs, Days, Numbers, DirTypes
  <1>1. CASE LogError(p) /\ p \in owners
    <2>1. /\ OpensOwn(p)
          /\ written' = written \cup {LineIn(NextId, l, handle'[p][l], Doomed(l, handle'[p][l])) :
                                l \in Logs}
      BY <1>1, OwnerLines
    <2>2. /\ handle'[p]["component"] # NoFile
          /\ \/ dated'["component"][today] = handle'[p]["component"]
             \/ handle'[p]["component"] \in replaced
      BY <1>1, <2>1, OwnIs, OwnOpens
    <2>3. \A l \in written' \ written : l.log = "component" => l.file = handle'[p]["component"]
      BY <2>1 DEF LineIn
    <2> QED
      BY <1>0, <2>1, <2>2, <2>3
  <1>2. CASE LogError(p) /\ p \notin owners
    BY <1>2, OtherLines DEF LineIn
  <1>3. CASE Merge(p)
    <2> DEFINE f == dated["component"][0]
    <2>1. UNCHANGED legacy /\ f # NoFile /\ dated'["component"][0] = f
      BY <1>0, <1>3, NamesKept DEF Merge, Migration, NamesStay, Replaces
    <2>2. Opened("component", f) = f
      BY <1>0, <2>1, OpenedIs DEF DirTypes
    <2>3. written' = written \/ written' = Copied(f)
      BY <1>3, <2>2 DEF Merge
    <2> HIDE DEF f
    <2>4. written \subseteq written' /\ \A l \in written' \ written : l.file = f
      BY <2>3, CopiesAre
    <2> QED
      BY <1>0, <2>1, <2>4
  <1>4. CASE ~LogError(p) /\ ~Merge(p)
    BY <1>4 DEF Unswept, Stat, Link, Unlink, OpenErrorLog, MigrationFinds, RemoveLegacy, Rename,
                Restart, diskVars
  <1> QED
    BY <1>1, <1>2, <1>3, <1>4

LEMMA InPlaceStep ==
    ASSUME DirTypes, DirTypes', Numbers, NothingSwept, Migration', NEW p \in Loggers, Unswept(p)
    PROVE  InPlace'
  <1> USE DEF NothingSwept
  <1> SUFFICES ASSUME legacy' # NoFile, NEW l \in written', l.log = "component"
               PROVE  Named("component", l.file)'
    BY DEF InPlace
  <1>0. "component" \in Logs
    BY DEF Logs
  <1>1. UNCHANGED legacy
    BY DEF Unswept, Stat, Link, Unlink, OpenErrorLog, MigrationFinds, Merge, RemoveLegacy, Rename,
           LogError, Restart, diskVars
  <1>2. CASE l \notin written
    <2>1. l.file \notin replaced
      BY <1>1 DEF Migration
    <2> QED
      BY <1>2, <2>1, NewLines DEF Named, Days
  <1>3. CASE l \in written
    <2>1. Named("component", l.file) /\ l.file # NoFile
      <3>1. l.file \in DOMAIN mtime["component"]
        BY <1>3 DEF DirTypes
      <3> QED
        BY <1>1, <1>3, <3>1, FilesAre DEF InPlace, Numbers
    <2> QED
      BY <1>0, <1>1, <2>1, NamesKept DEF Named, NamesStay, Replaces, Days
  <1> QED
    BY <1>2, <1>3

\* Where a file is migrated, its lines are held by the dated file from then on.
LEMMA LinesStep ==
    ASSUME DirTypes, DirTypes', Numbers, NothingSwept, ErrorsNamed', NEW p \in Loggers, Unswept(p)
    PROVE  LinesHeld'
  <1> USE DEF NothingSwept
  <1>0. "component" \in Logs /\ "errors" \in Logs /\ 0 \in Days /\ today \in Days
    BY DEF Logs, Days, Numbers, DirTypes
  <1>1. NamesStay
    BY NamesKept
  <1>2. CASE (RemoveLegacy(p) \/ Rename(p)) /\ legacy # NoFile
    <2>1. /\ legacy' = NoFile /\ UNCHANGED <<mtime, current, written>>
          /\ step[p] \in {"removing", "renaming"} /\ (RemoveLegacy(p) => dated' = dated)
          /\ Rename(p) => dated' = [dated EXCEPT !["component"][0] = legacy]
      BY <1>2 DEF RemoveLegacy, Rename
    <2> SUFFICES ASSUME NEW l \in written PROVE Held(l)' \/ MayBeLost(l)'
      BY <2>1 DEF LinesHeld
    <2>2. l.log \in {"errors", "component"}
      BY DEF DirTypes, Logs
    <2>3. CASE l.log = "errors"
      <3>1. l.file \in DOMAIN mtime'["errors"]
        BY <2>1, <2>3 DEF DirTypes
      <3>2. Named("errors", l.file)' \/ MadeAfterStall(l.file)'
        BY <3>1 DEF ErrorsNamed
      <3> QED
        BY <2>1, <2>3, <3>2 DEF Held, MayBeLost
    <2>4. CASE l.log = "component"
      <3>1. Named("component", l.file) /\ l.file # NoFile
        <4>1. l.file \in DOMAIN mtime["component"]
          BY <2>4 DEF DirTypes
        <4> QED
          BY <1>2, <2>4, <4>1, FilesAre DEF InPlace, Numbers
      <3>2. CASE l.file # legacy
        <4>1. PICK d \in Days : dated["component"][d] = l.file
          BY <3>1, <3>2 DEF Named
        <4>2. dated'["component"][d] = l.file \/ l.file \in replaced'
          BY <1>0, <1>1, <3>1, <4>1 DEF NamesStay, Replaces
        <4>3. Named("component", l.file)' \/ l.file \in replaced'
          BY <4>2 DEF Named, Days
        <4> QED
          BY <2>1, <2>4, <4>3 DEF Held, MayBeLost
      <3>3. CASE l.file = legacy /\ RemoveLegacy(p)
        <4>1. PICK n \in written : n.id = l.id /\ n.log = "component" /\ n.file = dated["component"][0]
          BY <2>4, <3>3 DEF RemoveLegacy, Migration
        <4>2. Named("component", n.file)'
          BY <1>0, <2>1, <3>3, <4>1 DEF Named, Days
        <4> QED
          BY <2>1, <2>4, <4>1, <4>2 DEF Held
      <3>4. CASE l.file = legacy /\ Rename(p)
        <4>1. dated'["component"][0] = l.file
          BY <1>0, <2>1, <3>4 DEF DirTypes
        <4>2. Named("component", l.file)'
          BY <1>0, <4>1 DEF Named, Days
        <4> QED
          BY <2>1, <2>4, <4>2 DEF Held
      <3> QED
        BY <1>2, <3>2, <3>3, <3>4
    <2> QED
      BY <2>2, <2>3, <2>4
  <1>3. CASE ~((RemoveLegacy(p) \/ Rename(p)) /\ legacy # NoFile)
    <2>1. UNCHANGED legacy
      BY <1>3 DEF Unswept, Stat, Link, Unlink, OpenErrorLog, MigrationFinds, Merge, RemoveLegacy,
                  Rename, LogError, Restart, diskVars
    <2> QED
      BY <1>1, <2>1, NewLines, LinesStay
  <1> QED
    BY <1>2, <1>3

\* A shell hook and midnight.
LEMMA OthersKeep ==
    ASSUME DirTypes, DirTypes', Numbers, NothingSwept, HookAppends \/ NewDay
    PROVE  NothingSwept'
  <1> USE DEF NothingSwept
  <1>0. "component" \in Logs /\ "errors" \in Logs /\ today \in Nat
    BY DEF Logs, DirTypes, Days
  <1>1. UNCHANGED <<retention, owners, replaced, dated, legacy, step, chosen>>
    BY DEF HookAppends, NewDay, world, diskVars
  <1>2. /\ written \subseteq written'
        /\ \A l \in written' \ written : l.log = "errors"
    <2>1. CASE HookAppends
      BY <2>1, HookAppendsTypes
    <2>2. CASE NewDay
      BY <2>2 DEF NewDay, diskVars
    <2> QED
      BY <2>1, <2>2
  <1>3. /\ ErrorsNamed'
        /\ heldUp' = NoFile => OneRotation'
        /\ heldUp' # NoFile => AfterStall'
    <2>1. CASE heldUp' = NoFile
      <3>1. heldUp = NoFile
        BY <2>1, NewDayTypes DEF HookAppends, world
      <3> QED
        BY <2>1, <3>1, RotationRests
    <2>2. CASE heldUp # NoFile
      <3>1. heldUp' = heldUp
        BY <2>2, NewDayTypes DEF HookAppends, world
      <3>2. CASE HookAppends
        <4>1. /\ DOMAIN mtime["errors"] \subseteq DOMAIN mtime'["errors"]
              /\ \A g \in DOMAIN mtime'["errors"] : g # current' => g \in DOMAIN mtime["errors"]
              /\ current # NoFile => current' = current
              /\ current = NoFile => current' \notin DOMAIN mtime["errors"]
          BY <1>0, <3>2, HookAppendsTypes
        <4> QED
          BY <1>1, <2>2, <3>1, <4>1, StalledStep
      <3>3. CASE NewDay
        <4>1. UNCHANGED <<mtime, current>>
          BY <3>3, NewDayTypes
        <4> QED
          BY <1>1, <2>2, <3>1, <4>1, StalledStep
      <3> QED
        BY <2>2, <3>1, <3>2, <3>3
    <2>3. CASE heldUp = NoFile /\ heldUp' # NoFile
      <3>1. NewDay
        BY <2>3 DEF HookAppends, world
      <3>2. UNCHANGED <<mtime, current>> /\ heldUp' = Len(mtime["errors"]) /\ heldUp' \in Nat
        BY <2>3, <3>1, NewDayTypes, FilesAre
      <3>3. AfterStall'
        BY <1>1, <2>3, <3>2 DEF AfterStall, OneRotation, Ledgered, Days
      <3>4. ErrorsNamed'
        BY <1>1, <2>3, <3>2 DEF ErrorsNamed, MadeAfterStall, Named, Days
      <3> QED
        BY <2>3, <3>3, <3>4
    <2> QED
      BY <2>1, <2>2, <2>3
  <1>4. OwnFiles'
    <2>1. CASE HookAppends
      <3>1. UNCHANGED <<today, handle>>
        BY <2>1 DEF HookAppends, world
      <3> QED
        BY <1>1, <3>1 DEF OwnFiles, IsOpen
    <2>2. CASE NewDay
      <3>1. today' # 0 /\ \A p \in Loggers : handle'[p]["component"] = NoFile
        BY <2>2, NewDayTypes
      <3> QED
        BY <3>1 DEF OwnFiles, IsOpen
    <2> QED
      BY <2>1, <2>2
  <1>5. Migration' /\ InPlace'
    <2>1. \A l \in written' : l.log = "component" => l \in written
      BY <1>2
    <2> QED
      BY <1>1, <1>2, <2>1 DEF Migration, InPlace, Named, Days
  <1>6. NoSweep' /\ Linkers'
    BY <1>1 DEF NoSweep, Linkers
  <1>7. NamesStay
    BY <1>1 DEF NamesStay
  <1>8. LinesHeld'
    BY <1>1, <1>2, <1>3, <1>7, LinesStay
  <1> QED
    BY <1>1, <1>3, <1>4, <1>5, <1>6, <1>8

ErrInv == retention = 0 => DirTypes /\ NothingSwept

\* The types hold at the start, and an old release has left its lines in one file.
LEMMA DirTypesInit ==
    ASSUME Numbers, LogInit
    PROVE  /\ DirTypes /\ DOMAIN mtime["errors"] = {}
           /\ \A l \in written : l.log = "component" /\ l.file = legacy
           /\ legacy # NoFile => legacy \in DOMAIN mtime["component"]
  <1>1. /\ today = 0 /\ 0 \in Days /\ current = NoFile /\ "component" \in Logs
        /\ dated = [l \in Logs |-> [d \in Days |-> NoFile]]
        /\ step = [p \in Loggers |-> "starting"]
        /\ chosen = [p \in Loggers |-> Nothing] /\ Nothing \in Logs \X Days
        /\ handle = [p \in Loggers |-> [l \in Logs |-> NoFile]]
    BY DEF LogInit, Numbers, Days, Logs, Nothing
  <1>2. /\ mtime \in [Logs -> Seq(Days)] /\ DOMAIN mtime["errors"] = {}
        /\ legacy \in (DOMAIN mtime["component"]) \cup {NoFile}
        /\ \A l \in written : /\ l.log = "component" /\ l.file = legacy /\ IsLine(l)
                              /\ l.file \in DOMAIN mtime["component"]
    <2>1. CASE /\ legacy = NoFile /\ written = {}
               /\ mtime = [errors |-> <<>>, component |-> <<>>]
      <3>1. mtime["errors"] = <<>> /\ mtime["component"] = <<>>
        BY <2>1
      <3>2. mtime \in [Logs -> Seq(Days)]
        <4>1. <<>> \in Seq(Days)
          OBVIOUS
        <4>2. DOMAIN mtime = Logs /\ mtime = [l \in Logs |-> mtime[l]]
          BY <2>1 DEF Logs
        <4> QED
          BY <3>1, <4>1, <4>2 DEF Logs
      <3> QED
        BY <2>1, <3>1, <3>2
    <2>2. CASE /\ legacy = 1 /\ written = {LineIn(0, "component", 1, FALSE)}
               /\ mtime = [errors |-> <<>>, component |-> <<0>>]
      <3>1. <<0>> \in Seq(Days) /\ DOMAIN <<0>> = {1}
        BY <1>1
      <3>2. mtime["errors"] = <<>> /\ mtime["component"] = <<0>>
        BY <2>2
      <3>3. mtime \in [Logs -> Seq(Days)]
        <4>1. <<>> \in Seq(Days)
          OBVIOUS
        <4>2. DOMAIN mtime = Logs /\ mtime = [l \in Logs |-> mtime[l]]
          BY <2>2 DEF Logs
        <4> QED
          BY <3>1, <3>2, <4>1, <4>2 DEF Logs
      <3>4. \A l \in written : l.log = "component" /\ l.file = 1 /\ IsLine(l)
        BY <2>2, LineIsLine DEF LineIn
      <3>5. legacy = 1 /\ DOMAIN mtime["errors"] = {} /\ DOMAIN mtime["component"] = {1}
        BY <2>2, <3>1, <3>2
      <3> QED
        BY <3>3, <3>4, <3>5
    <2> QED
      BY <2>1, <2>2 DEF LogInit
  <1>3. DirTypes
    BY <1>1, <1>2 DEF DirTypes, FilesOf, Steps
  <1> QED
    BY <1>2, <1>3

LEMMA ErrInit ==
    ASSUME Numbers, LogInit
    PROVE  ErrInv
  <1> SUFFICES ASSUME retention = 0 PROVE DirTypes /\ NothingSwept
    BY DEF ErrInv
  <1>1. /\ today = 0 /\ 0 \in Days
        /\ dated = [l \in Logs |-> [d \in Days |-> NoFile]] /\ "component" \in Logs
        /\ step = [p \in Loggers |-> "starting"]
        /\ handle = [p \in Loggers |-> [l \in Logs |-> NoFile]]
        /\ owners \subseteq Loggers /\ heldUp = NoFile /\ replaced = {}
    BY DEF LogInit, Numbers, Days, Logs
  <1>2. /\ DirTypes /\ DOMAIN mtime["errors"] = {}
        /\ \A l \in written : l.log = "component" /\ l.file = legacy
    BY DirTypesInit
  <1>3. ErrorsNamed /\ OneRotation /\ Linkers /\ OwnFiles /\ Migration /\ NoSweep
    <2>1. \A d \in Days : dated["component"][d] = NoFile
      BY <1>1
    <2> QED
      BY <1>1, <1>2, <2>1 DEF ErrorsNamed, OneRotation, Linkers, OwnFiles, Migration, NoSweep, IsOpen
  <1>4. LinesHeld /\ InPlace
    BY <1>2 DEF LinesHeld, InPlace, Held, Named
  <1> QED
    BY <1>1, <1>2, <1>3, <1>4 DEF NothingSwept

LEMMA ErrNext ==
    ASSUME Numbers, ErrInv, [LogNext]_logVars
    PROVE  ErrInv'
  <1> SUFFICES ASSUME retention' = 0 PROVE DirTypes' /\ NothingSwept'
    BY DEF ErrInv
  <1>1. UNCHANGED <<retention, owners>>
    BY DEF LogNext, logVars, world, Stat, Link, Unlink, OpenErrorLog,
           MigrationFinds, Merge, RemoveLegacy, Rename, SweepFinds,
           Delete, SweepEnds, LogError, Restart, HookAppends, NewDay
  <1>2. DirTypes /\ NothingSwept
    BY <1>1 DEF ErrInv
  <1>3. ASSUME NEW p \in Loggers, Unswept(p)
        PROVE  DirTypes' /\ NothingSwept'
    <2>1. DirTypes'
      BY <1>2, <1>3, DirTypesStep DEF NothingSwept, Linkers
    <2>2. heldUp' = heldUp
      BY <1>3 DEF Unswept, Stat, Link, Unlink, OpenErrorLog, MigrationFinds, Merge, RemoveLegacy,
                  Rename, LogError, Restart, world
    <2>3. /\ ErrorsNamed' /\ Linkers'
          /\ heldUp' = NoFile => OneRotation'
          /\ heldUp' # NoFile => AfterStall'
      <3>1. retention = 0 /\ ErrorsNamed /\ Linkers /\ (heldUp = NoFile => OneRotation)
        BY <1>2 DEF NothingSwept
      <3>2. CASE heldUp = NoFile
        BY <1>2, <1>3, <2>1, <2>2, <3>1, <3>2, RotationStep, LinkersStep
      <3>3. CASE heldUp # NoFile
        BY <1>2, <1>3, <2>1, <2>2, <3>1, <3>3, StalledActs, LinkersStep
      <3> QED
        BY <3>2, <3>3
    <2>4. OwnFiles' /\ Migration' /\ NoSweep'
      BY <1>2, <1>3, <2>1, OwnFilesStep, MigrationStep, NamesKept
    <2>5. LinesHeld' /\ InPlace'
      BY <1>2, <1>3, <2>1, <2>3, <2>4, LinesStep, InPlaceStep
    <2> QED
      BY <1>1, <1>2, <2>1, <2>3, <2>4, <2>5 DEF NothingSwept
  <1>4. ASSUME NEW p \in Loggers
        PROVE  ~SweepFinds(p) /\ ~Delete(p) /\ ~SweepEnds(p)
    BY <1>2 DEF NothingSwept, NoSweep, SweepFinds, Delete, SweepEnds
  <1>5. CASE HookAppends \/ NewDay
    BY <1>2, <1>5, HookAppendsTypes, NewDayTypes, OthersKeep
  <1>6. CASE UNCHANGED logVars
    <2>1. UNCHANGED <<retention, owners, today, heldUp, mtime, current, dated, legacy, written,
                      replaced, step, chosen, handle>>
      BY <1>6 DEF logVars, world, diskVars
    <2>2. DirTypes'
      BY <1>2, <2>1 DEF DirTypes, FilesOf
    <2>3. /\ ErrorsNamed' /\ Linkers'
          /\ heldUp' = NoFile => OneRotation'
          /\ heldUp' # NoFile => AfterStall'
      BY <1>2, <2>1 DEF NothingSwept, ErrorsNamed, MadeAfterStall, Linkers, OneRotation, AfterStall,
                        Ledgered, Named
    <2>4. OwnFiles' /\ Migration' /\ NoSweep'
      BY <1>2, <2>1 DEF NothingSwept, OwnFiles, Migration, NoSweep, IsOpen
    <2>5. LinesHeld' /\ InPlace'
      BY <1>2, <2>1 DEF NothingSwept, LinesHeld, MayBeLost, MadeAfterStall, InPlace, Held, Named
    <2> QED
      BY <1>1, <1>2, <2>2, <2>3, <2>4, <2>5 DEF NothingSwept
  <1> QED
    BY <1>3, <1>4, <1>5, <1>6 DEF LogNext, Unswept

\* NoLineLost: with no retention set, every line that a process or a shell hook
\* has logged stays readable under a name of its log, however many processes of
\* however many components rotate, migrate, log, are held up, killed and start
\* again at once; but for a line in a hook-errors.log made after a process was
\* held up into the next day while it rotated, and for one in a file that a
\* process of another component has renamed the old release's file over.
THEOREM NoLineIsLost == LogSpec => []NoLineLost
  <1>0. Numbers
    BY ErrorLogAssumption DEF Numbers
  <1>1. LogInit => ErrInv
    BY <1>0, ErrInit
  <1>2. ErrInv /\ [LogNext]_logVars => ErrInv'
    BY <1>0, ErrNext
  <1>3. ErrInv => NoLineLost
    BY DEF ErrInv, NothingSwept, LinesHeld, Held, MayBeLost, NoLineLost
  <1> QED
    BY <1>1, <1>2, <1>3, PTL DEF LogSpec

-----------------------------------------------------------------------------
(* The sweep.  Of the component's log, a file has in its name the day of   *)
(* its last line, so a name that is old enough is enough.  Of the shared   *)
(* log, a sweep trusts the time it has read, and it is the name that may   *)
(* have gone to another file meanwhile.                                    *)

\* Nobody sweeps without a retention.
Retained ==
    /\ retention \in Nat
    /\ \A p \in Loggers : step[p] \in {"sweeping", "deleting"} => retention > 0
    /\ looked \in [Loggers -> Nat \cup {NoFile}]

\* No line of the shared log is later than the last one of its file.
FileTimes ==
    /\ \A l \in Logs : \A f \in DOMAIN mtime[l] : mtime[l][f] <= today
    /\ \A l \in written : l.log = "errors" => l.day \in Nat /\ l.day <= mtime["errors"][l.file]

SweepsAt(p, log) == step[p] = "deleting" /\ chosen[p][1] = log

\* What was old when a sweep looked is old, but for the lines that came since.
ErrorSweeps ==
    \A p \in Loggers : SweepsAt(p, "errors") =>
        \A l \in written : l.log = "errors" /\ l.file = looked[p] /\ ~l.doomed =>
            l.day <= today - retention

\* In the component's log, a file has one name; it takes no line after the day
\* of that name; and a file of an old release has lines of its own day only.
OwnDays ==
    /\ \A d \in Days : dated["component"][d] # NoFile =>
         /\ mtime["component"][dated["component"][d]] >= d
         /\ dated["component"][d] # legacy
         /\ \A e \in Days : e # d => dated["component"][e] # dated["component"][d]
    /\ \A p \in Loggers : IsOpen(p) =>
         /\ handle[p]["component"] # legacy
         /\ \A d \in Days : d # today => dated["component"][d] # handle[p]["component"]
    /\ \A l \in written : l.log = "component" =>
         /\ l.day \in Nat
         /\ l.file = legacy => l.day = 0
         /\ \A d \in Days : dated["component"][d] = l.file => l.day <= d

OwnSweeps ==
    \A p \in Loggers : SweepsAt(p, "component") => chosen[p][2] <= today - retention

SweepInv ==
    /\ DirTypes /\ Retained /\ Linkers
    /\ FileTimes /\ ErrorSweeps /\ OwnDays /\ OwnSweeps

Acts(p) == Unswept(p) \/ Sweeps(p)

-----------------------------------------------------------------------------
(* What a step may do to the files.                                        *)

\* A file that is new or is written to has the time of today.
FilesGrow ==
    /\ \A l \in Logs : \A f \in DOMAIN mtime'[l] :
           \/ f \in DOMAIN mtime[l] /\ mtime'[l][f] = mtime[l][f]
           \/ mtime'[l][f] = today
    /\ written \subseteq written'

LEMMA GrownBy ==
    ASSUME DirTypes, NEW l \in Logs, NEW f \in 1..(Len(mtime[l]) + 1),
           mtime' = [mtime EXCEPT ![l] = LastWritten(l, f)], written \subseteq written'
    PROVE  FilesGrow
  <1>1. /\ \A k \in Logs : \A g \in DOMAIN mtime[k] : mtime'[k][g] \in {mtime[k][g], today}
        /\ mtime'[l][f] = today
        /\ \A g \in DOMAIN mtime'[l] : g # f => g \in DOMAIN mtime[l]
        /\ \A k \in Logs \ {l} : mtime'[k] = mtime[k]
    BY FileWritten, ZenonT(60)
  <1>2. ASSUME NEW k \in Logs, NEW g \in DOMAIN mtime'[k]
        PROVE  \/ g \in DOMAIN mtime[k] /\ mtime'[k][g] = mtime[k][g]
               \/ mtime'[k][g] = today
    <2>1. CASE k = l
      BY <1>1, <1>2, <2>1
    <2>2. CASE k # l
      BY <1>1, <1>2, <2>2
    <2> QED
      BY <2>1, <2>2
  <1> QED
    BY <1>2 DEF FilesGrow

LEMMA ControlStep ==
    ASSUME DirTypes, Numbers, Retained, NEW p \in Loggers, Acts(p)
    PROVE  /\ UNCHANGED <<retention, today>> /\ Retained'
           /\ \A q \in Loggers \ {p} : /\ step'[q] = step[q] /\ chosen'[q] = chosen[q]
                                       /\ looked'[q] = looked[q]
           /\ step'[p] = "linking" => Stat(p)
           /\ step'[p] = "deleting" => SweepFinds(p)
  <1>1. UNCHANGED <<retention, today>>
    BY DEF Acts, Unswept, Sweeps, Stat, Link, Unlink, OpenErrorLog, MigrationFinds, Merge,
           RemoveLegacy, Rename, SweepFinds, Delete, SweepEnds, LogError, Restart, world
  <1>2. /\ step' = [step EXCEPT ![p] = step'[p]]
        /\ step'[p] = "linking" => Stat(p)
        /\ step'[p] = "deleting" => SweepFinds(p)
        /\ step'[p] \in {"sweeping", "deleting"} => retention > 0
    <2>0. step \in [Loggers -> Steps]
      BY DEF DirTypes
    <2>1. CASE Stat(p)
      <3>1. \E to \in {"linking", "opening"} : step' = [step EXCEPT ![p] = to]
        BY <2>1 DEF Stat, StepTo
      <3> QED
        BY <2>0, <2>1, <3>1
    <2>2. CASE LogError(p)
      <3>1. step' = step /\ step[p] = "logging"
        BY <2>2 DEF LogError
      <3> QED
        BY <2>0, <3>1
    <2>3. CASE Sweeps(p)
      <3>1. retention > 0
        BY <2>3 DEF Sweeps, SweepFinds, Delete, SweepEnds, Retained
      <3>2. CASE SweepFinds(p)
        BY <2>0, <3>1, <3>2 DEF SweepFinds, StepTo
      <3>3. CASE Delete(p)
        BY <2>0, <3>1, <3>3 DEF Delete, StepTo
      <3>4. CASE SweepEnds(p)
        BY <2>0, <3>4 DEF SweepEnds, StepTo
      <3> QED
        BY <2>3, <3>2, <3>3, <3>4 DEF Sweeps
    <2>4. CASE Link(p) \/ Unlink(p) \/ MigrationFinds(p) \/ Restart(p)
      <3>1. \E to \in {"unlinking", "opening", "merging", "renaming", "starting"} :
                step' = [step EXCEPT ![p] = to]
        BY <2>4 DEF Link, Unlink, MigrationFinds, Restart, StepTo, AfterFailedLink
      <3> QED
        BY <2>0, <3>1
    <2>5. CASE OpenErrorLog(p) \/ Merge(p) \/ RemoveLegacy(p) \/ Rename(p)
      <3>1. \E to \in {"migrating", "removing", AfterMigration} : step' = [step EXCEPT ![p] = to]
        BY <2>5 DEF OpenErrorLog, Merge, RemoveLegacy, Rename, StepTo
      <3>2. AfterMigration \in {"logging", "sweeping"} /\ (AfterMigration = "sweeping" => retention > 0)
        BY DEF AfterMigration
      <3> QED
        BY <2>0, <3>1, <3>2
    <2> QED
      BY <2>1, <2>2, <2>3, <2>4, <2>5 DEF Acts, Unswept
  <1>3. \E c : chosen' \in {chosen, [chosen EXCEPT ![p] = c]}
    BY DEF Acts, Unswept, Sweeps, Stat, Link, Unlink, OpenErrorLog, MigrationFinds, Merge,
           RemoveLegacy, Rename, SweepFinds, Delete, SweepEnds, LogError, Restart, Chooses
  <1>4. \E f \in Nat \cup {NoFile} : looked' \in {looked, [looked EXCEPT ![p] = f]}
    <2>1. CASE SweepFinds(p)
      <3>1. PICK l \in Logs, day \in Days : looked' = [looked EXCEPT ![p] = dated[l][day]]
        BY <2>1 DEF SweepFinds
      <3>2. dated[l][day] \in Nat \cup {NoFile}
        BY DEF DirTypes
      <3> QED
        BY <3>1, <3>2
    <2>2. CASE ~SweepFinds(p)
      BY <2>2 DEF Acts, Unswept, Sweeps, Stat, Link, Unlink, OpenErrorLog, MigrationFinds, Merge,
           RemoveLegacy, Rename, Delete, SweepEnds, LogError, Restart
    <2> QED
      BY <2>1, <2>2
  <1>5. Retained'
    <2>1. \A q \in Loggers : q # p => step'[q] = step[q]
      BY <1>2 DEF DirTypes
    <2>2. looked' \in [Loggers -> Nat \cup {NoFile}]
      BY <1>4 DEF Retained
    <2> QED
      BY <1>1, <1>2, <2>1, <2>2 DEF Retained
  <1> QED
    BY <1>1, <1>2, <1>3, <1>4, <1>5 DEF DirTypes, Retained

\* In the shared log, a line knows of every sweep that has decided on its file.
ErrorsGrow ==
    \A l \in written' \ written : l.log = "errors" =>
           /\ l.day = today /\ mtime'["errors"][l.file] = today
           /\ l.doomed = Doomed("errors", l.file)

LEMMA LineFields ==
    ASSUME NEW l, NEW id, NEW log, NEW f, NEW x, l = LineIn(id, log, f, x)
    PROVE  l.log = log /\ l.day = today /\ l.file = f /\ l.doomed = x
  BY DEF LineIn

LEMMA GrowStep ==
    ASSUME DirTypes, Numbers, NEW p \in Loggers, Acts(p)
    PROVE  FilesGrow /\ ErrorsGrow
  <1>0. /\ "errors" \in Logs /\ "component" \in Logs /\ 0 \in Days
        /\ current \in FilesOf("errors") /\ dated["component"][0] \in FilesOf("component")
    BY DEF Logs, Days, Numbers, DirTypes
  <1>1. ASSUME UNCHANGED <<mtime, written>>
        PROVE  FilesGrow
    BY <1>1 DEF FilesGrow
  <1>2. CASE Stat(p)
    <2>1. OpensOwn(p) /\ UNCHANGED <<today, current, written>>
      BY <1>2 DEF Stat, world
    <2>2. p \in owners => OwnFile(p) \in 1..(Len(mtime["component"]) + 1)
      BY <2>1, OwnOpens
    <2>3. \/ mtime' = mtime
          \/ /\ p \in owners
             /\ mtime' = [mtime EXCEPT !["component"] = LastWritten("component", OwnFile(p))]
      BY <1>2 DEF Stat
    <2>4. FilesGrow
      BY <1>0, <1>1, <2>1, <2>2, <2>3, GrownBy
    <2> QED
      BY <2>1, <2>4 DEF ErrorsGrow
  <1>3. CASE OpenErrorLog(p)
    <2> DEFINE f == Opened("errors", current)
    <2>1. /\ UNCHANGED <<today, written>> /\ current' = f
          /\ mtime' = IF current = NoFile
                      THEN [mtime EXCEPT !["errors"] = LastWritten("errors", f)] ELSE mtime
      BY <1>3 DEF OpenErrorLog, world
    <2>2. f \in 1..(Len(mtime["errors"]) + 1) /\ (current # NoFile => f = current)
      BY <1>0, OpenedIs
    <2> HIDE DEF f
    <2>3. CASE current # NoFile
      BY <1>1, <2>1, <2>2, <2>3 DEF ErrorsGrow
    <2>4. CASE current = NoFile
      <3>1. mtime' = [mtime EXCEPT !["errors"] = LastWritten("errors", f)]
        BY <2>1, <2>4
      <3>2. mtime'["errors"][f] = today
        BY <1>0, <2>2, <3>1, FileWritten
      <3>3. FilesGrow
        BY <1>0, <2>1, <2>2, <3>1, GrownBy
      <3> QED
        BY <2>1, <2>4, <3>2, <3>3 DEF ErrorsGrow
    <2> QED
      BY <2>3, <2>4
  <1>4. CASE Merge(p)
    <2> DEFINE f == Opened("component", dated["component"][0])
    <2>1. /\ UNCHANGED <<today, current>>
          /\ \/ UNCHANGED <<mtime, written>>
             \/ /\ mtime' = [mtime EXCEPT !["component"] = LastWritten("component", f)]
                /\ written' = Copied(f)
      BY <1>4 DEF Merge, world
    <2>2. f \in 1..(Len(mtime["component"]) + 1)
      BY <1>0, OpenedIs
    <2> HIDE DEF f
    <2>3. CASE UNCHANGED <<mtime, written>>
      BY <1>1, <2>1, <2>3 DEF ErrorsGrow
    <2>4. CASE /\ mtime' = [mtime EXCEPT !["component"] = LastWritten("component", f)]
               /\ written' = Copied(f)
      <3>1. written \subseteq written' /\ \A l \in written' \ written : l.log = "component"
        BY <2>4, CopiesAre
      <3>2. FilesGrow
        BY <1>0, <2>2, <2>4, <3>1, GrownBy
      <3> QED
        BY <2>1, <3>1, <3>2 DEF ErrorsGrow
    <2> QED
      BY <2>1, <2>3, <2>4
  <1>5. CASE LogError(p) /\ p \in owners
    <2>1. /\ UNCHANGED <<today, current>> /\ step[p] = "logging" /\ OpensOwn(p)
          /\ mtime' = [l \in Logs |-> LastWritten(l, handle'[p][l])]
          /\ written' = written \cup {LineIn(NextId, l, handle'[p][l], Doomed(l, handle'[p][l])) :
                                l \in Logs}
      BY <1>5, OwnerLines
    <2>2. \A l \in Logs : handle'[p][l] \in 1..(Len(mtime[l]) + 1)
      <3>1. handle[p]["errors"] # NoFile /\ handle[p]["errors"] \in FilesOf("errors")
        BY <1>0, <2>1 DEF DirTypes
      <3>2. /\ FilesOf("errors") = 1..Len(mtime["errors"]) \cup {NoFile}
            /\ Len(mtime["errors"]) \in Nat
        BY FilesAre
      <3>3. handle[p]["errors"] \in 1..(Len(mtime["errors"]) + 1)
        BY <3>1, <3>2
      <3>4. /\ handle'[p]["errors"] = handle[p]["errors"]
            /\ handle'[p]["component"] \in 1..(Len(mtime["component"]) + 1)
        BY <1>5, <2>1, OwnOpens
      <3> QED
        BY <3>3, <3>4 DEF Logs
    <2>3. ASSUME NEW l \in Logs
          PROVE  /\ mtime'[l][handle'[p][l]] = today
                 /\ \A g \in DOMAIN mtime'[l] : \/ g \in DOMAIN mtime[l] /\ mtime'[l][g] = mtime[l][g]
                                                \/ mtime'[l][g] = today
      <3>1. mtime'[l] = LastWritten(l, handle'[p][l])
        BY <2>1
      <3>2. /\ DOMAIN LastWritten(l, handle'[p][l]) = (DOMAIN mtime[l]) \cup {handle'[p][l]}
            /\ LastWritten(l, handle'[p][l])[handle'[p][l]] = today
            /\ \A g \in DOMAIN mtime[l] : LastWritten(l, handle'[p][l])[g] \in {mtime[l][g], today}
        BY <2>2, WrittenIs
      <3> QED
        BY <3>1, <3>2
    <2>4. FilesGrow
      BY <2>1, <2>3 DEF FilesGrow
    <2>5. ASSUME NEW l \in written' \ written, l.log = "errors"
          PROVE  /\ l.day = today /\ mtime'["errors"][l.file] = today
                 /\ l.doomed = Doomed("errors", l.file)
      <3>1. PICK k \in Logs : l = LineIn(NextId, k, handle'[p][k], Doomed(k, handle'[p][k]))
        BY <2>1, <2>5
      <3>2. /\ l.log = k /\ l.day = today /\ l.file = handle'[p][k]
            /\ l.doomed = Doomed(k, handle'[p][k])
        BY <3>1, LineFields
      <3> QED
        BY <2>3, <2>5, <3>2
    <2> QED
      BY <2>1, <2>4, <2>5 DEF ErrorsGrow
  <1>7. CASE LogError(p) /\ p \notin owners
    <2> DEFINE e == handle[p]["errors"]
    <2>1. /\ UNCHANGED <<today, current>> /\ e \in 1..(Len(mtime["errors"]) + 1)
          /\ mtime' = [mtime EXCEPT !["errors"] = LastWritten("errors", e)]
          /\ written' = written \cup {LineIn(NextId, "errors", e, Doomed("errors", e))}
      BY <1>7, OtherLines
    <2> HIDE DEF e
    <2>2. FilesGrow /\ mtime'["errors"][e] = today
      BY <1>0, <2>1, GrownBy, FileWritten
    <2>3. \A l \in written' \ written : /\ l.day = today /\ l.log = "errors" /\ l.file = e
                                       /\ l.doomed = Doomed("errors", e)
      BY <2>1, LineFields
    <2> QED
      BY <2>1, <2>2, <2>3 DEF ErrorsGrow
  <1>6. CASE ~(Stat(p) \/ OpenErrorLog(p) \/ Merge(p) \/ LogError(p))
    <2>1. UNCHANGED <<mtime, written>> /\ current' \in {current, NoFile}
      BY <1>6 DEF Acts, Unswept, Sweeps, Link, Unlink, MigrationFinds, RemoveLegacy, Rename,
                  SweepFinds, Delete, SweepEnds, Restart, diskVars
    <2> QED
      BY <1>1, <2>1 DEF ErrorsGrow
  <1> QED
    BY <1>2, <1>3, <1>4, <1>5, <1>6, <1>7

LEMMA HookGrows ==
    ASSUME DirTypes, Numbers, HookAppends
    PROVE  FilesGrow /\ ErrorsGrow /\ \A l \in written' \ written : l.log = "errors"
  <1> DEFINE f == Opened("errors", current)
  <1>1. /\ UNCHANGED today /\ current' = f
        /\ mtime' = [mtime EXCEPT !["errors"] = LastWritten("errors", f)]
        /\ written' = written \cup {LineIn(NextId, "errors", f, Doomed("errors", f))}
    BY DEF HookAppends, world
  <1>2. /\ "errors" \in Logs /\ f \in 1..(Len(mtime["errors"]) + 1)
        /\ current # NoFile => f = current
    BY OpenedIs DEF DirTypes, Logs
  <1> HIDE DEF f
  <1>3. FilesGrow /\ mtime'["errors"][f] = today
    BY <1>1, <1>2, GrownBy, FileWritten
  <1>4. ASSUME NEW l \in written' \ written
        PROVE  /\ l.day = today /\ l.log = "errors" /\ l.file = f
               /\ l.doomed = Doomed("errors", f)
    BY <1>1, <1>4, LineFields
  <1> QED
    BY <1>1, <1>2, <1>3, <1>4 DEF ErrorsGrow

-----------------------------------------------------------------------------
(* The shared log.                                                         *)

\* The times of files are days, in numbers.
LEMMA TimesAre ==
    ASSUME DirTypes, Numbers
    PROVE  /\ today \in Nat /\ MaxDay \in Nat
           /\ \A l \in Logs : \A f \in DOMAIN mtime[l] : mtime[l][f] \in Nat
           /\ \A l \in Logs : NoFile \notin DOMAIN mtime[l]
           /\ \A l \in Logs, d \in Days : dated[l][d] # NoFile => dated[l][d] \in DOMAIN mtime[l]
           /\ current # NoFile => current \in DOMAIN mtime["errors"]
           /\ \A p \in Loggers : chosen[p][1] \in Logs /\ chosen[p][2] \in Days
           /\ \A d \in Days : d \in Nat
  <1>1. today \in Nat /\ MaxDay \in Nat /\ (\A d \in Days : d \in Nat)
    BY DEF DirTypes, Numbers, Days
  <1>2. \A l \in Logs : mtime[l] \in Seq(Days)
    BY DEF DirTypes
  <1>3. \A l \in Logs : \A f \in DOMAIN mtime[l] : mtime[l][f] \in Days
    BY <1>2
  <1>4. \A l \in Logs : DOMAIN mtime[l] \subseteq Nat
    BY <1>2
  <1>5. \A p \in Loggers : chosen[p] \in Logs \X Days
    BY DEF DirTypes
  <1>6. /\ \A l \in Logs, d \in Days : dated[l][d] \in (DOMAIN mtime[l]) \cup {NoFile}
        /\ current \in (DOMAIN mtime["errors"]) \cup {NoFile}
    BY DEF DirTypes, FilesOf
  <1> QED
    BY <1>1, <1>3, <1>4, <1>5, <1>6 DEF Numbers

\* A step that begins no deletion.
LEMMA ErrorsQuiet ==
    ASSUME DirTypes, DirTypes', Numbers, Retained, FileTimes, ErrorSweeps,
           FilesGrow, ErrorsGrow, UNCHANGED retention, today' >= today,
           \A q \in Loggers : step'[q] = "deleting" =>
               step[q] = "deleting" /\ chosen'[q] = chosen[q] /\ looked'[q] = looked[q]
    PROVE  FileTimes' /\ ErrorSweeps'
  <1>0. /\ "errors" \in Logs /\ today \in Nat /\ today' \in Nat /\ retention \in Nat
        /\ \A l \in Logs : \A f \in DOMAIN mtime[l] : mtime[l][f] \in Nat
        /\ \A l \in Logs : \A f \in DOMAIN mtime'[l] : mtime'[l][f] \in Nat
    <2>1. today' \in Days /\ mtime' \in [Logs -> Seq(Days)]
      BY DEF DirTypes, Days
    <2>2. \A d \in Days : d \in Nat
      BY TimesAre DEF Days
    <2>3. \A l \in Logs : \A f \in DOMAIN mtime'[l] : mtime'[l][f] \in Days
      BY <2>1
    <2> QED
      BY <2>1, <2>2, <2>3, TimesAre DEF Retained, Logs
  <1>1. FileTimes'
    <2>1. \A l \in Logs : \A f \in DOMAIN mtime'[l] : mtime'[l][f] <= today'
      BY <1>0 DEF FileTimes, FilesGrow
    <2>2. ASSUME NEW l \in written', l.log = "errors"
          PROVE  l.day \in Nat /\ l.day <= mtime'["errors"][l.file]
      <3>1. CASE l \in written
        <4>1. /\ l.day \in Nat /\ l.day <= mtime["errors"][l.file]
              /\ l.file \in DOMAIN mtime["errors"] /\ l.file \in DOMAIN mtime'["errors"]
          BY <2>2, <3>1 DEF FileTimes, DirTypes
        <4>2. /\ mtime["errors"][l.file] <= today /\ mtime["errors"][l.file] \in Nat
              /\ mtime'["errors"][l.file] \in {mtime["errors"][l.file], today}
          BY <1>0, <4>1 DEF FileTimes, FilesGrow
        <4> QED
          BY <1>0, <4>1, <4>2
      <3>2. CASE l \notin written
        BY <1>0, <2>2, <3>2 DEF ErrorsGrow
      <3> QED
        BY <3>1, <3>2
    <2> QED
      BY <2>1, <2>2 DEF FileTimes
  <1>2. ErrorSweeps'
    <2>1. ASSUME NEW p \in Loggers, SweepsAt(p, "errors")',
                 NEW l \in written', l.log = "errors", l.file = looked'[p], ~l.doomed
          PROVE  l.day <= today' - retention
      <3>1. SweepsAt(p, "errors") /\ looked'[p] = looked[p]
        BY <2>1 DEF SweepsAt
      <3>2. l \in written
        <4>1. l \notin written => l.doomed = Doomed("errors", l.file)
          BY <2>1 DEF ErrorsGrow
        <4>2. Doomed("errors", l.file)
          BY <2>1, <3>1 DEF Doomed, SweepsAt
        <4> QED
          BY <2>1, <4>1, <4>2
      <3>3. l.day <= today - retention /\ l.day \in Nat
        BY <2>1, <3>1, <3>2 DEF ErrorSweeps, FileTimes
      <3> QED
        BY <1>0, <3>3
    <2> QED
      BY <2>1 DEF ErrorSweeps
  <1> QED
    BY <1>1, <1>2

\* A sweep finds an old file under a name.
LEMMA ErrorsFound ==
    ASSUME DirTypes, DirTypes', Numbers, Retained, FileTimes, ErrorSweeps,
           NEW p \in Loggers, SweepFinds(p)
    PROVE  FileTimes' /\ ErrorSweeps'
  <1>1. PICK l \in Logs, d \in Days :
            /\ dated[l][d] # NoFile /\ mtime[l][dated[l][d]] <= today - retention
            /\ chosen' = [chosen EXCEPT ![p] = <<l, d>>]
            /\ looked' = [looked EXCEPT ![p] = dated[l][d]]
    BY DEF SweepFinds, MayBeOld, Chooses
  <1>2. /\ UNCHANGED <<retention, today, mtime, written>>
        /\ step' = [step EXCEPT ![p] = "deleting"] /\ step[p] = "sweeping"
    BY DEF SweepFinds, world, diskVars, StepTo
  <1>3. /\ step'[p] = "deleting" /\ chosen'[p] = <<l, d>> /\ looked'[p] = dated[l][d]
        /\ \A q \in Loggers \ {p} : /\ step'[q] = step[q] /\ chosen'[q] = chosen[q]
                                    /\ looked'[q] = looked[q]
    BY <1>1, <1>2 DEF DirTypes, Retained
  <1>4. FileTimes'
    BY <1>2 DEF FileTimes
  <1>5. ASSUME NEW q \in Loggers, SweepsAt(q, "errors")'
        PROVE  \A m \in written' : m.log = "errors" /\ m.file = looked'[q] /\ ~m.doomed =>
                   m.day <= today' - retention'
    <2>1. CASE q = p
      <3>1. l = "errors"
        BY <1>3, <1>5, <2>1 DEF SweepsAt
      <3>2. ASSUME NEW m \in written, m.log = "errors", m.file = dated["errors"][d]
            PROVE  m.day <= today - retention
        <4>1. /\ m.day \in Nat /\ m.day <= mtime["errors"][m.file]
              /\ m.file \in DOMAIN mtime["errors"]
          BY <3>2 DEF FileTimes, DirTypes
        <4>2. /\ mtime["errors"][m.file] \in Nat /\ today \in Nat /\ retention \in Nat
              /\ mtime["errors"][m.file] <= today - retention
          BY <1>1, <3>1, <3>2, <4>1, TimesAre DEF Retained
        <4> QED
          BY <4>1, <4>2
      <3> QED
        BY <1>2, <1>3, <2>1, <3>1, <3>2
    <2>2. CASE q # p
      <3>1. SweepsAt(q, "errors")
        BY <1>3, <1>5, <2>2 DEF SweepsAt
      <3> QED
        BY <1>2, <1>3, <2>2, <3>1 DEF ErrorSweeps
    <2> QED
      BY <2>1, <2>2
  <1>6. ErrorSweeps'
    BY <1>5 DEF ErrorSweeps
  <1> QED
    BY <1>4, <1>6

LEMMA ErrorsStep ==
    ASSUME DirTypes, DirTypes', Numbers, Retained, Linkers, FileTimes, ErrorSweeps,
           NEW p \in Loggers, Acts(p)
    PROVE  Linkers' /\ FileTimes' /\ ErrorSweeps'
  <1>1. /\ UNCHANGED <<retention, today>>
        /\ \A q \in Loggers \ {p} : /\ step'[q] = step[q] /\ chosen'[q] = chosen[q]
                                    /\ looked'[q] = looked[q]
        /\ step'[p] = "linking" => Stat(p)
        /\ step'[p] = "deleting" => SweepFinds(p)
    BY ControlStep
  <1>2. Linkers'
    <2>1. CASE Stat(p)
      BY <2>1, LinkersStep DEF Unswept
    <2>2. CASE ~Stat(p)
      BY <1>1, <2>2 DEF Linkers
    <2> QED
      BY <2>1, <2>2
  <1>3. FileTimes' /\ ErrorSweeps'
    <2>1. CASE SweepFinds(p)
      BY <2>1, ErrorsFound
    <2>2. CASE ~SweepFinds(p)
      <3>1. FilesGrow /\ ErrorsGrow
        BY GrowStep
      <3>2. today' >= today
        BY <1>1, TimesAre
      <3>3. \A q \in Loggers : step'[q] = "deleting" =>
                 step[q] = "deleting" /\ chosen'[q] = chosen[q] /\ looked'[q] = looked[q]
        BY <1>1, <2>2
      <3> QED
        BY <1>1, <3>1, <3>2, <3>3, ErrorsQuiet
    <2> QED
      BY <2>1, <2>2
  <1> QED
    BY <1>2, <1>3

-----------------------------------------------------------------------------
(* The component's log.                                                    *)

\* A step that gives no name and adds no line.
LEMMA OwnQuiet ==
    ASSUME DirTypes, DirTypes', Numbers, OwnDays, FileTimes, FilesGrow,
           legacy' \in {legacy, NoFile},
           \A d \in Days : dated'["component"][d] \in {dated["component"][d], NoFile},
           \A l \in written' \ written : l.log # "component",
           \/ /\ UNCHANGED today
              /\ \A q \in Loggers : handle'[q]["component"] \in {handle[q]["component"], NoFile}
           \/ \A q \in Loggers : handle'[q]["component"] = NoFile
    PROVE  OwnDays'
  <1>0. "component" \in Logs
    BY DEF Logs
  <1>1. ASSUME NEW d \in Days, dated'["component"][d] # NoFile
        PROVE  /\ mtime'["component"][dated'["component"][d]] >= d
               /\ dated'["component"][d] # legacy'
               /\ \A e \in Days : e # d => dated'["component"][e] # dated'["component"][d]
    <2> DEFINE f == dated["component"][d]
    <2>1. /\ dated'["component"][d] = f /\ f # NoFile /\ d \in Nat
          /\ f \in DOMAIN mtime["component"] /\ f \in DOMAIN mtime'["component"]
          /\ mtime["component"][f] \in Nat /\ today \in Nat
      <3>1. dated'["component"][d] = f /\ f # NoFile
        BY <1>1
      <3>2. f \in DOMAIN mtime'["component"]
        BY <1>0, <1>1, <3>1 DEF DirTypes, FilesOf, Days
      <3> QED
        BY <1>0, <3>1, <3>2, TimesAre
    <2>2. /\ mtime["component"][f] >= d /\ f # legacy
          /\ \A e \in Days : e # d => dated["component"][e] # f
      BY <2>1 DEF OwnDays
    <2>3. /\ mtime'["component"][f] \in {mtime["component"][f], today}
          /\ mtime["component"][f] <= today
      BY <1>0, <2>1 DEF FilesGrow, FileTimes
    <2> HIDE DEF f
    <2> QED
      BY <2>1, <2>2, <2>3
  <1>2. ASSUME NEW q \in Loggers, handle'[q]["component"] # NoFile
        PROVE  /\ handle'[q]["component"] # legacy'
               /\ \A d \in Days : d # today' => dated'["component"][d] # handle'[q]["component"]
    BY <1>2 DEF OwnDays, IsOpen
  <1>3. ASSUME NEW l \in written', l.log = "component"
        PROVE  /\ l.day \in Nat
               /\ l.file = legacy' => l.day = 0
               /\ \A d \in Days : dated'["component"][d] = l.file => l.day <= d
    <2>1. /\ l \in written /\ l.file # NoFile
      BY <1>0, <1>3, TimesAre DEF DirTypes
    <2> QED
      BY <1>3, <2>1 DEF OwnDays
  <1> QED
    BY <1>1, <1>2, <1>3 DEF OwnDays, IsOpen, Days

\* The handler opens its file, and may write to it.
LEMMA OwnOpened ==
    ASSUME DirTypes, DirTypes', Numbers, OwnDays, FileTimes, FilesGrow, NEW p \in Loggers,
           p \in owners, OpensOwn(p), UNCHANGED <<today, legacy>>,
           OwnFile(p) = Created("component") => mtime'["component"][OwnFile(p)] = today,
           \A l \in written' \ written : l.log = "component" => l.day = today /\ l.file = OwnFile(p)
    PROVE  OwnDays'
  <1> DEFINE own == OwnFile(p)
             C == "component"
  <1>0. /\ C \in Logs /\ today \in Nat /\ today \in Days /\ (\A d \in Days : d \in Nat)
        /\ legacy # NoFile => legacy \in DOMAIN mtime[C]
        /\ Created(C) \notin DOMAIN mtime[C] /\ Created(C) # NoFile
        /\ \A d \in Days : dated[C][d] # NoFile => dated[C][d] \in DOMAIN mtime[C]
        /\ \A q \in Loggers : handle[q][C] # NoFile => handle[q][C] \in DOMAIN mtime[C]
        /\ \A l \in written : l.log = C => l.file \in DOMAIN mtime[C]
    <2>1. /\ Created(C) = Len(mtime[C]) + 1 /\ Len(mtime[C]) \in Nat
          /\ DOMAIN mtime[C] = 1..Len(mtime[C])
      BY FilesAre
    <2>2. Created(C) \notin DOMAIN mtime[C] /\ Created(C) # NoFile
      BY <2>1 DEF Numbers
    <2>3. /\ C \in Logs /\ today \in Days
          /\ legacy \in FilesOf(C) /\ \A q \in Loggers : handle[q][C] \in FilesOf(C)
          /\ \A l \in written : l.log = C => l.file \in DOMAIN mtime[C]
      BY DEF DirTypes, Logs
    <2> QED
      BY <2>2, <2>3, TimesAre DEF FilesOf
  <1>1. /\ own # NoFile /\ handle'[p][C] = own
        /\ \A q \in Loggers \ {p} : handle'[q] = handle[q]
        /\ \A d \in Days : d # today => dated'[C][d] = dated[C][d]
        /\ \/ /\ IsOpen(p) /\ own = handle[p][C]
              /\ dated'[C][today] = dated[C][today]
           \/ /\ ~IsOpen(p) /\ dated'[C][today] = own
              /\ dated[C][today] # NoFile => own = dated[C][today]
              /\ dated[C][today] = NoFile => own = Created(C)
    BY OwnOpens
  <1>2. \A l \in written' \ written : l.log = C => l.day = today /\ l.file = own
    OBVIOUS
  <1>3. own = Created(C) => mtime'[C][own] = today
    OBVIOUS
  <1> HIDE DEF own, C
  <1>4. own # legacy /\ \A d \in Days : d # today => dated'[C][d] # own
    <2>1. CASE IsOpen(p)
      BY <1>1, <2>1 DEF OwnDays, C
    <2>2. CASE ~IsOpen(p) /\ dated[C][today] # NoFile
      BY <1>0, <1>1, <2>2 DEF OwnDays, C
    <2>3. CASE ~IsOpen(p) /\ dated[C][today] = NoFile
      BY <1>0, <1>1, <2>3
    <2> QED
      BY <2>1, <2>2, <2>3
  <1>5. ASSUME NEW d \in Days, dated'[C][d] # NoFile
        PROVE  /\ mtime'[C][dated'[C][d]] >= d
               /\ dated'[C][d] # legacy
               /\ \A e \in Days : e # d => dated'[C][e] # dated'[C][d]
    <2>1. CASE dated'[C][d] = dated[C][d]
      <3>1. /\ dated[C][d] \in DOMAIN mtime[C] /\ dated[C][d] \in DOMAIN mtime'[C]
            /\ mtime[C][dated[C][d]] \in Nat
        <4>1. dated'[C][d] \in DOMAIN mtime'[C]
          BY <1>0, <1>5 DEF DirTypes, FilesOf, Days
        <4> QED
          BY <1>0, <1>5, <2>1, <4>1, TimesAre
      <3>2. /\ mtime[C][dated[C][d]] >= d /\ dated[C][d] # legacy
            /\ \A e \in Days : e # d => dated[C][e] # dated[C][d]
        BY <1>5, <2>1 DEF OwnDays, C
      <3>3. /\ mtime'[C][dated[C][d]] \in {mtime[C][dated[C][d]], today}
            /\ mtime[C][dated[C][d]] <= today
        BY <1>0, <3>1 DEF FilesGrow, FileTimes
      <3>4. mtime'[C][dated[C][d]] >= d
        <4>1. today \in Nat /\ d \in Nat
          BY <1>0
        <4> QED
          BY <3>1, <3>2, <3>3, <4>1
      <3>5. ASSUME NEW e \in Days, e # d
            PROVE  dated'[C][e] # dated'[C][d]
        <4>1. CASE dated'[C][e] = dated[C][e]
          BY <2>1, <3>2, <3>5, <4>1
        <4>2. CASE dated'[C][e] # dated[C][e]
          <5>1. e = today /\ dated'[C][e] = own
            BY <1>1, <4>2
          <5> QED
            BY <1>4, <3>5, <5>1
        <4> QED
          BY <4>1, <4>2
      <3> QED
        BY <2>1, <3>2, <3>4, <3>5
    <2>2. CASE dated'[C][d] # dated[C][d]
      <3>1. d = today /\ dated'[C][d] = own /\ own = Created(C)
        BY <1>1, <2>2
      <3> QED
        BY <1>0, <1>3, <1>4, <3>1
    <2> QED
      BY <2>1, <2>2
  <1>6. ASSUME NEW q \in Loggers, handle'[q][C] # NoFile
        PROVE  /\ handle'[q][C] # legacy
               /\ \A d \in Days : d # today => dated'[C][d] # handle'[q][C]
    <2>1. CASE q = p
      BY <1>1, <1>4, <2>1
    <2>2. CASE q # p
      BY <1>1, <1>6, <2>2 DEF OwnDays, IsOpen, C
    <2> QED
      BY <2>1, <2>2
  <1>7. ASSUME NEW l \in written', l.log = C
        PROVE  /\ l.day \in Nat
               /\ l.file = legacy => l.day = 0
               /\ \A d \in Days : dated'[C][d] = l.file => l.day <= d
    <2>1. CASE l \in written
      <3>1. /\ l.day \in Nat /\ (l.file = legacy => l.day = 0) /\ l.file \in DOMAIN mtime[C]
            /\ \A d \in Days : dated[C][d] = l.file => l.day <= d
        BY <1>0, <1>7, <2>1 DEF OwnDays, C
      <3>2. ASSUME NEW d \in Days, dated'[C][d] = l.file
            PROVE  dated[C][d] = l.file
        <4>1. CASE dated'[C][d] # dated[C][d]
          <5>1. dated'[C][d] = Created(C)
            BY <1>1, <4>1
          <5> QED
            BY <1>0, <3>1, <3>2, <5>1
        <4> QED
          BY <3>2, <4>1
      <3> QED
        BY <3>1, <3>2
    <2>2. CASE l \notin written
      <3>1. l.day = today /\ l.file = own
        BY <1>2, <1>7, <2>2
      <3> QED
        BY <1>0, <1>4, <3>1
    <2> QED
      BY <2>1, <2>2
  <1> QED
    BY <1>5, <1>6, <1>7 DEF OwnDays, IsOpen, Days, C

\* A file of an old release is merged into the dated one, or takes its name.
LEMMA OwnMigrated ==
    ASSUME DirTypes, DirTypes', Numbers, OwnDays, FileTimes, FilesGrow, NEW p \in Loggers,
           Merge(p) \/ Rename(p)
    PROVE  OwnDays'
  <1> DEFINE C == "component"
             f == Opened(C, dated[C][0])
  <1>0. /\ C \in Logs /\ 0 \in Days /\ today \in Nat /\ (\A d \in Days : d \in Nat)
        /\ legacy # NoFile => legacy \in DOMAIN mtime[C]
        /\ Created(C) \notin DOMAIN mtime[C] /\ Created(C) # NoFile
        /\ legacy \in Nat \cup {NoFile} /\ f \in 1..(Len(mtime[C]) + 1) /\ f \in Nat
        /\ dated[C][0] # NoFile => f = dated[C][0]
        /\ dated[C][0] = NoFile => f = Created(C)
        /\ \A d \in Days : dated[C][d] # NoFile => dated[C][d] \in DOMAIN mtime[C]
        /\ \A q \in Loggers : handle[q][C] # NoFile => handle[q][C] \in DOMAIN mtime[C]
        /\ \A l \in written : l.log = C => l.file \in DOMAIN mtime[C]
    <2>1. /\ Created(C) = Len(mtime[C]) + 1 /\ Len(mtime[C]) \in Nat
          /\ DOMAIN mtime[C] = 1..Len(mtime[C])
      BY FilesAre
    <2>2. Created(C) \notin DOMAIN mtime[C] /\ Created(C) # NoFile
      BY <2>1 DEF Numbers
    <2>3. /\ C \in Logs /\ 0 \in Days /\ dated[C][0] \in FilesOf(C)
          /\ legacy \in FilesOf(C) /\ \A q \in Loggers : handle[q][C] \in FilesOf(C)
          /\ \A l \in written : l.log = C => l.file \in DOMAIN mtime[C]
      BY DEF DirTypes, Logs, Days, Numbers
    <2>4. /\ f \in 1..(Len(mtime[C]) + 1) /\ f \in Nat
          /\ dated[C][0] # NoFile => f = dated[C][0]
          /\ dated[C][0] = NoFile => f = Created(C)
      BY <2>1, <2>3, OpenedIs
    <2>5. legacy \in Nat \cup {NoFile}
      BY <2>1, <2>3 DEF FilesOf
    <2> QED
      BY <2>2, <2>3, <2>4, <2>5, TimesAre DEF FilesOf
  <1> HIDE DEF f, C
  <1>1. UNCHANGED <<today, handle>> /\ legacy' \in {legacy, NoFile}
    BY DEF Merge, Rename, world
  \* The file that has the name of day 0, and what is in it.
  <1>2. PICK g : /\ \A d \in Days : dated'[C][d] = IF d = 0 THEN g ELSE dated[C][d]
                 /\ g # NoFile => /\ g # legacy' /\ (g \in {dated[C][0], Created(C), legacy})
                 /\ \A l \in written' : l.log = C =>
                       \/ l \in written
                       \/ l.file = g /\ l.day = 0
    <2>1. CASE UNCHANGED <<dated, written, legacy>>
      <3>1. dated[C][0] # NoFile => dated[C][0] # legacy
        BY <1>0 DEF OwnDays, C
      <3> WITNESS dated[C][0]
      <3> QED
        BY <2>1, <3>1
    <2>2. CASE Merge(p) /\ ~UNCHANGED <<dated, written, legacy>>
      <3>1. /\ dated' = [dated EXCEPT ![C][0] = f] /\ written' = Copied(f)
            /\ UNCHANGED legacy /\ legacy # NoFile
        BY <2>2 DEF Merge, C, f
      <3>2. \A d \in Days : dated'[C][d] = IF d = 0 THEN f ELSE dated[C][d]
        BY <1>0, <3>1, NameGiven
      <3>3. f # legacy /\ f \in {dated[C][0], Created(C)}
        BY <1>0, <3>1 DEF OwnDays, C
      <3>4. ASSUME NEW l \in written', l.log = C, l \notin written
            PROVE  l.file = f /\ l.day = 0
        <4>1. PICK m \in written : /\ m.log = C /\ m.file = legacy
                                   /\ l.day = m.day /\ l.file = f
          BY <3>1, <3>4, CopiesAre DEF C
        <4> QED
          BY <4>1 DEF OwnDays, C
      <3> QED
        BY <3>1, <3>2, <3>3, <3>4
    <2>3. CASE Rename(p) /\ ~UNCHANGED <<dated, written, legacy>>
      <3>1. /\ dated' = [dated EXCEPT ![C][0] = legacy] /\ legacy' = NoFile /\ legacy # NoFile
            /\ written' = written
        BY <2>3 DEF Rename, C
      <3>2. \A d \in Days : dated'[C][d] = IF d = 0 THEN legacy ELSE dated[C][d]
        BY <1>0, <3>1, NameGiven
      <3> WITNESS legacy
      <3> QED
        BY <3>1, <3>2
    <2> QED
      BY <2>1, <2>2, <2>3 DEF Merge, Rename
  <1>3. ASSUME NEW d \in Days, dated'[C][d] # NoFile
        PROVE  /\ mtime'[C][dated'[C][d]] >= d
               /\ dated'[C][d] # legacy'
               /\ \A e \in Days : e # d => dated'[C][e] # dated'[C][d]
    <2>1. dated'[C][d] \in DOMAIN mtime'[C]
      BY <1>0, <1>3 DEF DirTypes, FilesOf, Days
    <2>2. mtime'[C][dated'[C][d]] >= d
      <3>1. CASE d = 0
        <4>1. mtime'[C][dated'[C][d]] \in Nat
          <5>1. mtime'[C] \in Seq(Days)
            BY <1>0 DEF DirTypes, Days, Logs
          <5>2. mtime'[C][dated'[C][d]] \in Days
            BY <2>1, <5>1
          <5> QED
            BY <1>0, <5>2
        <4> QED
          BY <3>1, <4>1
      <3>2. CASE d # 0
        <4>1. /\ dated'[C][d] = dated[C][d] /\ dated[C][d] \in DOMAIN mtime[C]
              /\ mtime[C][dated[C][d]] \in Nat
          BY <1>0, <1>2, <1>3, <3>2, TimesAre
        <4>2. mtime[C][dated[C][d]] >= d /\ mtime[C][dated[C][d]] <= today
          BY <1>0, <1>3, <4>1 DEF OwnDays, FileTimes, C
        <4>3. mtime'[C][dated[C][d]] \in {mtime[C][dated[C][d]], today}
          BY <1>0, <2>1, <4>1 DEF FilesGrow
        <4> QED
          BY <1>0, <4>1, <4>2, <4>3
      <3> QED
        BY <3>1, <3>2
    <2>3. \A e \in Days : e # 0 => dated'[C][e] = dated[C][e]
      BY <1>2
    <2>4. \A e \in Days : e # 0 => dated[C][e] = NoFile \/ (dated[C][e] # g /\ dated[C][e] # legacy)
      <3>1. ASSUME NEW e \in Days, e # 0, dated[C][e] # NoFile
            PROVE  dated[C][e] # g /\ dated[C][e] # legacy
        <4>1. /\ dated[C][e] # legacy /\ dated[C][e] \in DOMAIN mtime[C]
              /\ dated[C][0] # dated[C][e]
          BY <1>0, <3>1 DEF OwnDays, C
        <4> QED
          BY <1>0, <1>2, <3>1, <4>1
      <3> QED
        BY <3>1
    <2>5. dated'[C][d] # legacy'
      BY <1>1, <1>2, <1>3, <2>4
    <2>6. ASSUME NEW e \in Days, e # d
          PROVE  dated'[C][e] # dated'[C][d]
      <3>1. CASE e # 0 /\ d # 0
        BY <1>3, <2>3, <2>6, <3>1 DEF OwnDays, C
      <3>2. CASE e = 0 \/ d = 0
        BY <1>2, <1>3, <2>4, <2>6, <3>2
      <3> QED
        BY <3>1, <3>2
    <2> QED
      BY <2>2, <2>5, <2>6
  <1>4. ASSUME NEW q \in Loggers, handle'[q][C] # NoFile
        PROVE  /\ handle'[q][C] # legacy'
               /\ \A d \in Days : d # today => dated'[C][d] # handle'[q][C]
    <2>1. /\ handle'[q][C] = handle[q][C] /\ handle[q][C] # NoFile /\ handle[q][C] # legacy
          /\ handle[q][C] \in DOMAIN mtime[C]
          /\ \A d \in Days : d # today => dated[C][d] # handle[q][C]
      BY <1>0, <1>1, <1>4 DEF OwnDays, IsOpen, C
    <2>2. ASSUME NEW d \in Days, d # today
          PROVE  dated'[C][d] # handle[q][C]
      <3>1. CASE d = 0
        BY <1>0, <1>2, <2>1, <2>2, <3>1
      <3>2. CASE d # 0
        BY <1>2, <2>1, <2>2, <3>2
      <3> QED
        BY <3>1, <3>2
    <2> QED
      BY <1>1, <2>1, <2>2
  <1>5. ASSUME NEW l \in written', l.log = C
        PROVE  /\ l.day \in Nat
               /\ l.file = legacy' => l.day = 0
               /\ \A d \in Days : dated'[C][d] = l.file => l.day <= d
    <2>0. l.file # NoFile
      <3>1. l.file \in DOMAIN mtime'[C] /\ mtime'[C] \in Seq(Days)
        BY <1>0, <1>5 DEF DirTypes, Days, Logs
      <3>2. l.file \in Nat
        BY <3>1
      <3> QED
        BY <3>2 DEF Numbers
    <2>1. CASE l \in written
      <3>1. /\ l.day \in Nat /\ (l.file = legacy => l.day = 0) /\ l.file \in DOMAIN mtime[C]
            /\ \A d \in Days : dated[C][d] = l.file => l.day <= d
        BY <1>0, <1>5, <2>1 DEF OwnDays, C
      <3>2. ASSUME NEW d \in Days, dated'[C][d] = l.file
            PROVE  l.day <= d
        <4>1. CASE d # 0 \/ g = dated[C][0]
          BY <1>2, <3>1, <3>2, <4>1
        <4>2. CASE d = 0 /\ g # dated[C][0]
          BY <1>0, <1>2, <2>0, <3>1, <3>2, <4>2
        <4> QED
          BY <4>1, <4>2
      <3> QED
        BY <1>1, <2>0, <3>1, <3>2
    <2>2. CASE l \notin written
      <3>1. l.file = g /\ l.day = 0
        BY <1>2, <1>5, <2>2
      <3> QED
        BY <1>0, <3>1
    <2> QED
      BY <2>1, <2>2
  <1> QED
    BY <1>3, <1>4, <1>5, <1>1 DEF OwnDays, IsOpen, Days, C

LEMMA OwnDaysStep ==
    ASSUME DirTypes, DirTypes', Numbers, OwnDays, FileTimes, Linkers, NEW p \in Loggers, Acts(p)
    PROVE  OwnDays'
  <1>1. FilesGrow
    BY GrowStep
  <1>2. CASE p \in owners /\ (Stat(p) \/ LogError(p))
    <2>1. OpensOwn(p) /\ UNCHANGED <<today, legacy>>
      BY <1>2 DEF Stat, LogError, world
    <2>2. /\ OwnFile(p) \in 1..(Len(mtime["component"]) + 1)
          /\ handle'[p]["component"] = OwnFile(p) /\ "component" \in Logs
      BY <1>2, <2>1, OwnOpens DEF Logs
    <2>3. OwnFile(p) = Created("component") => mtime'["component"][OwnFile(p)] = today
      <3>1. LastWritten("component", OwnFile(p))[OwnFile(p)] = today
        BY <2>2, WrittenIs
      <3>2. CASE Stat(p) /\ OwnFile(p) = Created("component")
        <4>1. mtime' = [mtime EXCEPT !["component"] = LastWritten("component", OwnFile(p))]
          BY <1>2, <3>2 DEF Stat
        <4> QED
          BY <2>2, <3>1, <4>1 DEF DirTypes
      <3>3. CASE LogError(p)
        <4>1. mtime'["component"] = LastWritten("component", OwnFile(p))
          BY <1>2, <2>2, <3>3, OwnerLines
        <4> QED
          BY <3>1, <4>1
      <3> QED
        BY <1>2, <3>2, <3>3
    <2>4. ASSUME NEW l \in written' \ written, l.log = "component"
          PROVE  l.day = today /\ l.file = OwnFile(p)
      <3>1. LogError(p)
        BY <1>2, <2>4 DEF Stat
      <3>2. PICK k \in Logs : l = LineIn(NextId, k, handle'[p][k], Doomed(k, handle'[p][k]))
        BY <1>2, <2>4, <3>1, OwnerLines
      <3>3. l.log = k /\ l.day = today /\ l.file = handle'[p][k]
        BY <3>2, LineFields
      <3> QED
        BY <2>2, <2>4, <3>3
    <2> QED
      BY <1>1, <1>2, <2>1, <2>3, <2>4, OwnOpened
  <1>5. CASE p \notin owners /\ (Stat(p) \/ LogError(p))
    <2>1. UNCHANGED <<dated, handle, today, legacy>>
      BY <1>5, OthersOpenNone DEF Stat, LogError, world
    <2>2. ASSUME NEW l \in written' \ written
          PROVE  l.log # "component"
      <3>1. CASE Stat(p)
        BY <2>2, <3>1 DEF Stat
      <3>2. CASE LogError(p)
        <4>1. PICK e : l = LineIn(NextId, "errors", e, Doomed("errors", e))
          BY <1>5, <2>2, <3>2, OtherLines
        <4> QED
          BY <4>1, LineFields
      <3> QED
        BY <1>5, <3>1, <3>2
    <2> QED
      BY <1>1, <2>1, <2>2, OwnQuiet
  <1>3. CASE Merge(p) \/ Rename(p)
    BY <1>1, <1>3, OwnMigrated
  <1>4. CASE ~(Stat(p) \/ LogError(p) \/ Merge(p) \/ Rename(p))
    <2>1. legacy' \in {legacy, NoFile} /\ UNCHANGED <<today, written>>
      BY <1>4 DEF Acts, Unswept, Sweeps, Link, Unlink, OpenErrorLog, MigrationFinds, RemoveLegacy,
                  SweepFinds, Delete, SweepEnds, Restart, diskVars, world
    <2>2. \A d \in Days : dated'["component"][d] \in {dated["component"][d], NoFile}
      <3>1. \/ dated' = dated
            \/ Link(p) /\ dated' = [dated EXCEPT ![chosen[p][1]][chosen[p][2]] = current]
            \/ dated' = [dated EXCEPT ![chosen[p][1]][chosen[p][2]] = NoFile]
        BY <1>4 DEF Acts, Unswept, Sweeps, Link, Unlink, OpenErrorLog, MigrationFinds, RemoveLegacy,
                  SweepFinds, Delete, SweepEnds, Restart, diskVars, Names
      <3>2. chosen[p][1] \in Logs /\ chosen[p][2] \in Days /\ "component" \in Logs
        BY TimesAre DEF Logs
      <3>3. CASE Link(p) /\ dated' = [dated EXCEPT ![chosen[p][1]][chosen[p][2]] = current]
        <4>1. chosen[p][1] # "component" /\ current \in Nat \cup {NoFile}
          BY <3>3, FilesAre DEF Link, Linkers, DirTypes
        <4> QED
          BY <3>2, <3>3, <4>1, NameGiven
      <3>4. CASE dated' = [dated EXCEPT ![chosen[p][1]][chosen[p][2]] = NoFile]
        BY <3>2, <3>4, NameGiven
      <3> QED
        BY <3>1, <3>3, <3>4
    <2>3. \A q \in Loggers : handle'[q]["component"] \in {handle[q]["component"], NoFile}
      <3>1. "component" \in Logs /\ handle \in [Loggers -> [Logs -> Nat \cup {NoFile}]]
        BY DEF Logs, DirTypes
      <3>2. CASE OpenErrorLog(p)
        BY <3>1, <3>2 DEF OpenErrorLog
      <3>3. CASE Restart(p)
        BY <3>1, <3>3 DEF Restart
      <3>4. CASE ~OpenErrorLog(p) /\ ~Restart(p)
        BY <1>4, <3>4 DEF Acts, Unswept, Sweeps, Link, Unlink, MigrationFinds, RemoveLegacy,
                          SweepFinds, Delete, SweepEnds, diskVars
      <3> QED
        BY <3>2, <3>3, <3>4
    <2> QED
      BY <1>1, <2>1, <2>2, <2>3, OwnQuiet
  <1> QED
    BY <1>2, <1>3, <1>4, <1>5

-----------------------------------------------------------------------------
LEMMA SweepInit ==
    ASSUME Numbers, LogInit
    PROVE  SweepInv
  <1>1. DirTypes
    BY DirTypesInit
  <1>2. /\ today = 0 /\ current = NoFile /\ retention \in Nat
        /\ dated = [l \in Logs |-> [d \in Days |-> NoFile]]
        /\ step = [p \in Loggers |-> "starting"]
        /\ looked = [p \in Loggers |-> NoFile]
        /\ handle = [p \in Loggers |-> [l \in Logs |-> NoFile]]
        /\ "errors" \in Logs /\ "component" \in Logs
    BY DEF LogInit, Numbers, Logs
  <1>3. /\ \A l \in Logs : \A f \in DOMAIN mtime[l] : mtime[l][f] = 0
        /\ \A l \in written : l.log = "component" /\ l.day = 0
    <2>1. CASE /\ written = {}
               /\ mtime = [errors |-> <<>>, component |-> <<>>]
      <3>1. mtime["errors"] = <<>> /\ mtime["component"] = <<>>
        BY <2>1
      <3> QED
        BY <2>1, <3>1 DEF Logs
    <2>2. CASE /\ written = {LineIn(0, "component", 1, FALSE)}
               /\ mtime = [errors |-> <<>>, component |-> <<0>>]
      <3>1. mtime["errors"] = <<>> /\ mtime["component"] = <<0>>
        BY <2>2
      <3>2. \A l \in written : l.log = "component" /\ l.day = today
        BY <2>2, LineFields
      <3> QED
        BY <1>2, <3>1, <3>2 DEF Logs
    <2> QED
      BY <2>1, <2>2 DEF LogInit
  <1>4. \A p \in Loggers : step[p] = "starting" /\ handle[p]["component"] = NoFile
    BY <1>2
  <1>5. \A l \in Logs, d \in Days : dated[l][d] = NoFile
    BY <1>2
  <1>6. Retained /\ Linkers /\ ErrorSweeps /\ OwnSweeps
    BY <1>2, <1>4 DEF Retained, Linkers, ErrorSweeps, OwnSweeps, SweepsAt
  <1>7. FileTimes
    BY <1>2, <1>3 DEF FileTimes
  <1>8. OwnDays
    <2>1. \A l \in written : l.file # NoFile
      <3>1. \A l \in written : l.log \in Logs /\ l.file \in DOMAIN mtime[l.log]
        BY <1>1 DEF DirTypes
      <3>2. \A l \in Logs : NoFile \notin DOMAIN mtime[l]
        BY <1>1, TimesAre
      <3> QED
        BY <3>1, <3>2
    <2>2. \A d \in Days : 0 <= d
      <3>1. \A d \in Days : d \in Nat
        BY <1>1, TimesAre
      <3> QED
        BY <3>1
    <2> QED
      BY <1>2, <1>3, <1>4, <1>5, <2>1, <2>2 DEF OwnDays, IsOpen
  <1> QED
    BY <1>1, <1>6, <1>7, <1>8 DEF SweepInv

LEMMA SweepNext ==
    ASSUME Numbers, SweepInv, [LogNext]_logVars
    PROVE  SweepInv'
  <1>0. /\ DirTypes /\ Retained /\ Linkers
        /\ FileTimes /\ ErrorSweeps /\ OwnDays /\ OwnSweeps
    BY DEF SweepInv
  <1>1. ASSUME NEW p \in Loggers, Acts(p)
        PROVE  SweepInv'
    <2>1. DirTypes'
      BY <1>0, <1>1, DirTypesStep DEF Acts, Linkers
    <2>2. /\ Retained' /\ UNCHANGED <<retention, today>>
          /\ \A q \in Loggers \ {p} : step'[q] = step[q] /\ chosen'[q] = chosen[q]
          /\ step'[p] = "deleting" => SweepFinds(p)
      BY <1>0, <1>1, ControlStep
    <2>3. Linkers' /\ FileTimes' /\ ErrorSweeps'
      BY <1>0, <1>1, <2>1, ErrorsStep
    <2>4. OwnDays'
      BY <1>0, <1>1, <2>1, OwnDaysStep
    <2>5. ASSUME NEW q \in Loggers, SweepsAt(q, "component")'
          PROVE  chosen'[q][2] <= today' - retention'
      <3>1. CASE q = p
        <4>1. SweepFinds(p)
          BY <2>2, <2>5, <3>1 DEF SweepsAt
        <4>2. PICK l \in Logs, d \in Days :
                /\ dated[l][d] # NoFile /\ mtime[l][dated[l][d]] <= today - retention
                /\ chosen' = [chosen EXCEPT ![p] = <<l, d>>]
          BY <4>1 DEF SweepFinds, MayBeOld, Chooses
        <4>3. l = "component" /\ chosen'[p][2] = d
          BY <1>0, <2>5, <3>1, <4>2 DEF SweepsAt, DirTypes
        <4>4. mtime[l][dated[l][d]] >= d
          BY <1>0, <4>2, <4>3 DEF OwnDays
        <4>5. mtime[l][dated[l][d]] \in Nat /\ d \in Nat /\ today \in Nat /\ retention \in Nat
          BY <1>0, <4>2, TimesAre DEF Retained
        <4> QED
          BY <2>2, <3>1, <4>2, <4>3, <4>4, <4>5
      <3>2. CASE q # p
        BY <1>0, <2>2, <2>5, <3>2 DEF OwnSweeps, SweepsAt
      <3> QED
        BY <3>1, <3>2
    <2>6. OwnSweeps'
      BY <2>5 DEF OwnSweeps
    <2> QED
      BY <2>1, <2>2, <2>3, <2>4, <2>6 DEF SweepInv
  <1>2. CASE HookAppends \/ NewDay
    <2>1. DirTypes'
      BY <1>0, <1>2, HookAppendsTypes, NewDayTypes
    <2>2. /\ UNCHANGED <<retention, dated, legacy, step, chosen, looked>>
          /\ today \in Nat /\ retention \in Nat
      BY <1>0, <1>2, TimesAre DEF HookAppends, NewDay, world, diskVars, Retained
    <2>3. /\ FilesGrow /\ ErrorsGrow /\ today' >= today
          /\ \A l \in written' \ written : l.log # "component"
          /\ \/ /\ UNCHANGED today
                /\ \A q \in Loggers : handle'[q]["component"] \in {handle[q]["component"], NoFile}
             \/ \A q \in Loggers : handle'[q]["component"] = NoFile
      <3>1. CASE HookAppends
        BY <1>0, <2>2, <3>1, HookGrows DEF HookAppends, world
      <3>2. CASE NewDay
        <4>1. /\ UNCHANGED <<mtime, current, written>> /\ today' = today + 1
              /\ \A q \in Loggers : handle'[q]["component"] = NoFile
          BY <1>0, <3>2, NewDayTypes
        <4> QED
          BY <2>2, <4>1 DEF FilesGrow, ErrorsGrow
      <3> QED
        BY <1>2, <3>1, <3>2
    <2>4. FileTimes' /\ ErrorSweeps'
      BY <1>0, <2>1, <2>2, <2>3, ErrorsQuiet
    <2>5. Linkers'
      BY <1>0, <2>2 DEF Linkers
    <2>6. OwnDays'
      BY <1>0, <2>1, <2>2, <2>3, OwnQuiet
    <2>7. Retained'
      BY <1>0, <2>2 DEF Retained
    <2>8. ASSUME NEW q \in Loggers, SweepsAt(q, "component")'
          PROVE  chosen'[q][2] <= today' - retention'
      <3>1. chosen[q][2] <= today - retention /\ chosen'[q] = chosen[q] /\ chosen[q][2] \in Nat
        BY <1>0, <2>2, <2>8, TimesAre DEF OwnSweeps, SweepsAt
      <3>2. today' \in Nat
        BY <2>1, <1>0, TimesAre DEF DirTypes, Days
      <3> QED
        BY <2>2, <2>3, <3>1, <3>2
    <2>9. OwnSweeps'
      BY <2>8 DEF OwnSweeps
    <2> QED
      BY <2>1, <2>4, <2>5, <2>6, <2>7, <2>9 DEF SweepInv
  <1>3. CASE UNCHANGED logVars
    <2>1. UNCHANGED <<retention, today, mtime, current, dated, legacy, written, step, chosen,
                      looked, handle>>
      BY <1>3 DEF logVars, world, diskVars
    <2>2. DirTypes' /\ Retained' /\ Linkers' /\ FileTimes'
      BY <1>0, <2>1 DEF DirTypes, FilesOf, Retained, Linkers, FileTimes
    <2>3. ErrorSweeps' /\ OwnSweeps'
      BY <1>0, <2>1 DEF ErrorSweeps, OwnSweeps, SweepsAt
    <2>4. OwnDays'
      BY <1>0, <2>1 DEF OwnDays, IsOpen
    <2> QED
      BY <2>2, <2>3, <2>4 DEF SweepInv
  <1> QED
    BY <1>1, <1>2, <1>3 DEF LogNext, Acts, Unswept, Sweeps

\* What a sweep is about to delete, by the invariant.
LEMMA DeletedIsOld ==
    ASSUME Numbers, SweepInv, NEW p \in Loggers, step[p] = "deleting",
           NEW l \in written, l.log = chosen[p][1], l.file = Chosen(p), ~l.doomed,
           l.log = "component" \/ l.file = looked[p]
    PROVE  l.day <= today - retention
  <1>0. /\ DirTypes /\ Retained /\ ErrorSweeps /\ OwnDays /\ OwnSweeps
    BY DEF SweepInv
  <1>1. /\ chosen[p][1] \in {"errors", "component"} /\ chosen[p][2] \in Days
        /\ chosen[p][2] \in Nat /\ today \in Nat /\ retention \in Nat
    BY <1>0, TimesAre DEF Logs, Retained
  <1>2. l.file # NoFile
    BY <1>0, TimesAre DEF DirTypes
  <1>3. CASE chosen[p][1] = "component"
    <2>1. l.day \in Nat /\ l.day <= chosen[p][2] /\ chosen[p][2] <= today - retention
      BY <1>0, <1>1, <1>3 DEF OwnDays, OwnSweeps, SweepsAt, Chosen
    <2> QED
      BY <1>1, <2>1
  <1>4. CASE chosen[p][1] = "errors"
    BY <1>0, <1>4 DEF ErrorSweeps, SweepsAt
  <1> QED
    BY <1>1, <1>3, <1>4

\* SweepDeletesOldFiles: what a sweep deletes is old, however many processes
\* log, rotate, migrate and sweep at once, whichever handler is still open on
\* the file and whoever is held up or killed; but for lines that came after the
\* sweep had looked, and files of the shared log that got the name after that.
THEOREM SweepsTakeOldFiles == LogSpec => SweepDeletesOldFiles
  <1>0. Numbers
    BY ErrorLogAssumption DEF Numbers
  <1>1. LogInit => SweepInv
    BY <1>0, SweepInit
  <1>2. SweepInv /\ [LogNext]_logVars => SweepInv'
    BY <1>0, SweepNext
  <1>3. SweepInv =>
          [\A p \in Loggers : step[p] = "deleting" /\ step'[p] = "sweeping" =>
             \A l \in written :
               /\ l.log = chosen[p][1] /\ l.file = Chosen(p) /\ ~l.doomed
               /\ l.log = "component" \/ l.file = looked[p]
               => l.day <= today - retention]_logVars
    BY <1>0, DeletedIsOld
  <1> QED
    BY <1>1, <1>2, <1>3, PTL DEF LogSpec, SweepDeletesOldFiles
=============================================================================
