----------------------------- MODULE CbLogProofs -----------------------------
(***************************************************************************)
(* Theorems about CbLog, for any number of threads, files and entries.     *)
(***************************************************************************)
EXTENDS CbLog, SequenceTheorems, TLAPS

Labels == {"idle", "closing", "destroying", "tested", "inside", "writing",
           "rotating", "reopening", "leaving", "flushing"}

LogTypeOK ==
  /\ initialized \in BOOLEAN /\ open \in BOOLEAN
  /\ pc \in [Threads -> Labels]

\* Why the holder alone is at the file: a mutex is destroyed, and a file
\* closed for good, only once the flag is cleared, and who gets past the mutex
\* after that finds no file.
Guarded ==
  /\ lock = "none" \/ pc[Main] = "destroying" => initialized = FALSE
  /\ initialized = FALSE => open = FALSE
  /\ \A t \in Threads : pc[t] \in {"inside", "leaving"} => lock = t \/ initialized = FALSE
  /\ \A t \in Threads :
       /\ pc[t] \in {"writing", "rotating", "reopening"} => lock = t /\ initialized = TRUE
       /\ pc[t] = "writing" => open = TRUE

LogInv == LogTypeOK /\ Guarded

LEMMA LockNames == "none" \notin Threads /\ "free" \notin Threads /\ Main \in Threads
BY LogAssumption DEF LogAssumption, Threads

LEMMA InitInv == Init => LogInv
BY LockNames DEF Init, LogInv, LogTypeOK, Guarded, Labels

\* Main's own steps and those of the environment.
LEMMA MainInv ==
  ASSUME LogInv,
         (\E ok \in BOOLEAN : LogInit(ok)) \/ ShutdownTest \/ Close \/ Destroy \/ Tick \/ Crash
  PROVE  LogInv'
<1> USE LockNames DEF LogInv, LogTypeOK, Guarded, Labels, fileVars, Goto
<1>1. ASSUME NEW ok \in BOOLEAN, LogInit(ok) PROVE LogInv'
  BY <1>1 DEF LogInit, OpenFile, AllIdle
<1>2. CASE ShutdownTest
  BY <1>2 DEF ShutdownTest
<1>3. CASE Close
  BY <1>3 DEF Close
<1>4. CASE Destroy
  BY <1>4 DEF Destroy
<1>5. CASE Tick
  BY <1>5 DEF Tick
<1>6. CASE Crash
  BY <1>6 DEF Crash
<1> QED
  BY <1>1, <1>2, <1>3, <1>4, <1>5, <1>6

\* The steps of a call that writes or flushes.
LEMMA ThreadInv ==
  ASSUME LogInv, NEW t \in Threads, WriteTest(t) \/ Inside(t) \/ Flush(t)
  PROVE  LogInv'
<1> USE LockNames DEF LogInv, LogTypeOK, Guarded, Labels, fileVars, Goto
<1>1. CASE WriteTest(t)
  BY <1>1 DEF WriteTest
<1>2. CASE Acquire(t)
  BY <1>2 DEF Acquire
<1>3. CASE SeeFile(t)
  BY <1>3 DEF SeeFile
<1>4. CASE WriteEntry(t)
  BY <1>4 DEF WriteEntry
<1>5. CASE Leave(t)
  BY <1>5 DEF Leave
<1>6. CASE RotateStep(t)
  BY <1>6 DEF RotateStep
<1>7. CASE RotateCurrent(t)
  BY <1>7 DEF RotateCurrent
<1>8. ASSUME NEW ok \in BOOLEAN, Reopen(t, ok) PROVE LogInv'
  BY <1>8 DEF Reopen, OpenFile
<1>9. CASE Flush(t)
  BY <1>9 DEF Flush
<1> QED
  BY <1>1, <1>2, <1>3, <1>4, <1>5, <1>6, <1>7, <1>8, <1>9 DEF Inside

LEMMA NextInv == LogInv /\ [Next]_vars => LogInv'
<1> SUFFICES ASSUME LogInv, [Next]_vars PROVE LogInv'
  OBVIOUS
<1>1. CASE UNCHANGED vars
  BY <1>1 DEF vars, fileVars, LogInv, LogTypeOK, Guarded
<1> QED
  BY <1>1, MainInv, ThreadInv DEF Next

\* cb_log_write tests the flag before it locks, and cb_log_shutdown destroys
\* the mutex: whatever the number of threads and their timing, the file is
\* used by the holder of a valid mutex only.
THEOREM FileIsGuarded == Spec => []FileByHolder
<1>1. LogInv => FileByHolder
  BY DEF LogInv, LogTypeOK, Guarded, FileByHolder
<1> QED
  BY InitInv, NextInv, <1>1, PTL DEF Spec

-----------------------------------------------------------------------------
(***************************************************************************)
(* The files.  A file is a sequence of numbers that were given to entries, *)
(* its second is not later than that of the open log, and an open log has  *)
(* its file.  While a thread rotates, a file under the suffix it will move *)
(* the next one to is one that a rename failed to move, or the oldest.     *)
(***************************************************************************)
FilesTyped ==
  /\ written \in Nat /\ now \in 0 .. MaxTime /\ path \in 0 .. now
  /\ index \in [Threads -> 0 .. (MaxRotated - 1)]
  /\ DOMAIN files \subseteq Names
  /\ \A n \in DOMAIN files :
       /\ n[1] <= path /\ files[n] \in Seq(Nat)
       /\ \A i \in 1 .. Len(files[n]) : files[n][i] <= written
  /\ open => <<path, 0>> \in DOMAIN files

\* InOrder, with the indices of a sequence spelled out.
Ordered(fs) ==
  /\ \A n \in DOMAIN fs : \A i, j \in 1 .. Len(fs[n]) : i < j => fs[n][i] < fs[n][j]
  /\ \A m, n \in DOMAIN fs :
       m # n /\ (m[1] < n[1] \/ (m[1] = n[1] /\ m[2] > n[2])) =>
         \A i \in 1 .. Len(fs[m]), j \in 1 .. Len(fs[n]) : fs[m][i] < fs[n][j]

MovedOn ==
  \A t \in Threads :
    pc[t] = "rotating" /\ index[t] < MaxRotated - 1 =>
      <<path, index[t] + 1>> \notin DOMAIN files \/ <<path, index[t] + 1>> \in stayed

FilesInv == FilesTyped /\ MovedOn

LEMMA NameParts ==
  ASSUME NEW n \in Names
  PROVE  n = <<n[1], n[2]>> /\ n[1] \in 0 .. MaxTime /\ n[2] \in 0 .. MaxRotated
BY DEF Names

LEMMA FilesInit == Init => FilesInv /\ Ordered(files)
<1> SUFFICES ASSUME Init PROVE FilesInv /\ Ordered(files)
  OBVIOUS
<1>1. DOMAIN files = {}
  BY DEF Init
<1>2. MaxTime \in Nat /\ MaxRotated \in Nat \ {0}
  BY LogAssumption DEF LogAssumption
<1> QED
  BY <1>1, <1>2 DEF Init, FilesInv, FilesTyped, MovedOn, Ordered

\* A log is opened.
LEMMA OpenFiles ==
  ASSUME FilesTyped, Ordered(files), NEW ok \in BOOLEAN, OpenFile(ok)
  PROVE  /\ path' = now /\ DOMAIN files' \subseteq Names /\ DOMAIN files \subseteq DOMAIN files'
         /\ \A n \in DOMAIN files' :
              /\ n[1] <= path' /\ files'[n] \in Seq(Nat)
              /\ \A i \in 1 .. Len(files'[n]) : files'[n][i] <= written
         /\ open' => <<path', 0>> \in DOMAIN files'
         /\ \A n \in DOMAIN files : files'[n] = files[n]
         /\ Ordered(files)'
<1>1. CASE files' = files
  <2>1. path' = now /\ \A n \in DOMAIN files : n[1] <= now
    BY NameParts, LogAssumption DEF OpenFile, FilesTyped, LogAssumption
  <2>2. open' => <<now, 0>> \in DOMAIN files
    BY <1>1 DEF OpenFile, Exists, Put
  <2>3. Ordered(files)'
    BY <1>1
  <2> QED
    BY <1>1, <2>1, <2>2, <2>3 DEF FilesTyped
<1>2. CASE ~(files' = files)
  <2> DEFINE new == <<now, 0>>
  <2>1. /\ ok /\ new \notin DOMAIN files /\ open' = TRUE /\ path' = now
        /\ files' = [x \in DOMAIN files \cup {new} |-> IF x = new THEN <<>> ELSE files[x]]
    BY <1>2 DEF OpenFile, Exists, Put
  <2>2. new \in Names /\ new[1] = now /\ new[2] = 0
    BY LogAssumption DEF FilesTyped, Names, LogAssumption
  <2>3. files'[new] = <<>> /\ Len(files'[new]) = 0 /\ files'[new] \in Seq(Nat)
    BY <2>1
  <2>4. /\ DOMAIN files' = DOMAIN files \cup {new}
        /\ \A n \in DOMAIN files : files'[n] = files[n]
    BY <2>1
  <2>5. \A n \in DOMAIN files : n[1] <= now
    BY NameParts, LogAssumption DEF FilesTyped, LogAssumption
  <2> HIDE DEF new
  <2>6. Ordered(files)'
    <3>1. \A n \in DOMAIN files : Len(files'[n]) = Len(files[n]) /\ files'[n] = files[n]
      BY <2>4
    <3>2. 1 .. Len(files'[new]) = {}
      BY <2>3
    <3> QED
      BY <2>4, <3>1, <3>2 DEF Ordered
  <2>7. /\ open' => <<path', 0>> \in DOMAIN files'
    BY <2>1, <2>4 DEF new
  <2> QED
    BY <2>1, <2>2, <2>3, <2>4, <2>5, <2>6, <2>7 DEF FilesTyped
<1> QED
  BY <1>1, <1>2

\* A file takes the place of its follower.
LEMMA RenameFiles ==
  ASSUME FilesTyped, Ordered(files), NEW k \in 0 .. (MaxRotated - 1),
         Move(<<path, k>>, <<path, k + 1>>)
  PROVE  /\ DOMAIN files' \subseteq Names /\ <<path, k>> \notin DOMAIN files'
         /\ \A n \in DOMAIN files' :
              /\ n[1] <= path /\ files'[n] \in Seq(Nat)
              /\ \A i \in 1 .. Len(files'[n]) : files'[n][i] <= written
         /\ \A n \in DOMAIN files \ {<<path, k>>, <<path, k + 1>>} :
              n \in DOMAIN files' /\ files'[n] = files[n]
         /\ <<path, k>> \in DOMAIN files =>
              /\ <<path, k + 1>> \in DOMAIN files'
              /\ files'[<<path, k + 1>>] = files[<<path, k>>]
         /\ <<path, k>> \notin DOMAIN files => files' = files
         /\ Ordered(files)'
<1> DEFINE a == <<path, k>>
           b == <<path, k + 1>>
<1>1. CASE a \notin DOMAIN files
  BY <1>1 DEF Move, Exists, FilesTyped, Ordered
<1>2. CASE a \in DOMAIN files
  <2>1. files' = [x \in (DOMAIN files \ {a}) \cup {b} |-> IF x = b THEN files[a] ELSE files[x]]
    BY <1>2 DEF Move, Exists
  <2>2. /\ a # b /\ a[1] = path /\ b[1] = path /\ a[2] = k /\ b[2] = k + 1
        /\ a \in Names /\ b \in Names
    BY LogAssumption DEF FilesTyped, Names, LogAssumption
  <2>3. \A n \in Names : n = <<n[1], n[2]>> /\ n[1] \in Int /\ n[2] \in Int
    BY NameParts, LogAssumption DEF LogAssumption
  <2>4. \A n \in Names : n[1] = path /\ n[2] = k => n = a
    BY <2>3
  <2>5. path \in Int /\ k \in Int
    BY LogAssumption DEF FilesTyped, LogAssumption
  <2>6. /\ DOMAIN files' = (DOMAIN files \ {a}) \cup {b}
        /\ files'[b] = files[a]
        /\ \A n \in DOMAIN files \ {a, b} : files'[n] = files[n]
    BY <2>1, <2>2
  <2> HIDE DEF a, b
  <2>7. Ordered(files)'
    <3>1. \A n \in DOMAIN files' : n # b => n \in DOMAIN files /\ n # a /\ files'[n] = files[n]
      BY <2>6
    <3>2. ASSUME NEW n \in DOMAIN files', n # b,
                 b[1] < n[1] \/ (b[1] = n[1] /\ b[2] > n[2])
          PROVE  a # n /\ (a[1] < n[1] \/ (a[1] = n[1] /\ a[2] > n[2]))
      BY <2>2, <2>3, <2>4, <2>5, <3>1, <3>2 DEF FilesTyped
    <3>3. ASSUME NEW n \in DOMAIN files', n # b,
                 n[1] < b[1] \/ (n[1] = b[1] /\ n[2] > b[2])
          PROVE  a # n /\ (n[1] < a[1] \/ (n[1] = a[1] /\ n[2] > a[2]))
      BY <2>2, <2>3, <2>4, <2>5, <3>1, <3>3 DEF FilesTyped
    <3>4. \A n \in DOMAIN files' :
            \A i, j \in 1 .. Len(files'[n]) : i < j => files'[n][i] < files'[n][j]
      BY <1>2, <2>6, <3>1 DEF Ordered
    <3>5. ASSUME NEW m \in DOMAIN files', NEW n \in DOMAIN files', m # n,
                 m[1] < n[1] \/ (m[1] = n[1] /\ m[2] > n[2])
          PROVE  \A i \in 1 .. Len(files'[m]), j \in 1 .. Len(files'[n]) :
                   files'[m][i] < files'[n][j]
      <4>1. CASE m = b
        BY <1>2, <2>6, <3>1, <3>2, <3>5, <4>1 DEF Ordered
      <4>2. CASE n = b
        BY <1>2, <2>6, <3>1, <3>3, <3>5, <4>2 DEF Ordered
      <4>3. CASE m # b /\ n # b
        BY <3>1, <3>5, <4>3 DEF Ordered
      <4> QED
        BY <4>1, <4>2, <4>3
    <3> QED
      BY <3>4, <3>5 DEF Ordered
  <2>8. \A n \in DOMAIN files' :
          /\ n[1] <= path /\ files'[n] \in Seq(Nat)
          /\ \A i \in 1 .. Len(files'[n]) : files'[n][i] <= written
    BY <1>2, <2>2, <2>5, <2>6 DEF FilesTyped
  <2>9. a \notin DOMAIN files' /\ DOMAIN files' \subseteq Names
    BY <2>2, <2>6 DEF FilesTyped
  <2>10. /\ \A n \in DOMAIN files \ {a, b} : n \in DOMAIN files' /\ files'[n] = files[n]
         /\ b \in DOMAIN files'
    BY <2>6
  <2> QED
    BY <1>2, <2>6, <2>7, <2>8, <2>9, <2>10 DEF a, b
<1> QED
  BY <1>1, <1>2

LEMMA AppendPrefix ==
  ASSUME NEW S, NEW s \in Seq(S), NEW e \in S
  PROVE  IsPrefix(s, Append(s, e))
<1> DEFINE t == Append(s, e)
<1>1. /\ t \in Seq(S) /\ Len(s) \in Nat /\ Len(t) = Len(s) + 1
      /\ \A i \in 1 .. Len(s) : t[i] = s[i] /\ s[i] \in S
  BY AppendProperties, LenProperties, ElementOfSeq
<1> HIDE DEF t
<1>2. \A i \in 1 .. Len(s) : t[i] \in S
  BY <1>1
<1>3. /\ SubSeq(s, 1, Len(s)) \in Seq(S)
      /\ Len(SubSeq(s, 1, Len(s))) = IF 1 <= Len(s) THEN Len(s) - 1 + 1 ELSE 0
      /\ \A i \in 1 .. Len(s) - 1 + 1 : SubSeq(s, 1, Len(s))[i] = s[1 + i - 1]
  BY <1>1, SubSeqProperties
<1>4. /\ SubSeq(t, 1, Len(s)) \in Seq(S)
      /\ Len(SubSeq(t, 1, Len(s))) = IF 1 <= Len(s) THEN Len(s) - 1 + 1 ELSE 0
      /\ \A i \in 1 .. Len(s) - 1 + 1 : SubSeq(t, 1, Len(s))[i] = t[1 + i - 1]
  BY <1>1, <1>2, SubSeqProperties
<1>5. SubSeq(s, 1, Len(s)) = SubSeq(t, 1, Len(s))
  BY <1>1, <1>3, <1>4, SeqEqual
<1> QED
  BY <1>1, <1>5 DEF IsPrefix, t

\* An entry is appended to the newest file.
LEMMA WriteFiles ==
  ASSUME LogInv, FilesInv, Ordered(files), NEW t \in Threads, WriteEntry(t)
  PROVE  /\ FilesInv' /\ Ordered(files)'
         /\ \A n \in DOMAIN files :
              n \in DOMAIN files' /\ IsPrefix(files[n], files'[n])
<1> DEFINE cur == <<path, 0>>
           s == files[cur]
           e == written + 1
<1>1. /\ pc[t] = "writing" /\ open = TRUE /\ cur \in DOMAIN files /\ lock = t
      /\ written' = e /\ files' = Put(files, cur, Append(s, e))
      /\ UNCHANGED <<open, path, now>>
  BY DEF WriteEntry, Goto, LogInv, Guarded, FilesInv, FilesTyped
<1>2. cur[1] = path /\ cur[2] = 0 /\ e \in Nat /\ written \in Nat
  BY DEF FilesInv, FilesTyped
<1>3. /\ s \in Seq(Nat) /\ Len(s) \in Nat
      /\ \A i \in 1 .. Len(s) : s[i] <= written /\ s[i] \in Nat
  BY <1>1, LenProperties, ElementOfSeq DEF FilesInv, FilesTyped
<1>4. /\ Append(s, e) \in Seq(Nat) /\ Len(Append(s, e)) = Len(s) + 1
      /\ \A i \in 1 .. Len(s) : Append(s, e)[i] = s[i]
      /\ Append(s, e)[Len(s) + 1] = e
  BY <1>2, <1>3, AppendProperties
<1>5. /\ DOMAIN files' = DOMAIN files /\ files'[cur] = Append(s, e)
      /\ \A n \in DOMAIN files : n # cur => files'[n] = files[n]
  BY <1>1 DEF Put
<1>6. \A n \in DOMAIN files : /\ n = <<n[1], n[2]>> /\ n[1] \in Int /\ n[2] \in Nat
                               /\ n[1] <= path /\ path \in Int
                               /\ \A i \in 1 .. Len(files[n]) :
                                    files[n][i] <= written /\ files[n][i] \in Nat
  <2>1. MaxTime \in Nat /\ MaxRotated \in Nat /\ path \in Int
    BY LogAssumption DEF LogAssumption, FilesInv, FilesTyped
  <2> SUFFICES ASSUME NEW n \in DOMAIN files
               PROVE  /\ n = <<n[1], n[2]>> /\ n[1] \in Int /\ n[2] \in Nat
                      /\ n[1] <= path
                      /\ \A i \in 1 .. Len(files[n]) :
                           files[n][i] <= written /\ files[n][i] \in Nat
    BY <2>1
  <2>2. n \in Names /\ n[1] <= path /\ files[n] \in Seq(Nat)
        /\ \A i \in 1 .. Len(files[n]) : files[n][i] <= written
    BY DEF FilesInv, FilesTyped
  <2>3. n = <<n[1], n[2]>> /\ n[1] \in Int /\ n[2] \in Nat
    BY <2>1, <2>2, NameParts
  <2>4. \A i \in 1 .. Len(files[n]) : files[n][i] \in Nat
    BY <2>2, ElementOfSeq
  <2> QED
    BY <2>2, <2>3, <2>4
<1> HIDE DEF cur, s, e
<1>7. FilesTyped'
  <2>1. \A n \in DOMAIN files' :
          /\ n[1] <= path /\ files'[n] \in Seq(Nat)
          /\ \A i \in 1 .. Len(files'[n]) : files'[n][i] <= written'
    <3>1. ASSUME NEW n \in DOMAIN files, n # cur, NEW i \in 1 .. Len(files[n])
          PROVE  files[n][i] <= written'
      BY <1>1, <1>2, <1>6, <3>1 DEF e
    <3>2. ASSUME NEW i \in 1 .. Len(s) + 1 PROVE Append(s, e)[i] <= e
      <4>1. i \in 1 .. Len(s) \/ i = Len(s) + 1
        BY <1>3
      <4> QED
        BY <1>2, <1>3, <1>4, <4>1 DEF e
    <3>3. ASSUME NEW n \in DOMAIN files, n # cur
          PROVE  /\ n[1] <= path /\ files'[n] \in Seq(Nat)
                 /\ \A i \in 1 .. Len(files'[n]) : files'[n][i] <= written'
      BY <1>5, <3>1, <3>3 DEF FilesInv, FilesTyped
    <3>4. /\ cur[1] <= path /\ files'[cur] \in Seq(Nat)
          /\ \A i \in 1 .. Len(files'[cur]) : files'[cur][i] <= written'
      BY <1>1, <1>2, <1>4, <1>5, <1>6, <3>2
    <3> QED
      BY <1>5, <3>3, <3>4
  <2>2. index' \in [Threads -> 0 .. (MaxRotated - 1)]
    <3>1. 0 \in 0 .. (MaxRotated - 1) /\ FirstToMove \in 0 .. (MaxRotated - 1)
      BY LogAssumption DEF LogAssumption, FirstToMove
    <3>2. \E x \in 0 .. (MaxRotated - 1) : index' = [index EXCEPT ![t] = x]
      BY <3>1 DEF WriteEntry
    <3> QED
      BY <3>2 DEF FilesInv, FilesTyped
  <2>3. open' => <<path', 0>> \in DOMAIN files'
    BY <1>1, <1>5 DEF cur
  <2> QED
    BY <1>1, <1>2, <1>5, <2>1, <2>2, <2>3 DEF FilesInv, FilesTyped
<1>8. MovedOn'
  <2>1. \A u \in Threads : pc'[u] = "rotating" => u = t
    BY <1>1, LockNames DEF WriteEntry, Goto, LogInv, LogTypeOK, Guarded
  <2>2. pc'[t] = "rotating" => index'[t] = MaxRotated - 1
    BY
       DEF WriteEntry, Goto, LogInv, LogTypeOK, FilesInv, FilesTyped,
           FirstToMove
  <2> QED
    BY <2>1, <2>2, LogAssumption DEF MovedOn, LogAssumption
<1>9. Ordered(files)'
  <2>1. ASSUME NEW m \in DOMAIN files', NEW n \in DOMAIN files', m # n,
               m[1] < n[1] \/ (m[1] = n[1] /\ m[2] > n[2])
        PROVE  \A i \in 1 .. Len(files'[m]), j \in 1 .. Len(files'[n]) :
                 files'[m][i] < files'[n][j]
    <3>1. m # cur
      BY <1>2, <1>5, <1>6, <2>1
    <3>2. CASE n # cur
      BY <1>5, <2>1, <3>1, <3>2 DEF Ordered
    <3>3. CASE n = cur
      <4> SUFFICES ASSUME NEW i \in 1 .. Len(files[m]), NEW j \in 1 .. Len(s) + 1
                   PROVE  files[m][i] < Append(s, e)[j]
        BY <1>4, <1>5, <3>1, <3>3
      <4>1. CASE j \in 1 .. Len(s)
        BY <1>4, <1>5, <2>1, <3>3, <4>1 DEF Ordered, s
      <4>2. CASE j = Len(s) + 1
        BY <1>2, <1>4, <1>5, <1>6, <4>2 DEF e
      <4> QED
        BY <1>3, <4>1, <4>2
    <3> QED
      BY <3>2, <3>3
  <2>2. ASSUME NEW n \in DOMAIN files', NEW i \in 1 .. Len(files'[n]),
               NEW j \in 1 .. Len(files'[n]), i < j
        PROVE  files'[n][i] < files'[n][j]
    <3>1. CASE n # cur
      BY <1>5, <2>2, <3>1 DEF Ordered
    <3>2. CASE n = cur
      <4>1. i \in 1 .. Len(s) /\ j \in 1 .. Len(s) + 1
        BY <1>3, <1>4, <1>5, <2>2, <3>2
      <4>2. CASE j \in 1 .. Len(s)
        BY <1>1, <1>4, <1>5, <2>2, <3>2, <4>1, <4>2 DEF Ordered, s
      <4>3. CASE j = Len(s) + 1
        <5>1. i \in 1 .. Len(s)
          BY <1>3, <2>2, <4>1, <4>3
        <5>2. s[i] <= written /\ s[i] \in Nat
          BY <1>3, <5>1
        <5>3. files'[n][i] = s[i] /\ files'[n][j] = e
          BY <1>4, <1>5, <3>2, <4>3, <5>1
        <5> QED
          BY <1>2, <5>2, <5>3 DEF e
      <4>4. j \in 1 .. Len(s) \/ j = Len(s) + 1
        BY <1>3, <4>1
      <4> QED
        BY <4>2, <4>3, <4>4
    <3> QED
      BY <3>1, <3>2
  <2> QED
    BY <2>1, <2>2 DEF Ordered
<1>10. \A n \in DOMAIN files : IsPrefix(files[n], files'[n])
  <2>1. ASSUME NEW n \in DOMAIN files, n # cur PROVE IsPrefix(files[n], files'[n])
    <3>1. Len(files[n]) \in Nat /\ files'[n] = files[n]
      BY <1>5, <2>1, LenProperties DEF FilesInv, FilesTyped
    <3> QED
      BY <3>1 DEF IsPrefix
  <2>2. IsPrefix(s, Append(s, e))
    BY <1>2, <1>3, AppendPrefix
  <2> QED
    BY <1>5, <2>1, <2>2 DEF s
<1> QED
  BY <1>5, <1>7, <1>8, <1>9, <1>10 DEF FilesInv

\* OnlyTheOldestIsLost, of one step.
Kept ==
  \A m \in DOMAIN files :
    Remains(m) \/ (m \in DOMAIN files' /\ (m[2] = MaxRotated \/ m \in stayed))

LEMMA SamePrefix ==
  ASSUME NEW S, NEW s \in Seq(S)
  PROVE  IsPrefix(s, s)
BY LenProperties DEF IsPrefix

\* Files that stay under their names are kept.
LEMMA StayKept ==
  ASSUME FilesInv,
         \A n \in DOMAIN files :
           n \in DOMAIN files' /\ (files'[n] = files[n] \/ IsPrefix(files[n], files'[n]))
  PROVE  Kept
<1>1. ASSUME NEW m \in DOMAIN files PROVE IsPrefix(files[m], files'[m])
  BY SamePrefix DEF FilesInv, FilesTyped
<1> QED
  BY <1>1 DEF Kept, Remains

\* Steps that leave the files and the log alone.
LEMMA OtherFiles ==
  ASSUME LogInv, FilesInv, Ordered(files),
         UNCHANGED <<files, stayed, path, index, written>>, now' = now \/ Tick,
         open' => open,
         \A t \in Threads : pc'[t] = "rotating" => pc[t] = "rotating"
  PROVE  FilesInv' /\ Ordered(files)' /\ Kept
<1>1. now \in 0 .. MaxTime /\ path \in 0 .. now /\ MaxTime \in Nat
  BY LogAssumption DEF FilesInv, FilesTyped, LogAssumption
<1>2. now' \in 0 .. MaxTime /\ path' \in 0 .. now'
  BY <1>1 DEF Tick
<1>3. FilesTyped'
  BY <1>2 DEF FilesInv, FilesTyped
<1> QED
  BY <1>3, StayKept DEF FilesInv, MovedOn

LEMMA RotateFiles ==
  ASSUME LogInv, FilesInv, Ordered(files), NEW t \in Threads, RotateStep(t) \/ RotateCurrent(t)
  PROVE  FilesInv' /\ Ordered(files)' /\ Kept
<1> DEFINE k == index[t]
           a == <<path, k>>
           b == <<path, k + 1>>
<1>1. /\ k \in 0 .. (MaxRotated - 1) /\ MaxRotated \in Nat /\ pc[t] = "rotating" /\ lock = t
      /\ path \in Nat /\ k \in Nat
  BY LogAssumption
     DEF RotateStep, RotateCurrent, Goto, LogInv, Guarded, FilesInv,
         FilesTyped,
     LogAssumption
<1>2. /\ Rename(a, b) /\ open' = FALSE /\ UNCHANGED <<path, written, now, lock>>
  BY DEF RotateStep, RotateCurrent
<1>3. ASSUME Move(a, b)
      PROVE  /\ DOMAIN files' \subseteq Names /\ a \notin DOMAIN files'
             /\ \A n \in DOMAIN files' :
                  /\ n[1] <= path /\ files'[n] \in Seq(Nat)
                  /\ \A i \in 1 .. Len(files'[n]) : files'[n][i] <= written
             /\ \A n \in DOMAIN files \ {a, b} : n \in DOMAIN files' /\ files'[n] = files[n]
             /\ a \in DOMAIN files => b \in DOMAIN files' /\ files'[b] = files[a]
             /\ a \notin DOMAIN files => files' = files
             /\ Ordered(files)'
  BY <1>1, <1>3, RenameFiles DEF FilesInv
<1>4. /\ Move(a, b) \/ files' = files
      /\ a \notin DOMAIN files' \/ a \in stayed'
  BY <1>2, <1>3 DEF Rename
<1>5. /\ DOMAIN files' \subseteq Names
      /\ \A n \in DOMAIN files' :
           /\ n[1] <= path /\ files'[n] \in Seq(Nat)
           /\ \A i \in 1 .. Len(files'[n]) : files'[n][i] <= written
      /\ Ordered(files)'
  <2>1. CASE Move(a, b)
    BY <1>3, <2>1
  <2>2. CASE files' = files
    <3>1. Ordered(files)'
      BY <2>2 DEF Ordered
    <3> QED
      BY <2>2, <3>1 DEF FilesInv, FilesTyped
  <2> QED
    BY <1>4, <2>1, <2>2
<1>6. a[1] = path /\ b[1] = path /\ a[2] = k /\ b[2] = k + 1
  OBVIOUS
<1>7. FilesTyped'
  <2>1. index' \in [Threads -> 0 .. (MaxRotated - 1)]
    <3>1. index \in [Threads -> 0 .. (MaxRotated - 1)]
      BY DEF FilesInv, FilesTyped
    <3>2. CASE RotateStep(t)
      BY <1>1, <3>1, <3>2 DEF RotateStep
    <3>3. CASE RotateCurrent(t)
      BY <3>1, <3>3 DEF RotateCurrent
    <3> QED
      BY <3>2, <3>3
  <2> QED
    BY <1>2, <1>5, <2>1 DEF FilesInv, FilesTyped
<1>8. MovedOn'
  <2>1. \A u \in Threads : pc'[u] = "rotating" => u = t
    BY <1>1, LockNames
       DEF RotateStep, RotateCurrent, Goto, LogInv, LogTypeOK, Guarded
  <2>2. pc'[t] = "rotating" => index'[t] = k - 1 /\ k # 0
    BY <1>1
       DEF RotateStep, RotateCurrent, Goto, LogInv, LogTypeOK, FilesInv,
           FilesTyped
  <2>3. pc'[t] = "rotating" =>
          \/ <<path', index'[t] + 1>> \notin DOMAIN files'
          \/ <<path', index'[t] + 1>> \in stayed'
    <3>1. path' = path /\ (a \notin DOMAIN files' \/ a \in stayed')
      BY <1>2, <1>4
    <3>2. pc'[t] = "rotating" => index'[t] + 1 = k
      BY <1>1, <2>2
    <3> QED
      BY <3>1, <3>2
  <2> QED
    BY <2>1, <2>3 DEF MovedOn
<1>9. Kept
  <2>1. CASE files' = files
    BY <2>1, StayKept
  <2>2. CASE Move(a, b)
    <3> SUFFICES ASSUME NEW m \in DOMAIN files
                 PROVE  \/ Remains(m)
                        \/ m \in DOMAIN files' /\ (m[2] = MaxRotated \/ m \in stayed)
      BY DEF Kept
    <3>1. IsPrefix(files[m], files[m])
      BY SamePrefix DEF FilesInv, FilesTyped
    <3>2. CASE m = a
      BY <1>3, <1>6, <2>2, <3>1, <3>2 DEF Remains
    <3>3. CASE m = b
      <4>1. k + 1 = MaxRotated \/ b \in stayed
        BY <1>1, <3>3 DEF FilesInv, MovedOn
      <4>2. m \in DOMAIN files'
        BY <1>3, <2>2, <3>3
      <4> QED
        BY <1>6, <3>3, <4>1, <4>2
    <3>4. CASE m \notin {a, b}
      BY <1>3, <2>2, <3>1, <3>4 DEF Remains
    <3> QED
      BY <3>2, <3>3, <3>4
  <2> QED
    BY <1>4, <2>1, <2>2
<1> QED
  BY <1>5, <1>7, <1>8, <1>9 DEF FilesInv

LEMMA FilesNext ==
  ASSUME LogInv, FilesInv, Ordered(files), [Next]_vars
  PROVE  FilesInv' /\ Ordered(files)' /\ Kept
<1> USE DEF Goto, fileVars
<1>1. ASSUME NEW ok \in BOOLEAN, OpenFile(ok),
             UNCHANGED <<written, now, index>>,
             \A t \in Threads : pc'[t] # "rotating"
      PROVE  FilesInv' /\ Ordered(files)' /\ Kept
  <2>1. now \in 0 .. MaxTime /\ MaxTime \in Nat
    BY LogAssumption DEF FilesInv, FilesTyped, LogAssumption
  <2> QED
    BY <1>1, <2>1, OpenFiles, StayKept DEF FilesInv, FilesTyped, MovedOn
<1>2. ASSUME NEW ok \in BOOLEAN, LogInit(ok)
      PROVE  FilesInv' /\ Ordered(files)' /\ Kept
  BY <1>1, <1>2 DEF LogInit, AllIdle
<1>3. ASSUME NEW t \in Threads, NEW ok \in BOOLEAN, Reopen(t, ok)
      PROVE  FilesInv' /\ Ordered(files)' /\ Kept
  <2>1. \A u \in Threads : pc'[u] # "rotating"
    BY <1>3, LockNames DEF Reopen, LogInv, LogTypeOK, Guarded
  <2> QED
    BY <1>1, <1>3, <2>1 DEF Reopen
<1>4. CASE ShutdownTest \/ Close \/ Destroy \/ Tick
  BY <1>4, OtherFiles, LockNames
     DEF ShutdownTest, Close, Destroy, Tick, LogInv, LogTypeOK
<1>5. CASE Crash
  <2>1. /\ index' = [t \in Threads |-> 0] /\ pc' = [t \in Threads |-> "idle"] /\ open' = FALSE
        /\ UNCHANGED <<path, files, written, now>>
    BY <1>5 DEF Crash
  <2>2. 0 \in 0 .. (MaxRotated - 1)
    BY LogAssumption DEF LogAssumption
  <2> QED
    BY <2>1, <2>2, StayKept DEF FilesInv, FilesTyped, MovedOn
<1>6. ASSUME NEW t \in Threads,
             WriteTest(t) \/ Flush(t) \/ Acquire(t) \/ SeeFile(t) \/ Leave(t)
      PROVE  FilesInv' /\ Ordered(files)' /\ Kept
  BY <1>6, OtherFiles
     DEF WriteTest, Flush, Acquire, SeeFile, Leave, LogInv, LogTypeOK
<1>7. ASSUME NEW t \in Threads, WriteEntry(t)
      PROVE  FilesInv' /\ Ordered(files)' /\ Kept
  BY <1>7, WriteFiles, StayKept
<1>8. CASE UNCHANGED vars
  BY <1>8, OtherFiles DEF vars
<1> QED
  BY <1>2, <1>3, <1>4, <1>5, <1>6, <1>7, <1>8, RotateFiles DEF Next, Inside

\* Through every rotation, reopening and crash, and with any number of rotated
\* files, the entries of a log are in the order of their writing from its last
\* file to its first, and from one second's log to the next (cb_log_rotate,
\* open_log_file).
THEOREM EntriesInOrder == Spec => []InOrder
<1>1. FilesInv /\ Ordered(files) => InOrder
  <2> SUFFICES ASSUME FilesInv, Ordered(files) PROVE InOrder
    OBVIOUS
  <2>1. \A n \in DOMAIN files : DOMAIN files[n] = 1 .. Len(files[n])
    BY LenProperties DEF FilesInv, FilesTyped
  <2> QED
    BY <2>1 DEF InOrder, Ordered
<1>2. Init => LogInv /\ FilesInv /\ Ordered(files)
  BY InitInv, FilesInit
<1>3. LogInv /\ FilesInv /\ Ordered(files) /\ [Next]_vars
        => LogInv' /\ FilesInv' /\ Ordered(files)'
  BY NextInv, FilesNext
<1> QED
  BY <1>1, <1>2, <1>3, PTL DEF Spec

\* No step, wherever the process dies, takes an entry from the files but a
\* rotation those of the last suffix and of a file it failed to move: the loop of
\* cb_log_rotate moves each file to a suffix it has vacated.
THEOREM RotationKeeps == Spec => OnlyTheOldestIsLost
<1>1. Init => LogInv /\ FilesInv /\ Ordered(files)
  BY InitInv, FilesInit
<1>2. LogInv /\ FilesInv /\ Ordered(files) /\ [Next]_vars
        => LogInv' /\ FilesInv' /\ Ordered(files)'
  BY NextInv, FilesNext
<1>3. LogInv /\ FilesInv /\ Ordered(files) /\ [Next]_vars => [Kept]_vars
  BY FilesNext
<1>4. [Kept]_vars =>
        [\A m \in DOMAIN files :
           Remains(m) \/ (m \in DOMAIN files' /\ (m[2] = MaxRotated \/ m \in stayed))]_vars
  BY DEF Kept
<1> QED
  BY <1>1, <1>2, <1>3, <1>4, PTL DEF Spec, OnlyTheOldestIsLost
=============================================================================
