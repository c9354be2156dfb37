------------------------------- MODULE CbLog -------------------------------
(***************************************************************************)
(* The log (src/logging/cb_log.c): threads that write entries to a file    *)
(* under a mutex, the rotation of that file rename by rename, and a        *)
(* shutdown by one thread while others write, such as a monitor of the     *)
(* safety manager that was not joined.  A file is the sequence of the      *)
(* entries in it, an entry its number; files outlive a crash.              *)
(*                                                                         *)
(* The application initialises while no other thread is in a call, and     *)
(* never rotates on its own.                                               *)
(***************************************************************************)
EXTENDS Integers, Sequences, SequencesExt

CONSTANTS
  Writers,     \* threads that log; Main, which also shuts down, is one more
  Main,
  MaxRotated,  \* max_rotated_files
  MaxSize,     \* max_file_size, in entries
  FopenFails,  \* may fopen or mkdir fail?
  RenameFails, \* may rename fail?
  MaxEntries,  \* bound: entries in all
  MaxTime      \* bound: seconds that pass

ASSUME LogAssumption ==
  /\ MaxRotated \in Nat \ {0} /\ MaxSize \in Nat \ {0}
  /\ FopenFails \in BOOLEAN /\ RenameFails \in BOOLEAN /\ Main \notin Writers
  /\ {"none", "free"} \cap (Writers \cup {Main}) = {}
  /\ MaxEntries \in Nat /\ MaxTime \in Nat

VARIABLES
  initialized,   \* g_log.initialized
  lock,          \* g_log.lock: "none" (not valid), "free", or its holder
  open,          \* g_log.log_file: is there an open file?
  path,          \* g_log.log_file_path, by the second it was made in
  size,          \* g_log.current_file_size
  files,         \* the file system: from names to what was written there
  stayed,        \* history: the files a failing rename left where they were,
                 \* in the rotation under way
  written,       \* entries numbered so far
  now,           \* the clock, in seconds
  pc, index      \* where each thread is; loop variable of its rotation

fileVars == <<open, path, size, files, stayed>>
vars == <<initialized, lock, fileVars, written, now, pc, index>>

Threads == Writers \cup {Main}

\* The log of second t is <<t, 0>>, and <<t, k>> that log with suffix .(k - 1).
Names == (0 .. MaxTime) \X (0 .. MaxRotated)

Goto(t, from, to) == pc[t] = from /\ pc' = [pc EXCEPT ![t] = to]
AllIdle == \A t \in Threads : pc[t] = "idle"

-----------------------------------------------------------------------------
(***************************************************************************)
(* Files.                                                                  *)
(***************************************************************************)
Exists(name) == name \in DOMAIN files
Put(fs, name, entries) ==
  [x \in DOMAIN fs \cup {name} |-> IF x = name THEN entries ELSE fs[x]]

\* open_log_file: the path is made of the second; the file is appended to,
\* the size begins at zero all the same.
OpenFile(ok) ==
  /\ path' = now /\ stayed' = {}
  /\ IF ok
       THEN /\ open' = TRUE /\ size' = 0
            /\ files' = IF Exists(<<now, 0>>) THEN files ELSE Put(files, <<now, 0>>, <<>>)
       ELSE open' = FALSE /\ UNCHANGED <<size, files>>

\* rename replaces its target and does nothing without a source.
Move(from, to) ==
  files' = IF Exists(from)
             THEN [x \in (DOMAIN files \ {from}) \cup {to} |->
                     IF x = to THEN files[from] ELSE files[x]]
             ELSE files

\* It may fail, and cb_log_rotate goes on all the same.
Rename(from, to) ==
  \/ Move(from, to) /\ UNCHANGED stayed
  \/ RenameFails /\ Exists(from) /\ stayed' = stayed \cup {from} /\ UNCHANGED files

-----------------------------------------------------------------------------
(***************************************************************************)
(* cb_log_init and cb_log_shutdown.                                        *)
(***************************************************************************)
LogInit(ok) ==
  /\ AllIdle /\ ~initialized
  /\ ok \/ FopenFails
  /\ lock' = "free" /\ OpenFile(ok)
  /\ initialized' = ok
  /\ UNCHANGED <<written, now, pc, index>>

ShutdownTest ==
  /\ initialized /\ Goto(Main, "idle", "closing")
  /\ UNCHANGED <<initialized, lock, fileVars, written, now, index>>

\* Under the lock: the file is closed and the flag cleared.  Mutant: without.
CloseUnlocked ==
  /\ Goto(Main, "closing", "destroying")
  /\ open' = FALSE /\ initialized' = FALSE
  /\ UNCHANGED <<lock, path, size, files, stayed, written, now, index>>
Close ==
  /\ lock = "free" /\ Goto(Main, "closing", "destroying")
  /\ open' = FALSE /\ initialized' = FALSE
  /\ UNCHANGED <<lock, path, size, files, stayed, written, now, index>>

\* A mutex somebody has taken meanwhile is busy and stays.
Destroy ==
  /\ Goto(Main, "destroying", "idle")
  /\ lock' = IF lock = "free" THEN "none" ELSE lock
  /\ UNCHANGED <<initialized, fileVars, written, now, index>>

-----------------------------------------------------------------------------
(***************************************************************************)
(* cb_log_write and cb_log_flush.                                          *)
(***************************************************************************)
\* The flag and the level are tested before the lock is taken; an entry below
\* the level goes no further.
WriteTest(t) ==
  /\ initialized /\ written < MaxEntries /\ Goto(t, "idle", "tested")
  /\ UNCHANGED <<initialized, lock, fileVars, written, now, index>>

\* A mutex that is no longer valid is no obstacle: the call returns EINVAL,
\* which nobody looks at.
Acquire(t) ==
  /\ lock \in {"free", "none"} /\ Goto(t, "tested", "inside")
  /\ lock' = IF lock = "free" THEN t ELSE lock
  /\ UNCHANGED <<initialized, fileVars, written, now, index>>

\* Without a file the entry goes to the console and the callback only.
SeeFile(t) ==
  /\ Goto(t, "inside", IF open THEN "writing" ELSE "leaving")
  /\ UNCHANGED <<initialized, lock, fileVars, written, now, index>>

\* The suffix the rotation begins with.  Mutant: off by one.
FirstToMoveEarly == MaxRotated - 2
FirstToMove      == MaxRotated - 1

WriteEntry(t) ==
  /\ Goto(t, "writing", IF size + 1 >= MaxSize THEN "rotating" ELSE "leaving")
  /\ written' = written + 1
  /\ files' = Put(files, <<path, 0>>, Append(files[<<path, 0>>], written'))
  /\ size' = size + 1
  /\ index' = [index EXCEPT ![t] = IF size + 1 >= MaxSize THEN FirstToMove ELSE 0]
  /\ UNCHANGED <<initialized, lock, open, path, stayed, now>>

\* Mutant: a thread that could not open its file leaves with the lock.
LeaveWithFile(t) ==
  /\ Goto(t, "leaving", "idle")
  /\ lock' = IF lock = t /\ open THEN "free" ELSE lock
  /\ UNCHANGED <<initialized, fileVars, written, now, index>>
Leave(t) ==
  /\ Goto(t, "leaving", "idle")
  /\ lock' = IF lock = t THEN "free" ELSE lock
  /\ UNCHANGED <<initialized, fileVars, written, now, index>>

\* cb_log_flush changes nothing but waits for the lock.
Flush(t) ==
  /\ \/ initialized /\ Goto(t, "idle", "flushing")
     \/ lock \in {"free", "none"} /\ Goto(t, "flushing", "idle")
  /\ UNCHANGED <<initialized, lock, fileVars, written, now, index>>

-----------------------------------------------------------------------------
(***************************************************************************)
(* cb_log_rotate, called from cb_log_write.                                *)
(***************************************************************************)
\* The closed file's followers move up by one, from the last; then the file
\* itself.  Mutant: to names made of the time it is.
RotateStepNow(t) ==
  /\ pc[t] = "rotating"
  /\ index[t] > 0
  /\ Rename(<<path, index[t]>>, <<now, index[t] + 1>>)
  /\ index' = [index EXCEPT ![t] = @ - 1]
  /\ open' = FALSE
  /\ UNCHANGED <<initialized, lock, path, size, written, now, pc>>
RotateStep(t) ==
  /\ pc[t] = "rotating"
  /\ index[t] > 0
  /\ Rename(<<path, index[t]>>, <<path, index[t] + 1>>)
  /\ index' = [index EXCEPT ![t] = @ - 1]
  /\ open' = FALSE
  /\ UNCHANGED <<initialized, lock, path, size, written, now, pc>>

RotateCurrent(t) ==
  /\ index[t] = 0 /\ Goto(t, "rotating", "reopening")
  /\ Rename(<<path, 0>>, <<path, 1>>)
  /\ open' = FALSE
  /\ UNCHANGED <<initialized, lock, path, size, written, now, index>>

Reopen(t, ok) ==
  /\ ok \/ FopenFails
  /\ Goto(t, "reopening", "leaving")
  /\ OpenFile(ok)
  /\ UNCHANGED <<initialized, lock, written, now, index>>

-----------------------------------------------------------------------------
\* What a thread does of itself once it is in a call.
Inside(t) ==
  \/ Acquire(t) \/ SeeFile(t) \/ WriteEntry(t) \/ Leave(t)
  \/ RotateStep(t) \/ RotateCurrent(t) \/ \E ok \in BOOLEAN : Reopen(t, ok)

Tick ==
  /\ now < MaxTime /\ now' = now + 1
  /\ UNCHANGED <<initialized, lock, fileVars, written, pc, index>>

\* The process dies at any point; the files stay as they are.
Crash ==
  /\ initialized' = FALSE /\ lock' = "none" /\ open' = FALSE /\ size' = 0
  /\ stayed' = {} /\ pc' = [t \in Threads |-> "idle"] /\ index' = [t \in Threads |-> 0]
  /\ UNCHANGED <<path, files, written, now>>

Init ==
  /\ initialized = FALSE /\ lock = "none" /\ open = FALSE /\ path = 0 /\ size = 0
  /\ files = << >> /\ stayed = {} /\ written = 0 /\ now = 0
  /\ pc = [t \in Threads |-> "idle"] /\ index = [t \in Threads |-> 0]

Next ==
  \/ \E ok \in BOOLEAN : LogInit(ok)
  \/ ShutdownTest \/ Close \/ Destroy
  \/ \E t \in Threads : WriteTest(t) \/ Inside(t) \/ Flush(t)
  \/ Tick \/ Crash

\* Each thread that can run runs on in the end, and a mutex free again and
\* again is got in the end; nobody need call, fail or crash.
Fairness ==
  /\ WF_vars(Close) /\ WF_vars(Destroy)
  /\ \A t \in Threads : WF_vars(Inside(t)) /\ SF_vars(Acquire(t))

Spec == Init /\ [][Next]_vars /\ Fairness

-----------------------------------------------------------------------------
(***************************************************************************)
(* Properties.                                                             *)
(***************************************************************************)
\* A thread that is about to use the file holds the mutex and the file is
\* open, although a late writer may get past a mutex that was destroyed
\* between its test of the flag and its lock (cb_log_write, cb_log_shutdown).
FileByHolder ==
  \A t \in Threads :
    pc[t] \in {"writing", "rotating", "reopening"} =>
      lock = t /\ initialized /\ (pc[t] = "writing" => open)

\* In the files of one second, from the highest suffix to the log itself, and
\* from one second to the next, entries are in the order of their writing,
\* also after a crash between two renames (cb_log_rotate).
InOrder ==
  \A m, n \in DOMAIN files :
    /\ \A i, j \in DOMAIN files[m] : i < j => files[m][i] < files[m][j]
    /\ m # n /\ (m[1] < n[1] \/ (m[1] = n[1] /\ m[2] > n[2])) =>
         \A i \in DOMAIN files[m], j \in DOMAIN files[n] : files[m][i] < files[n][j]

\* What is in a file stays in some file, under the same or the next suffix:
\* a rotation replaces the file of the highest suffix (its loop goes
\* downwards) and those that it failed to move, as it looks at no result of
\* rename, and no other.
Remains(m) ==
  \E n \in DOMAIN files' :
    n[1] = m[1] /\ n[2] \in {m[2], m[2] + 1} /\ IsPrefix(files[m], files'[n])
OnlyTheOldestIsLost ==
  [][\A m \in DOMAIN files :
       Remains(m) \/ (m \in DOMAIN files' /\ (m[2] = MaxRotated \/ m \in stayed))]_vars

\* A call to write returns, whoever else writes, rotates or shuts down.
WriteReturns == \A t \in Threads : pc[t] = "tested" ~> pc[t] = "idle"
=============================================================================
