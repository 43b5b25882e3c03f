-------------------------------- MODULE RunLock --------------------------------
(****************************************************************************)
(* The lock file of the allocation service and of the DataLayer writers     *)
(* (orchard_chia/allocation/lock.py), one file system call per step.        *)
(*                                                                          *)
(* A process tries to create the file exclusively.  If it is there, a       *)
(* process that may break locks (break_after_seconds) and finds it old      *)
(* looks whether the holder is alive, removes the file and creates its own. *)
(* The holder writes its pid into the file, and in the end closes and       *)
(* removes it.                                                              *)
(*                                                                          *)
(* The service's own processes are those of Allocation; the names here are  *)
(* kept apart from its names, so that one module can reason about both.     *)
(****************************************************************************)
EXTENDS Naturals

CONSTANTS
  Contenders, \* processes; each is its own pid
  Nobody,
  Windows,    \* TRUE: an open file cannot be unlinked, pids are not probed
  Breaks,     \* TRUE: break_after_seconds is set
  PidReuse,   \* TRUE: a process may be started with the pid of a dead one
  MaxCrashes  \* a bound of the model

ASSUME LockAssumption ==
  /\ Nobody \notin Contenders
  /\ Windows \in BOOLEAN /\ Breaks \in BOOLEAN /\ PidReuse \in BOOLEAN
  /\ MaxCrashes \in Nat

VARIABLES
  file,     \* the file at the lock's path
  at,       \* where each process is; "dead" ones are not running
  seen,     \* the pid each process has read from the file
  crashes

lockVars == <<file, at, seen, crashes>>

LockLabels == {"idle", "age", "read", "probe", "unlink", "recreate", "message",
                "write", "held", "remove", "dead"}

(* A file is known by the process that created it, which has at most one.   *)
(* Its pid is written after its creation; it is orphaned by the death of    *)
(* its creator, and aged when it is past the break threshold.               *)
Files == [owner: Contenders \union {Nobody}, pid: Contenders \union {Nobody},
          orphan: BOOLEAN, aged: BOOLEAN]
NoFile == [owner |-> Nobody, pid |-> Nobody, orphan |-> FALSE, aged |-> FALSE]
NewFile(p) == [NoFile EXCEPT !.owner = p]

Gone == file.owner = Nobody

LockInit ==
  /\ file = NoFile
  /\ at = [p \in Contenders |-> "idle"]
  /\ seen = [p \in Contenders |-> Nobody]
  /\ crashes = 0

Move(p, label) == at' = [at EXCEPT ![p] = label]

(* The holder's handle, and the one with which the file is read, for a      *)
(* decision or for the text of LockBusy.                                    *)
HasHandle(p) == at[p] \in {"write", "held"}
Reads(p) == at[p] \in {"read", "message"}

(* Variation: unlink works on an open file everywhere.                      *)
WrongMayUnlink == ~Gone

(* unlink of the path, by a process that has no handle on it.               *)
MayUnlink == ~Gone /\ (Windows => ~HasHandle(file.owner))
MayFailToUnlink == MayUnlink => Windows /\ \E q \in Contenders : Reads(q)

(* open with O_CREAT and O_EXCL.                                            *)
ExclusiveCreate(p, otherwise) ==
  /\ \/ Gone /\ file' = NewFile(p) /\ Move(p, "write")
     \/ ~Gone /\ Move(p, otherwise) /\ UNCHANGED file
  /\ UNCHANGED <<seen, crashes>>

Acquire(p) == at[p] = "idle" /\ ExclusiveCreate(p, "age")

(* A file that has gone meanwhile has age zero.                             *)
CheckAge(p) ==
  /\ at[p] = "age"
  /\ Move(p, IF Breaks /\ file.aged THEN "read" ELSE "message")
  /\ UNCHANGED <<file, seen, crashes>>

(* LockBusy: its text names the holder.                                     *)
Busy(p) == at[p] = "message" /\ Move(p, "idle") /\ UNCHANGED <<file, seen, crashes>>

(* No pid is read from a file that is not there or not yet written.         *)
ReadHolder(p) ==
  /\ at[p] = "read"
  /\ seen' = [seen EXCEPT ![p] = file.pid]
  /\ Move(p, "probe")
  /\ UNCHANGED <<file, crashes>>

(* Variation: the pid is not probed but taken for alive.                    *)
WrongProbeHolder(p) ==
  /\ at[p] = "probe"
  /\ Move(p, IF seen[p] # Nobody THEN "message" ELSE "unlink")
  /\ seen' = [seen EXCEPT ![p] = Nobody]
  /\ UNCHANGED <<file, crashes>>

(* kill(pid, 0), where it is safe to ask.                                   *)
ProbeHolder(p) ==
  /\ at[p] = "probe"
  /\ Move(p, IF ~Windows /\ seen[p] # Nobody /\ at[seen[p]] # "dead"
               THEN "message" ELSE "unlink")
  /\ seen' = [seen EXCEPT ![p] = Nobody]
  /\ UNCHANGED <<file, crashes>>

(* The break.  If the file cannot be removed, or is no longer there, the    *)
(* lock is busy after all.                                                  *)
Break(p) ==
  /\ at[p] = "unlink"
  /\ \/ MayUnlink /\ file' = NoFile /\ Move(p, "recreate")
     \/ MayFailToUnlink /\ Move(p, "message") /\ UNCHANGED file
  /\ UNCHANGED <<seen, crashes>>

(* If another process was faster the FileExistsError is not caught.         *)
Recreate(p) == at[p] = "recreate" /\ ExclusiveCreate(p, "idle")

(* Variation: the pid is not written.                                       *)
WrongWritePid(p) == at[p] = "write" /\ Move(p, "held") /\ UNCHANGED <<file, seen, crashes>>

(* The pid goes into the file that was opened, at the lock's path or not.   *)
WritePid(p) ==
  /\ at[p] = "write"
  /\ IF file.owner = p THEN file' = [file EXCEPT !.pid = p] ELSE UNCHANGED file
  /\ Move(p, "held")
  /\ UNCHANGED <<seen, crashes>>

(* release() closes the handle and then removes the path, whosever file is  *)
(* there by now.                                                            *)
Close(p) == at[p] = "held" /\ Move(p, "remove") /\ UNCHANGED <<file, seen, crashes>>

Remove(p) ==
  /\ at[p] = "remove"
  /\ \/ MayUnlink /\ file' = NoFile
     \/ MayFailToUnlink /\ UNCHANGED file
  /\ Move(p, "idle")
  /\ UNCHANGED <<seen, crashes>>

(* Time passes: the file is now older than the threshold, hours, which the  *)
(* write of a pid does not take.                                            *)
GrowOld ==
  /\ ~Gone /\ ~file.aged
  /\ at[file.owner] = "write" => file.orphan
  /\ file' = [file EXCEPT !.aged = TRUE]
  /\ UNCHANGED <<at, seen, crashes>>

(* The process is killed: its handle is closed and its file stays.          *)
Killed(p) ==
  /\ at[p] # "dead" /\ crashes < MaxCrashes
  /\ Move(p, "dead")
  /\ seen' = [seen EXCEPT ![p] = Nobody]
  /\ IF file.owner = p THEN file' = [file EXCEPT !.orphan = TRUE] ELSE UNCHANGED file
  /\ crashes' = crashes + 1

(* A new process gets the pid of a dead one.                                *)
Restart(p) ==
  /\ PidReuse /\ at[p] = "dead"
  /\ Move(p, "idle")
  /\ UNCHANGED <<file, seen, crashes>>

LockOp(p) ==
  \/ Acquire(p) \/ CheckAge(p) \/ Busy(p) \/ ReadHolder(p) \/ ProbeHolder(p)
  \/ Break(p) \/ Recreate(p) \/ WritePid(p) \/ Close(p) \/ Remove(p)

LockNext == GrowOld \/ \E p \in Contenders : LockOp(p) \/ Killed(p) \/ Restart(p)

LockSpec == LockInit /\ [][LockNext]_lockVars

(* Timers and operators start runs again and again, runs end, files age.    *)
(* Reading the file takes a moment, so its removal does not meet a reader   *)
(* each time.                                                               *)
FairLockSpec ==
  /\ LockSpec
  /\ WF_lockVars(GrowOld)
  /\ \A p \in Contenders : /\ WF_lockVars(LockOp(p)) /\ WF_lockVars(Restart(p))
                           /\ SF_lockVars(Break(p) /\ file' = NoFile)

--------------------------------------------------------------------------------

(* The state is well typed.                                                 *)
LockTypeOK ==
  /\ file \in Files
  /\ at \in [Contenders -> LockLabels]
  /\ seen \in [Contenders -> Contenders \union {Nobody}]
  /\ crashes \in 0..MaxCrashes

(* Two runs never overlap, whatever died while it held the lock: what the   *)
(* file is for.                                                             *)
SingleHolder ==
  \A p, q \in Contenders : at[p] = "held" /\ at[q] = "held" => p = q

(* While a run holds the lock the file is there and tells whose it is, so   *)
(* that nobody can take a live lock for a stale one.                        *)
HolderIsNamed ==
  \A p \in Contenders : at[p] = "held" => file.owner = p /\ file.pid = p /\ ~file.orphan

(* The lock of a dead holder does not keep the others out for ever: what    *)
(* break_after_seconds is for.                                              *)
StaleIsBroken == file.orphan ~> ~file.orphan

================================================================================
