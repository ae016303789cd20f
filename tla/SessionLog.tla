------------------------------ MODULE SessionLog ------------------------------
(***************************************************************************)
(* The journal of a session (backend/session_log.go) as the Bridge uses it:   *)
(* a file of limited size, the last lines in memory, a directory of a limited   *)
(* number of files.  The report of a user takes one or the other.  A line has    *)
(* one unit of length; the journals are numbered, and lines within a journal.     *)
(***************************************************************************)
EXTENDS Naturals, Sequences, FiniteSets

CONSTANTS
    FileLimit,     \* sessionLogFileLimit, 512 KiB in the code
    MemoryLimit,   \* sessionLogMemoryLimit, 128 KiB in the code
    Retention,     \* sessionLogRetention, 10 in the code
    OldLogs,       \* how many files earlier runs left
    MaxSessions,   \* bound: journals opened
    MaxLines,      \* bound: lines of a journal
    MaxLogFaults   \* bound: file operations that fail

(* The journal in use and one file that cannot be removed have to fit in. *)
ASSUME LogAssumption ==
    /\ MemoryLimit \in Nat \ {0} /\ FileLimit \in Nat /\ Retention \in Nat \ {0, 1}
    /\ OldLogs \in Nat /\ MaxSessions \in Nat /\ MaxLines \in Nat

Files == 1..(MaxSessions + OldLogs)
Stamps == 0..(MaxSessions + OldLogs)

VARIABLES
    logs,       \* the files in logs/
    stamp,      \* [Files -> the modification time]
    active,     \* the file of the journal, 0 for none
    open,       \* it is open
    closed,     \* LogFile.closed
    writing,    \* a connection writes to the journal
    disk,       \* the lines in the file
    ring,       \* LogFile.ring
    written,    \* history: the lines written to the journal
    truncated,  \* LogFile.truncated
    diskFault,  \* LogFile.diskFault
    unpruned,   \* history: the directory could not be read when this journal was opened
    sessions, logFaults

journal == <<active, open, closed, disk, ring, written, truncated, diskFault>>
logVars == <<logs, stamp, journal, writing, unpruned, sessions, logFaults>>

LogInit ==
    /\ logs = (MaxSessions + 1)..(MaxSessions + OldLogs) /\ stamp = [f \in Files |-> f]
    /\ active = 0 /\ open = FALSE /\ closed = FALSE /\ writing = FALSE
    /\ disk = <<>> /\ ring = <<>> /\ written = 0
    /\ truncated = FALSE /\ diskFault = FALSE /\ unpruned = TRUE
    /\ sessions = 0 /\ logFaults = 0
-----------------------------------------------------------------------------
Broken == logFaults < MaxLogFaults /\ logFaults' = logFaults + 1
Fine == UNCHANGED logFaults

Smaller(m, n) == IF m < n THEN m ELSE n
Excess(files) == IF Cardinality(files) > Retention THEN Cardinality(files) - Retention ELSE 0

(* The choices of n of the files, of which none that stays is older. *)
Oldest(n, files, stamps) ==
    {some \in SUBSET files : Cardinality(some) = n /\ \A f \in some, g \in files \ some : stamps[f] <= stamps[g]}

(* Mutant: the journal that was just opened is a file like any other. *)
PrunedBlindly(files, stamps, mine, stuck) ==
    {files \ doomed : doomed \in Oldest(Smaller(Excess(files), Cardinality(files \ stuck)), files \ stuck, stamps)}

(* pruneSessionLogs: the oldest go, except the own one; for one that cannot be removed the    *)
(* next goes.                                                                                  *)
Pruned(files, stamps, mine, stuck) ==
    LET others == files \ (stuck \cup {mine}) IN
    {files \ doomed : doomed \in Oldest(Smaller(Excess(files), Cardinality(others)), others, stamps)}

(* The new file.  The clock may have been set back: it need not be the newest. *)
Created(mine) == \E time \in Stamps : stamp' = [stamp EXCEPT ![mine] = time]

(* OpenLogFile in Bridge.Connect, when the connection before it has closed its journal. *)
OpenLogFile ==
    /\ ~writing /\ writing' = TRUE
    /\ sessions < MaxSessions /\ sessions' = sessions + 1
    /\ \/ /\ active' = sessions' /\ open' = TRUE
          /\ Created(sessions')
          /\ LET files == logs \cup {sessions'} IN
             \/ logs' \in Pruned(files, stamp', sessions', {}) /\ unpruned' = FALSE /\ Fine
             \/ \E f \in logs :
                  logs' \in Pruned(files, stamp', sessions', {f}) /\ unpruned' = FALSE /\ Broken
             \/ logs' = files /\ unpruned' = TRUE /\ Broken
       \/ active' = 0 /\ open' = FALSE /\ Broken /\ UNCHANGED <<logs, stamp, unpruned>>
    /\ disk' = <<>> /\ ring' = <<>> /\ written' = 0
    /\ closed' = FALSE /\ truncated' = FALSE /\ diskFault' = FALSE

Remembered ==
    ring' = (IF Len(ring) = MemoryLimit THEN Tail(ring) ELSE ring) \o <<written + 1>>

(* Mutant: a line for a closed file is refused, and that is all. *)
WriteUnnoticed ==
    /\ active # 0 /\ closed /\ written < MaxLines
    /\ written' = written + 1 /\ Remembered
    /\ UNCHANGED <<logs, stamp, active, open, closed, disk, truncated, diskFault, writing, unpruned, sessions, logFaults>>

(* A line after the end of its session. *)
WriteClosed ==
    /\ active # 0 /\ closed /\ written < MaxLines
    /\ written' = written + 1 /\ Remembered
    /\ diskFault' = TRUE
    /\ UNCHANGED <<logs, stamp, active, open, closed, disk, truncated, writing, unpruned, sessions, logFaults>>

(* LogFile.Write: a file that is full keeps its beginning, one that fails may have it without  *)
(* this line, and with it when only the Sync of every fiftieth line fails.                      *)
Write ==
    /\ sessions > 0 /\ ~(active # 0 /\ closed) /\ written < MaxLines
    /\ written' = written + 1 /\ Remembered
    /\ \/ (active = 0 \/ truncated) /\ Fine /\ UNCHANGED <<disk, truncated, diskFault>>
       \/ /\ active # 0 /\ ~truncated /\ Len(disk) = FileLimit
          /\ truncated' = TRUE /\ Fine /\ UNCHANGED <<disk, diskFault>>
       \/ /\ active # 0 /\ ~truncated /\ Len(disk) < FileLimit
          /\ UNCHANGED truncated
          /\ \/ disk' = Append(disk, written') /\ Fine /\ UNCHANGED diskFault
             \/ disk' = Append(disk, written') /\ Broken /\ diskFault' = TRUE
             \/ diskFault' = TRUE /\ Broken /\ UNCHANGED disk
    /\ UNCHANGED <<logs, stamp, active, open, closed, writing, unpruned, sessions>>

(* The end of forwardEvents, or of a Connect whose Core did not start. *)
Close ==
    /\ writing /\ writing' = FALSE
    /\ closed' = TRUE /\ open' = FALSE
    /\ \/ Fine /\ UNCHANGED diskFault
       \/ active # 0 /\ Broken /\ diskFault' = TRUE
    /\ UNCHANGED <<logs, stamp, active, disk, ring, written, truncated, unpruned, sessions>>

(* Snapshot flushes an open file; what it returns is Report. *)
SyncFails ==
    /\ open /\ Broken
    /\ diskFault' = TRUE
    /\ UNCHANGED <<logs, stamp, active, open, closed, disk, ring, written, truncated, writing, unpruned, sessions>>

Report(readable) ==
    IF active # 0 /\ ~truncated /\ ~diskFault /\ readable /\ disk # <<>> THEN disk ELSE ring

LogNext == OpenLogFile \/ Write \/ WriteClosed \/ Close \/ SyncFails

LogSpec == LogInit /\ [][LogNext]_logVars
-----------------------------------------------------------------------------
(* A report ends with the last line that was written, and has no gap: whatever failed, in     *)
(* the file or in reading it, and also for lines that come after the end of the session.        *)
ReportIsCurrent ==
    written > 0 =>
        \A readable \in BOOLEAN :
            LET lines == Report(readable) IN
            /\ lines # <<>>
            /\ lines = [i \in 1..Len(lines) |-> written - Len(lines) + i]

(* The journal in use is not pruned, and the files stay within the limit, also when one of     *)
(* them cannot be removed; only a directory that cannot be read is left as it is.                 *)
LogsBounded ==
    /\ active # 0 => active \in logs
    /\ ~unpruned => Cardinality(logs) <= Retention
=============================================================================
