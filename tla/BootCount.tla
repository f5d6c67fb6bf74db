----------------------------- MODULE BootCount -----------------------------
(***************************************************************************)
(* The boot counter (bootCount in src/src/main.c) across crashes, and the  *)
(* log file acs_init names after it when ACS_DATALOG is defined.           *)
(*                                                                         *)
(* The counter's file has two contents: the one programs see and the one   *)
(* on the medium.  The system may write it back at any time; losing power  *)
(* leaves what is on the medium, ending the process alone does not.        *)
(***************************************************************************)
EXTENDS Integers, FiniteSets

CONSTANT MaxBoots            \* boots that are followed

ASSUME BootsAssumption == MaxBoots \in Nat \ {0}

Missing == -2
Empty   == -1
Content == {Missing, Empty} \cup 1 .. MaxBoots

VARIABLES
    stage,             \* where the program stands
    boots,             \* boots so far
    file, disk,        \* the file as seen, and as it is on the medium
    _bootCount,
    logs,              \* counts a log file has been opened for
    overwritten,       \* an existing log has been opened for writing
    cut                \* a boot ended between emptying the file and sync

bootVars == <<stage, boots, file, disk, _bootCount, logs, overwritten, cut>>

BootInit ==
    /\ stage = "off" /\ boots = 0
    /\ file = Missing /\ disk = Missing
    /\ _bootCount = 0
    /\ logs = {} /\ overwritten = FALSE
    /\ cut = FALSE

Boot ==
    /\ stage = "off" /\ boots < MaxBoots
    /\ stage' = "read" /\ boots' = boots + 1
    /\ UNCHANGED <<file, disk, _bootCount, logs, overwritten, cut>>

\* Mutant: the file emptied by a boot that was cut short is read as it is.
ReadCountUnchecked ==
    /\ stage = "read"
    /\ stage' = "empty"
    /\ _bootCount' = IF file = Missing THEN 0 ELSE file
    /\ UNCHANGED <<boots, file, disk, logs, overwritten, cut>>

\* An absent file and one without a number both count as no boot.
ReadCount ==
    /\ stage = "read"
    /\ stage' = "empty"
    /\ _bootCount' = IF file \in {Missing, Empty} THEN 0 ELSE file
    /\ UNCHANGED <<boots, file, disk, logs, overwritten, cut>>

\* fopen with "w".
EmptyFile ==
    /\ stage = "empty"
    /\ stage' = "write"
    /\ file' = Empty
    /\ UNCHANGED <<boots, disk, _bootCount, logs, overwritten, cut>>

\* Mutant: the count is incremented after it is written.
WriteThenIncrement ==
    /\ stage = "write"
    /\ stage' = "sync"
    /\ file' = IF _bootCount = 0 THEN 1 ELSE _bootCount
    /\ UNCHANGED <<boots, disk, _bootCount, logs, overwritten, cut>>

\* The new count reaches the file when it is closed.
WriteCount ==
    /\ stage = "write"
    /\ stage' = "sync"
    /\ file' = _bootCount + 1
    /\ UNCHANGED <<boots, disk, _bootCount, logs, overwritten, cut>>

\* Mutant: no sync.
NoSync ==
    /\ stage = "sync"
    /\ stage' = "init"
    /\ UNCHANGED <<boots, file, disk, _bootCount, logs, overwritten, cut>>

Sync ==
    /\ stage = "sync"
    /\ stage' = "init"
    /\ disk' = file
    /\ UNCHANGED <<boots, file, _bootCount, logs, overwritten, cut>>

\* acs_init opens the log of this boot for writing.
OpenLog ==
    /\ stage = "init"
    /\ stage' = "flying"
    /\ overwritten' = (overwritten \/ _bootCount \in logs)
    /\ logs' = logs \cup {_bootCount}
    /\ UNCHANGED <<boots, file, disk, _bootCount, cut>>

WriteBack ==
    /\ disk # file
    /\ disk' = file
    /\ UNCHANGED <<stage, boots, file, _bootCount, logs, overwritten, cut>>

Updating == stage \in {"write", "sync"}

\* The process ends: at its end, by exit, or by a SIGINT, whose handler bootCount
\* precedes.
ProcessEnds ==
    /\ stage # "off"
    /\ stage' = "off"
    /\ cut' = (cut \/ Updating)
    /\ UNCHANGED <<boots, file, disk, _bootCount, logs, overwritten>>

PowerLost ==
    /\ stage' = "off"
    /\ file' = disk
    /\ cut' = (cut \/ Updating)
    /\ UNCHANGED <<boots, disk, _bootCount, logs, overwritten>>

BootNext ==
    \/ Boot \/ ReadCount \/ EmptyFile \/ WriteCount \/ Sync \/ OpenLog
    \/ WriteBack \/ ProcessEnds \/ PowerLost

BootSpec == BootInit /\ [][BootNext]_bootVars

-----------------------------------------------------------------------------
(* Properties.                                                             *)

BootTypeOK ==
    /\ stage \in {"off", "read", "empty", "write", "sync", "init", "flying"}
    /\ boots \in 0 .. MaxBoots
    /\ file \in Content /\ disk \in Content
    /\ _bootCount \in 0 .. MaxBoots
    /\ logs \subseteq 0 .. MaxBoots - 1
    /\ overwritten \in BOOLEAN /\ cut \in BOOLEAN

\* A boot whose update of the counter is not cut short has a log file of its own: power
\* failures, kills and late write-backs at every other point neither lose nor repeat a
\* count.
OwnLog == overwritten => cut

\* A count that has been read back is never forgotten once sync has returned, whatever
\* fails next: the file on the medium stays ahead of every log there is.
DurableCount ==
    ~cut /\ stage \in {"off", "read", "empty"} => \A n \in logs : disk > n /\ file > n
=============================================================================
