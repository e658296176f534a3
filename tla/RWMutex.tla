------------------------------ MODULE RWMutex ------------------------------
(***************************************************************************)
(* Go's sync.RWMutex.  A goroutine that calls Lock announces itself and    *)
(* then waits for the readers it found; from the announcement on, RLock    *)
(* blocks, and Unlock lets every blocked reader in at once.                *)
(***************************************************************************)
CONSTANTS
    Procs,   \* the goroutines
    None     \* no goroutine

VARIABLES
    writer,    \* the goroutine that has announced or holds the write lock
    readers,   \* the goroutines that hold the read lock
    waiting    \* the goroutines whose RLock is blocked

rwVars == <<writer, readers, waiting>>

RWTypeOK ==
    /\ writer \in Procs \cup {None}
    /\ readers \subseteq Procs /\ waiting \subseteq Procs

RWInit == writer = None /\ readers = {} /\ waiting = {}

\* Lock: the announcement, and the state in which it returns.
Announce(p) ==
    writer = None /\ writer' = p /\ UNCHANGED <<readers, waiting>>
HasLock(p) == writer = p /\ readers = {}

Unlock ==
    /\ writer' = None
    /\ readers' = readers \cup waiting
    /\ waiting' = {}

\* RLock: the call, and the state in which it returns.
RLock(p) ==
    /\ IF writer = None
         THEN readers' = readers \cup {p} /\ UNCHANGED waiting
         ELSE waiting' = waiting \cup {p} /\ UNCHANGED readers
    /\ UNCHANGED writer
HasRLock(p) == p \in readers

\* The state in which RLock returns to a goroutine that is a reader already:
\* it does not return while a writer waits.
CanRLockAgain(p) == writer = None

RUnlock(p) == readers' = readers \ {p} /\ UNCHANGED <<writer, waiting>>
=============================================================================
