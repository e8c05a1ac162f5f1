--------------------------- MODULE FileLifecycle ---------------------------
(***************************************************************************)
(* What the file states promise, with nothing of how the client keeps the  *)
(* promise: while the daemon runs, a name is registered once and then      *)
(* moves only along the edges internal/state declares legal; a remount may *)
(* re-classify files from what it finds on disk and in the manifest.  The  *)
(* promise is weaker where the client takes a failed store call for a name *)
(* without a row: MountsFail and missed.                                   *)
(* The concurrent components are shown to implement this module.           *)
(***************************************************************************)
EXTENDS FileState

CONSTANTS
    Files,            \* the names of block and undo files
    MountsFail        \* can a store call fail while mounting?

VARIABLES
    st,               \* st[f]: the state of f's row, "NONE" without one
    durable,          \* the states a power failure leaves
    running,          \* is the daemon running?
    missed            \* an input: names bitcoind creates since looking them up failed

Init ==
    /\ st \in [Files -> {"NONE", "REMOTE", "ACTIVE"}]
    /\ durable = st
    /\ running = TRUE

\* One event of the state machine.
Fire(f) ==
    /\ running /\ UNCHANGED running
    /\ \E e \in Events, t \in FileStates :
        /\ <<st[f], e, t>> \in Transition
        /\ st' = [st EXCEPT ![f] = t]

\* A name gets its first row: bitcoind creates it, or a manifest announces it.
\* bitcoind creates a name once more when looking it up failed.
Register(f) ==
    /\ running /\ UNCHANGED running
    /\ \/ /\ st[f] = "NONE"
          /\ \E t \in {"ACTIVE", "REMOTE"} : st' = [st EXCEPT ![f] = t]
       \/ f \in missed /\ st' = [st EXCEPT ![f] = "ACTIVE"]

\* The daemon ends, orderly or not; with the machine, the last rows are lost.
Stop == running /\ running' = FALSE /\ st' \in {st, durable}

\* The rows reach the disk.
Sync == UNCHANGED <<st, running>>

\* The states mounting again may find for a file last seen in state s: a file
\* found in the local directory is ACTIVE, an ACTIVE row whose file is gone is
\* dropped and may be announced again, anything else is as it was.  A row that
\* cannot be read is announced again too.
AfterRemount(s) ==
    {s, "ACTIVE"}
        \cup (IF s \in {"ACTIVE", "NONE"} THEN {"NONE", "REMOTE"} ELSE {})
        \cup (IF MountsFail THEN {"REMOTE"} ELSE {})

Remount ==
    /\ ~running /\ running' = TRUE
    /\ st' \in {t \in [Files -> RowStates] : \A f \in Files : t[f] \in AfterRemount(st[f])}

Next ==
    /\ \/ \E f \in Files : Fire(f) \/ Register(f)
       \/ Stop \/ Remount \/ Sync
    /\ durable' \in {durable, st'}

Spec == Init /\ [][Next]_<<st, durable, running>>
=============================================================================
