----------------------------- MODULE FileState -----------------------------
(***************************************************************************)
(* The state machine of one block file, as internal/state declares it: the *)
(* states a row of the metadata store can hold, the events that move a     *)
(* file between them, and the predicates the other packages ask of a       *)
(* state.                                                                  *)
(***************************************************************************)

\* The states of store.FileState.
FileStates == {"ACTIVE", "LOCAL_FINALIZED", "CACHED", "REMOTE"}

\* "NONE" stands for a name that has no row in the store.
RowStates == FileStates \cup {"NONE"}

Events == {"finalize", "cache_fetch", "cache_evict", "compact"}

\* The <<current, event, next>> triples Transition accepts; every other pair of
\* a state and an event is ErrInvalidTransition.
Transition ==
    { <<"ACTIVE", "finalize", "LOCAL_FINALIZED">>,
      <<"REMOTE", "cache_fetch", "CACHED">>,
      <<"CACHED", "cache_evict", "REMOTE">>,
      <<"LOCAL_FINALIZED", "compact", "REMOTE">> }

IsWritable(s) == s = "ACTIVE"
IsLocal(s) == s \in {"ACTIVE", "LOCAL_FINALIZED"}
=============================================================================
