------------------------------- MODULE Poller -------------------------------
(***************************************************************************)
(* ManifestPoller: fetch the manifest, compare it with the one before, and *)
(* write one row for every name that was added or removed.  Each row is a  *)
(* transaction of its own, so everything else may run in between.          *)
(***************************************************************************)
EXTENDS ClientState

VARIABLES
    polled,         \* ManifestPoller.current
    fetched,        \* the manifest this poll has fetched
    todo            \* names of its diff not yet written to the store

pollVars == <<polled, fetched, todo>>

\* Diff: names only in the new manifest, names only in the old one.  Names whose
\* hash changed are not acted on.
Added(old, new) == {f \in Files : old[f] = 0 /\ new[f] # 0}
Removed(old, new) == {f \in Files : old[f] # 0 /\ new[f] = 0}

\* FetchManifest returns a manifest only when its ETag has changed.
PollFetch ==
    /\ up /\ todo = {} /\ fetched = polled
    /\ ServerManifest # polled
    /\ fetched' = ServerManifest
    /\ todo' = Added(polled, ServerManifest) \cup Removed(polled, ServerManifest)
    /\ UNCHANGED <<stateVars, polled>>

\* An added name becomes REMOTE, whatever row it had; errors are only logged.
PollAdd(f) ==
    /\ up /\ f \in todo \cap Added(polled, fetched)
    /\ todo' = todo \ {f}
    /\ \/ table' = UpsertFile(f, RemoteRow(HashIn(fetched, f)))
       \/ "db" \in Faults /\ UNCHANGED table
    /\ UNCHANGED <<cacheDir, localDir, server, listed, manifest, clock, up, polled, fetched>>

\* A removed name loses its row; the additions come first.
PollRemove(f) ==
    /\ up /\ f \in todo /\ todo \subseteq Removed(polled, fetched)
    /\ todo' = todo \ {f}
    /\ \/ table' = DeleteFile(f)
       \/ "db" \in Faults /\ UNCHANGED table
    /\ UNCHANGED <<cacheDir, localDir, server, listed, manifest, clock, up, polled, fetched>>

PollDone ==
    /\ up /\ todo = {} /\ fetched # polled
    /\ polled' = fetched
    /\ UNCHANGED <<stateVars, fetched, todo>>

PollStep == PollFetch \/ PollDone \/ \E f \in Files : PollAdd(f) \/ PollRemove(f)

\* A poller starts from the manifest of the mount.
PollInit == polled = manifest /\ fetched = manifest /\ todo = {}
PollRestart == polled' = manifest' /\ fetched' = manifest' /\ todo' = {}

PollTypeOK ==
    /\ polled \in Manifests
    /\ fetched \in Manifests
    /\ todo \subseteq Files
=============================================================================
