----------------------------- MODULE FetchPolicy -----------------------------
(***************************************************************************)
(* The fetch policy (internal/fusefs/fetch_policy.go): whether a read of a *)
(* REMOTE file asks for a range or downloads the file.  Hints and cooldowns*)
(* belong to a file and are kept under a mutex, one call at a time; the    *)
(* read tracker belongs to a handle and is updated without a lock.         *)
(* Times are numbers; a hint or cooldown that is not set is Never.         *)
(***************************************************************************)
EXTENDS Integers

CONSTANTS
    Files,
    Adaptive,             \* the blk files (isAdaptiveTargetFile)
    Handles,
    Mode,                 \* "auto", "file" or "range"
    GapTolerance,         \* the policy's configuration
    MinRangeRequests,
    MinSequentialBytes,
    MinSequentialPercent,
    MaxBackwardSeeks,
    FileHintTTL,
    PromotionCooldown

VARIABLES
    fileHints,            \* file -> until when reads download it
    cooldownUntil,        \* file -> until when they do not
    tracker               \* handle -> SequentialReadTracker

policyVars == <<fileHints, cooldownUntil, tracker>>

Never == 0                \* clocks start at 1

\* what NewFetchPolicy makes of the configuration: nothing is left at zero
ASSUME PolicyAssumption ==
    /\ Adaptive \subseteq Files /\ Mode \in {"auto", "file", "range"}
    /\ GapTolerance \in Nat /\ MaxBackwardSeeks \in Nat
    /\ MinRangeRequests \in Nat \ {0} /\ MinSequentialBytes \in Nat \ {0}
    /\ MinSequentialPercent \in 1 .. 100
    /\ FileHintTTL \in Nat \ {0} /\ PromotionCooldown \in Nat \ {0}

Tracker == [last : Int, requests : Nat, total : Nat, sequential : Nat, backward : Nat]
NoEnd == -1               \* the tracker is not initialized
FreshTracker == [last |-> NoEnd, requests |-> 0, total |-> 0, sequential |-> 0, backward |-> 0]

PolicyInit ==
    /\ fileHints = [f \in Files |-> Never] /\ cooldownUntil = [f \in Files |-> Never]
    /\ tracker = [h \in Handles |-> FreshTracker]

PolicyTypeOK ==
    /\ fileHints \in [Files -> Nat] /\ cooldownUntil \in [Files -> Nat]
    /\ tracker \in [Handles -> Tracker]

InCooldown(f, now) == now < cooldownUntil[f]

\* the mode for a read; an expired hint is dropped on the way
ResolveMode(f, now) ==
    IF Mode # "auto" THEN Mode
    ELSE IF f \in Adaptive /\ ~InCooldown(f, now) /\ now < fileHints[f] THEN "file" ELSE "range"
HintsAfterResolve(f, now) ==
    IF Mode = "auto" /\ f \in Adaptive /\ ~InCooldown(f, now) /\ fileHints[f] <= now
    THEN [fileHints EXCEPT ![f] = Never] ELSE fileHints

MarkPromotionSuccess(f, now) ==
    /\ fileHints' = [fileHints EXCEPT ![f] = now + FileHintTTL]
    /\ cooldownUntil' = [cooldownUntil EXCEPT ![f] = Never]
MarkPromotionFailure(f, now) ==
    /\ cooldownUntil' = [cooldownUntil EXCEPT ![f] = now + PromotionCooldown]
    /\ fileHints' = [fileHints EXCEPT ![f] = Never]

\* Faulty variant of ShouldPromoteToFile: the number of requests is not looked at
PromoteOnBytes(f, t, now) ==
    /\ Mode = "auto" /\ f \in Adaptive
    /\ t.sequential >= MinSequentialBytes /\ t.total > 0
    /\ t.backward <= MaxBackwardSeeks
    /\ t.sequential * 100 >= t.total * MinSequentialPercent
    /\ ~InCooldown(f, now)
ShouldPromoteToFile(f, t, now) ==
    /\ Mode = "auto" /\ f \in Adaptive
    /\ t.requests >= MinRangeRequests
    /\ t.sequential >= MinSequentialBytes /\ t.total > 0
    /\ t.backward <= MaxBackwardSeeks
    /\ t.sequential * 100 >= t.total * MinSequentialPercent
    /\ ~InCooldown(f, now)

\* what ObserveRangeRead of n bytes at off adds to a tracker
Observed(t, off, n) ==
    LET delta == off - t.last
        inOrder == t.last = NoEnd \/ (delta >= 0 /\ delta <= GapTolerance)
    IN  [last |-> off + n, requests |-> 1, total |-> n,
         sequential |-> IF inOrder THEN n ELSE 0,
         backward |-> IF t.last # NoEnd /\ delta < 0 THEN 1 ELSE 0]

\* ObserveRangeRead by a read that saw the tracker as before: each counter is added to
\* as it is now or as it was then, since no lock keeps the increments apart
ObserveRangeRead(h, before, off, n) ==
    IF n <= 0 THEN tracker' = tracker
    ELSE \E requests, total, sequential, backward \in {before, tracker[h]}, seen \in {before, tracker[h]} :
           LET add == Observed(seen, off, n) IN
           tracker' = [tracker EXCEPT ![h] =
               [last |-> add.last,
                requests |-> requests.requests + add.requests,
                total |-> total.total + add.total,
                sequential |-> sequential.sequential + add.sequential,
                backward |-> backward.backward + add.backward]]
=============================================================================
