-------------------------- MODULE RemoteReadProofs --------------------------
(***************************************************************************)
(* Proofs about RemoteRead, for any number of files, handles, readers and  *)
(* requests, every configuration of the fetch policy and all faults.       *)
(***************************************************************************)
EXTENDS RemoteRead, Loops, SequenceTheorems, TLAPS

(***************************************************************************)
(* Types.  TypeOK is not inductive alone: hints and cooldowns are computed *)
(* from the time a read took along, the tracker from its offset and length *)
(* and from an earlier tracker, and all of them by way of its handle.      *)
(***************************************************************************)

\* The reads under way and what they take along.
CallsOK ==
    /\ pc \in [Readers -> {"idle", "map", "block", "do", "wait", "eio", "observe", "observelast",
                           "promote", "mark"} \cup Requesting]
    /\ attempt \in [Readers -> 0 .. RetryCount]
    /\ call \in [Readers -> [h : Handles \cup {NoHandle}, off : Nat, len : Nat, now : Nat]]
    /\ before \in [Readers -> Tracker]
    /\ \A r \in Readers : pc[r] # "idle" => call[r].h \in Handles

TypeInv == TypeOK /\ CallsOK /\ ranged \in [Handles -> [requests : Nat, bytes : Nat]]

\* The answer to a range request is a sequence of units, each the one that belongs at its
\* place or damaged.
LEMMA DeliveredUnits ==
    ASSUME NEW f \in Files, NEW off \in Nat, NEW len \in Nat
    PROVE  \A data \in Delivered(f, off, len) :
              data \in Seq(Int) /\ \A i \in DOMAIN data : data[i] \in {off + i - 1, Damaged}
<1> DEFINE n == IF off >= Len(Layout[f]) THEN 0
                ELSE IF off + len <= Len(Layout[f]) THEN len ELSE Len(Layout[f]) - off
           s == Slice(f, off, len)
           Units(data) == \A i \in DOMAIN data : data[i] \in {off + i - 1, Damaged}
<1>1. Len(Layout[f]) \in Nat
  BY RemoteReadAssumption
<1>2. n \in Nat
  BY <1>1
<1>3. s = [i \in 1 .. n |-> off + i - 1]
  BY DEF Slice
<1> HIDE DEF n
<1>4. s \in Seq(Int) /\ Units(s) /\ DOMAIN s = 1 .. Len(s) /\ Len(s) \in Nat
  BY <1>2, <1>3
<1> HIDE DEF s
<1>5. ASSUME NEW j \in DOMAIN s
      PROVE  [s EXCEPT ![j] = Damaged] \in Seq(Int) /\ Units([s EXCEPT ![j] = Damaged])
  <2>1. Damaged \in Int
    BY DEF Damaged
  <2>2. QED
    BY <1>4, <2>1
<1>6. ASSUME s # <<>> PROVE Front(s) \in Seq(Int) /\ Units(Front(s))
  <2>1. Front(s) = [i \in 1 .. Len(s) - 1 |-> s[i]] /\ Len(s) - 1 \in Nat
    BY <1>4, <1>6 DEF Front
  <2>2. QED
    BY <1>4, <2>1
<1>7. QED
  BY <1>4, <1>5, <1>6 DEF Delivered, s

\* The start states have the types.
LEMMA TypeInvInit == Init => TypeInv
BY RemoteReadAssumption, PolicyAssumption
   DEF Init, PolicyInit, TypeInv, TypeOK, CallsOK, PolicyTypeOK, Requesting, NoCall, FreshTracker,
       Tracker, NoEnd, Never, Range

\* A read that ends, or goes on elsewhere, keeps what the reads take along within its
\* type; one that is under way has a handle on a file.
LEMMA ReadTypes ==
    ASSUME TypeInv, NEW r \in Readers
    PROVE  /\ Return(r) => CallsOK'
           /\ \A p \in {"map", "block", "do", "wait", "eio", "observe", "observelast", "promote",
                        "mark"} \cup Requesting :
                  pc[r] # "idle" /\ Goto(r, p) /\ UNCHANGED <<call, before>> => CallsOK'
           /\ pc[r] # "idle" => /\ FileIn(r) \in Files /\ call[r].h \in Handles
                                /\ call[r].off \in Nat /\ call[r].len \in Nat /\ call[r].now \in Nat
<1> USE DEF TypeInv, CallsOK
<1>1. ASSUME Return(r) PROVE CallsOK'
  <2>1. FreshTracker \in Tracker
    BY DEF FreshTracker, Tracker, NoEnd
  <2>2. /\ NoCall \in [h : Handles \cup {NoHandle}, off : Nat, len : Nat, now : Nat]
        /\ 0 \in 0 .. RetryCount
    BY RemoteReadAssumption DEF NoCall
  <2>3. /\ \A q \in Readers : pc'[q] # "idle" => q # r /\ pc'[q] = pc[q] /\ call'[q] = call[q]
        /\ attempt' \in [Readers -> 0 .. RetryCount] /\ before' \in [Readers -> Tracker]
    BY <1>1, <2>1, <2>2 DEF Return
  <2>4. QED
    BY <1>1, <2>2, <2>3 DEF Return
<1>2. ASSUME NEW p \in {"map", "block", "do", "wait", "eio", "observe", "observelast", "promote",
                        "mark"} \cup Requesting,
             pc[r] # "idle", Goto(r, p), UNCHANGED <<call, before>>
      PROVE  CallsOK'
  BY <1>2, RemoteReadAssumption DEF Goto
<1>3. ASSUME pc[r] # "idle"
      PROVE  /\ FileIn(r) \in Files /\ call[r].h \in Handles
             /\ call[r].off \in Nat /\ call[r].len \in Nat /\ call[r].now \in Nat
  BY <1>3, RemoteReadAssumption DEF FileIn
<1>4. QED
  BY <1>1, <1>2, <1>3

\* ObserveRangeRead writes the tracker of its handle, and no counter becomes more than one
\* it found there, now or when it began, with its own request added.
LEMMA ObserveAdds ==
    ASSUME tracker \in [Handles -> Tracker], NEW h \in Handles, NEW b \in Tracker,
           NEW off \in Nat, NEW n \in Nat, ObserveRangeRead(h, b, off, n)
    PROVE  \E t \in Tracker :
              /\ tracker' = [tracker EXCEPT ![h] = t]
              /\ t.requests <= b.requests + 1 \/ t.requests <= tracker[h].requests + 1
              /\ t.sequential <= b.sequential + n \/ t.sequential <= tracker[h].sequential + n
<1> DEFINE now == tracker[h]
           Adds(t) == /\ t.requests <= b.requests + 1 \/ t.requests <= now.requests + 1
                      /\ t.sequential <= b.sequential + n \/ t.sequential <= now.sequential + n
<1>1. now \in Tracker
  OBVIOUS
<1>2. CASE n <= 0
  <2>1. tracker' = [tracker EXCEPT ![h] = now]
    BY <1>2 DEF ObserveRangeRead
  <2>2. Adds(now)
    BY <1>1 DEF Tracker
  <2>3. QED
    BY <1>1, <2>1, <2>2
<1>3. CASE ~(n <= 0)
  <2>1. PICK requests, total, sequential, backward \in {b, now}, seen \in {b, now} :
            tracker' = [tracker EXCEPT ![h] =
               [last |-> Observed(seen, off, n).last,
                requests |-> requests.requests + Observed(seen, off, n).requests,
                total |-> total.total + Observed(seen, off, n).total,
                sequential |-> sequential.sequential + Observed(seen, off, n).sequential,
                backward |-> backward.backward + Observed(seen, off, n).backward]]
    BY <1>3 DEF ObserveRangeRead
  <2> DEFINE add == Observed(seen, off, n)
             t == [last |-> add.last, requests |-> requests.requests + add.requests,
                   total |-> total.total + add.total,
                   sequential |-> sequential.sequential + add.sequential,
                   backward |-> backward.backward + add.backward]
  <2>2. add \in Tracker /\ add.requests = 1 /\ add.sequential \in {0, n}
    BY <1>1, PolicyAssumption DEF Observed, Tracker
  <2>3. tracker' = [tracker EXCEPT ![h] = t]
    BY <2>1
  <2> HIDE DEF add, now
  <2>4. t \in Tracker
    BY <1>1, <2>2 DEF Tracker
  <2>5. Adds(t)
    BY <1>1, <2>2 DEF Tracker
  <2> HIDE DEF t
  <2>6. QED
    BY <2>3, <2>4, <2>5 DEF now
<1>4. QED
  BY <1>2, <1>3

\* Every step keeps the types.
LEMMA TypeInvNext == TypeInv /\ [Next]_vars => TypeInv'
<1> SUFFICES ASSUME TypeInv, [Next]_vars PROVE TypeInv'
  OBVIOUS
<1> USE DEF TypeInv
<1>types. TypeOK /\ CallsOK /\ PolicyTypeOK
  BY DEF TypeOK
<1>kept. ASSUME CallsOK', UNCHANGED <<clock, ranged, policyVars>>,
                handleState' \in [Handles -> {"REMOTE", "CACHED"}],
                blockmaps' \in [Files -> {"unknown", "loaded", "none"}],
                Range(blockDL') \subseteq Readers
         PROVE  TypeInv'
  BY <1>kept DEF TypeOK, CallsOK, PolicyTypeOK, policyVars
<1>1. ASSUME NEW r \in Readers, NEW h \in Handles, NEW q \in Requests, ReadStart(r, h, q[1], q[2])
      PROVE  TypeInv'
  <2>1. q[1] \in Nat /\ q[2] \in Nat /\ clock \in Nat
    BY RemoteReadAssumption DEF TypeOK
  <2>2. CallsOK'
    <3> DEFINE c == [h |-> h, off |-> q[1], len |-> q[2], now |-> clock]
    <3>1. c \in [h : Handles \cup {NoHandle}, off : Nat, len : Nat, now : Nat] /\ c.h \in Handles
      BY <2>1
    <3>2. call' = [call EXCEPT ![r] = c] /\ UNCHANGED before
      BY <1>1 DEF ReadStart
    <3> HIDE DEF c
    <3>3. PICK p \in {"map"} \cup Requesting : Goto(r, p)
      BY <1>1 DEF ReadStart, Requesting
    <3>4. /\ attempt' \in [Readers -> 0 .. RetryCount]
          /\ pc' \in [Readers -> {"idle", "map", "block", "do", "wait", "eio", "observe",
                                  "observelast", "promote", "mark"} \cup Requesting]
          /\ \A x \in Readers \ {r} : pc'[x] = pc[x]
      BY <3>3, RemoteReadAssumption DEF Goto, CallsOK
    <3>5. QED
      BY <3>1, <3>2, <3>4 DEF CallsOK
  <2>3. fileHints' \in [Files -> Nat]
    BY <1>1 DEF ReadStart, HintsAfterResolve, TypeOK, PolicyTypeOK, Never
  <2>4. QED
    BY <1>1, <2>2, <2>3 DEF ReadStart, TypeOK, CallsOK, PolicyTypeOK, Range
<1>2. ASSUME NEW r \in Readers, Retry(r) PROVE TypeInv'
  <2>1. CallsOK'
    BY <1>2, RemoteReadAssumption DEF Retry, CallsOK
  <2>2. QED
    BY <1>2, <2>1, <1>kept DEF Retry, TypeOK
<1>3. ASSUME NEW r \in Readers, MapLookup(r) \/ MapFetched(r) PROVE TypeInv'
  BY <1>3, <1>kept, ReadTypes DEF MapLookup, MapFetched, TypeOK, Requesting
<1>4. ASSUME NEW r \in Readers, NextBlock(r) \/ EnterFlight(r) PROVE TypeInv'
  <2>1. CallsOK'
    BY <1>4, ReadTypes DEF NextBlock, EnterFlight, Requesting, CallsOK
  <2>2. \A k : Range(Put(blockDL, k, r)) \subseteq Readers
    BY DEF TypeOK, Range, Put
  <2>3. Range(blockDL') \subseteq Readers
    BY <1>4, <2>2 DEF NextBlock, EnterFlight, TypeOK
  <2>4. QED
    BY <1>4, <2>1, <2>3, <1>kept DEF NextBlock, EnterFlight, TypeOK
<1>5. ASSUME NEW r \in Readers, BlockFetched(r) PROVE TypeInv'
  <2>1. PICK ok \in BOOLEAN : EndFlight(r, ok)
    BY <1>5 DEF BlockFetched
  <2>2. CallsOK'
    BY <1>5, <2>1, RemoteReadAssumption DEF EndFlight, BlockFetched, CallsOK
  <2>3. \A k : Range(Restrict(blockDL, DOMAIN blockDL \ {k})) \subseteq Readers
    BY DEF TypeOK, Range, Restrict
  <2>4. Range(blockDL') \subseteq Readers
    BY <2>1, <2>3 DEF EndFlight
  <2>5. QED
    BY <2>1, <2>2, <2>4, <1>kept DEF EndFlight, TypeOK
<1>6. ASSUME NEW r \in Readers, BlockFailed(r) \/ FallbackFailed(r) \/ RangeFailed(r) \/ Promote(r)
      PROVE  TypeInv'
  BY <1>6, <1>kept, ReadTypes
     DEF BlockFailed, FallbackFailed, RangeFailed, Promote, TypeOK, Requesting
<1>7. ASSUME NEW r \in Readers, Assemble(r) \/ RangeFetched(r) PROVE TypeInv'
  <2>1. pc[r] # "idle" /\ tracker[call[r].h] \in Tracker
    BY <1>7, ReadTypes DEF Assemble, RangeFetched, TypeOK, PolicyTypeOK
  <2>2. CASE Assemble(r)
    <3>1. before' \in [Readers -> Tracker]
      BY <2>1, <2>2 DEF Assemble, CallsOK
    <3>2. CallsOK'
      BY <2>1, <2>2, <3>1, RemoteReadAssumption DEF Assemble, Goto, CallsOK
    <3>3. QED
      BY <2>2, <3>2, <1>kept DEF Assemble, TypeOK
  <2>3. CASE RangeFetched(r)
    <3>1. PICK data \in Delivered(FileIn(r), call[r].off, call[r].len) :
              call' = [call EXCEPT ![r].len = Len(data)]
      BY <2>3 DEF RangeFetched
    <3>2. Len(data) \in Nat
      BY <2>1, <3>1, ReadTypes, DeliveredUnits
    <3>3. before' \in [Readers -> Tracker]
      BY <2>1, <2>3 DEF RangeFetched, CallsOK
    <3>4. /\ call' \in [Readers -> [h : Handles \cup {NoHandle}, off : Nat, len : Nat, now : Nat]]
          /\ \A q \in Readers : call'[q].h = call[q].h
      BY <3>1, <3>2 DEF CallsOK
    <3>5. /\ attempt' \in [Readers -> 0 .. RetryCount]
          /\ pc' \in [Readers -> {"idle", "map", "block", "do", "wait", "eio", "observe",
                                  "observelast", "promote", "mark"} \cup Requesting]
          /\ \A q \in Readers \ {r} : pc'[q] = pc[q]
      BY <2>3, RemoteReadAssumption DEF RangeFetched, Goto, CallsOK
    <3>6. CallsOK'
      BY <2>1, <3>3, <3>4, <3>5 DEF CallsOK
    <3>7. QED
      BY <2>3, <3>6, <1>kept DEF RangeFetched, TypeOK
  <2>4. QED
    BY <1>7, <2>2, <2>3
<1>8. ASSUME NEW r \in Readers, FullFetched(r) \/ FullFailed(r) \/ Mark(r) PROVE TypeInv'
  <2>1. pc[r] # "idle" /\ call[r].now \in Nat /\ FileIn(r) \in Files
    BY <1>8, ReadTypes DEF FullFetched, FullFailed, Mark
  <2>2. CallsOK'
    BY <1>8, ReadTypes DEF FullFetched, FullFailed, Mark, Requesting
  <2>3. fileHints' \in [Files -> Nat] /\ cooldownUntil' \in [Files -> Nat]
    BY <1>8, <2>1, PolicyAssumption DEF FullFetched, FullFailed, Mark, MarkPromotionSuccess,
       MarkPromotionFailure, TypeOK, PolicyTypeOK, Never
  <2>4. QED
    BY <1>8, <2>2, <2>3 DEF FullFetched, FullFailed, Mark, TypeOK, CallsOK, PolicyTypeOK
<1>9. ASSUME NEW r \in Readers, Observe(r) PROVE TypeInv'
  <2> DEFINE c == call[r]
  <2>1. c.h \in Handles /\ c.off \in Nat /\ c.len \in Nat /\ before[r] \in Tracker
        /\ tracker[c.h] \in Tracker /\ tracker \in [Handles -> Tracker]
    BY <1>9, ReadTypes DEF Observe, TypeOK, CallsOK, PolicyTypeOK
  <2>2. tracker' \in [Handles -> Tracker]
    <3>1. ObserveRangeRead(c.h, before[r], c.off, c.len)
      BY <1>9 DEF Observe
    <3>2. QED
      BY <2>1, <3>1, ObserveAdds
  <2>3. ranged' \in [Handles -> [requests : Nat, bytes : Nat]]
    BY <1>9, <2>1 DEF Observe
  <2>4. CallsOK'
    BY <1>9, ReadTypes DEF Observe
  <2>5. QED
    BY <1>9, <2>2, <2>3, <2>4 DEF Observe, TypeOK, CallsOK, PolicyTypeOK
<1>10. CASE Tick
  BY <1>10, RemoteReadAssumption DEF Tick, TypeOK, CallsOK, PolicyTypeOK, policyVars
<1>11. CASE UNCHANGED vars
  BY <1>11, <1>kept DEF vars, TypeOK, CallsOK
<1>12. QED
  BY <1>1, <1>2, <1>3, <1>4, <1>5, <1>6, <1>7, <1>8, <1>9, <1>10, <1>11 DEF Next, Step

\* Every variable of a read keeps its type, and no request is tried more often than the
\* retry count allows (doWithRetry), whatever the faults.
THEOREM ReadTypeCorrect == Spec => []TypeOK
<1>1. TypeInv => TypeOK
  BY DEF TypeInv
<1>2. QED
  BY <1>1, TypeInvInit, TypeInvNext, PTL DEF Spec

(***************************************************************************)
(* Promotions.  Two reads of a handle may observe at a time, and one then  *)
(* writes counters it read before the other; what both saw must therefore  *)
(* be bounded by what the handle really read.                              *)
(***************************************************************************)

\* A tracker of a handle counts no more than the range reads the handle made.
NoMore(t, h) == t.requests <= ranged[h].requests /\ t.sequential <= ranged[h].bytes

EarnedInv ==
    /\ \A h \in Handles : NoMore(tracker[h], h)
    /\ \A r \in Readers : pc[r] \in {"observe", "observelast"} => NoMore(before[r], call[r].h)
    /\ PromotionIsEarned

\* Nothing is counted at the start.
LEMMA EarnedInit == Init => EarnedInv
BY DEF Init, PolicyInit, EarnedInv, NoMore, PromotionIsEarned, FreshTracker

\* A step that touches no tracker, and begins neither to observe nor to promote.
NotCounting ==
    /\ UNCHANGED <<tracker, ranged>>
    /\ \A r \in Readers : pc'[r] \in {"observe", "observelast", "mark"} =>
          pc'[r] = pc[r] /\ before'[r] = before[r] /\ call'[r] = call[r]

\* A step that does not count keeps what was counted.
LEMMA NotCountingKeeps == TypeInv /\ EarnedInv /\ NotCounting => EarnedInv'
BY DEF EarnedInv, NotCounting, NoMore, PromotionIsEarned

\* Only Assemble, RangeFetched, Observe and Promote count.
LEMMA OthersDoNotCount ==
    ASSUME TypeInv, [Next]_vars,
           ~ \E r \in Readers : Assemble(r) \/ RangeFetched(r) \/ Observe(r) \/ Promote(r)
    PROVE  NotCounting
<1> USE DEF NotCounting
<1>types. CallsOK
  BY DEF TypeInv
<1>return. ASSUME NEW r \in Readers, Return(r), UNCHANGED <<tracker, ranged>> PROVE NotCounting
  BY <1>return DEF Return, TypeInv, CallsOK
<1>goto. ASSUME NEW r \in Readers, NEW p, p \notin {"observe", "observelast", "mark"}, Goto(r, p),
                UNCHANGED <<before, tracker, ranged>>, \A q \in Readers \ {r} : call'[q] = call[q]
         PROVE  NotCounting
  BY <1>goto DEF Goto, TypeInv, CallsOK
<1>1. ASSUME NEW r \in Readers, NEW h \in Handles, NEW q \in Requests, ReadStart(r, h, q[1], q[2])
      PROVE  NotCounting
  BY <1>1, <1>goto DEF ReadStart, TypeInv, CallsOK
<1>2. ASSUME NEW r \in Readers, Retry(r) PROVE NotCounting
  BY <1>2 DEF Retry, policyVars
<1>3. ASSUME NEW r \in Readers, MapLookup(r) \/ MapFetched(r) \/ RangeFailed(r) \/ FullFailed(r)
      PROVE  NotCounting
  BY <1>3, <1>goto DEF MapLookup, MapFetched, RangeFailed, FullFailed, policyVars
<1>4. ASSUME NEW r \in Readers, NextBlock(r) \/ EnterFlight(r) PROVE NotCounting
  BY <1>4, <1>goto DEF NextBlock, EnterFlight, policyVars
<1>5. ASSUME NEW r \in Readers, BlockFetched(r) PROVE NotCounting
  <2>1. PICK ok \in BOOLEAN : EndFlight(r, ok)
    BY <1>5 DEF BlockFetched
  <2>2. QED
    BY <2>1 DEF EndFlight, policyVars
<1>6. ASSUME NEW r \in Readers, BlockFailed(r) \/ FallbackFailed(r) \/ FullFetched(r) \/ Mark(r)
      PROVE  NotCounting
  BY <1>6, <1>return DEF BlockFailed, FallbackFailed, FullFetched, Mark, policyVars
<1>7. CASE Tick \/ UNCHANGED vars
  BY <1>7 DEF Tick, vars, policyVars
<1>8. QED
  BY <1>1, <1>2, <1>3, <1>4, <1>5, <1>6, <1>7 DEF Next, Step

\* Every step keeps the counters within what was read.
LEMMA EarnedNext == TypeInv /\ EarnedInv /\ [Next]_vars => EarnedInv'
<1> SUFFICES ASSUME TypeInv, EarnedInv, [Next]_vars PROVE EarnedInv'
  OBVIOUS
<1>types. TypeOK /\ CallsOK /\ PolicyTypeOK /\ ranged \in [Handles -> [requests : Nat, bytes : Nat]]
  BY DEF TypeInv, TypeOK
<1>1. ASSUME NEW r \in Readers, Assemble(r) \/ RangeFetched(r) PROVE EarnedInv'
  <2>1. /\ UNCHANGED <<tracker, ranged>> /\ pc[r] # "idle"
        /\ before'[r] = tracker[call[r].h] /\ call'[r].h = call[r].h
    BY <1>1, <1>types DEF Assemble, RangeFetched, policyVars, CallsOK
  <2>2. \A q \in Readers : q # r => before'[q] = before[q] /\ call'[q] = call[q] /\ pc'[q] = pc[q]
    BY <1>1, <1>types DEF Assemble, RangeFetched, Goto, CallsOK
  <2>3. pc'[r] # "mark"
    BY <1>1, <1>types DEF Assemble, RangeFetched, Goto, CallsOK
  <2>4. call[r].h \in Handles
    BY <2>1, ReadTypes
  <2>5. QED
    BY <2>1, <2>2, <2>3, <2>4 DEF EarnedInv, NoMore, PromotionIsEarned
<1>2. ASSUME NEW r \in Readers, Observe(r) PROVE EarnedInv'
  <2> DEFINE c == call[r]
  <2>1. /\ c.h \in Handles /\ c.off \in Nat /\ c.len \in Nat
        /\ before[r] \in Tracker /\ tracker \in [Handles -> Tracker]
        /\ ObserveRangeRead(c.h, before[r], c.off, c.len) /\ pc[r] \in {"observe", "observelast"}
    BY <1>2, <1>types, ReadTypes DEF Observe, CallsOK, PolicyTypeOK
  <2>2. PICK t \in Tracker :
           /\ tracker' = [tracker EXCEPT ![c.h] = t]
           /\ t.requests <= before[r].requests + 1 \/ t.requests <= tracker[c.h].requests + 1
           /\ \/ t.sequential <= before[r].sequential + c.len
              \/ t.sequential <= tracker[c.h].sequential + c.len
    BY <2>1, ObserveAdds
  <2>3. NoMore(before[r], c.h) /\ NoMore(tracker[c.h], c.h)
    BY <2>1 DEF EarnedInv
  <2>4. ranged' = [ranged EXCEPT ![c.h] = [requests |-> @.requests + 1, bytes |-> @.bytes + c.len]]
    BY <1>2 DEF Observe
  <2>5. /\ \A h \in Handles : ranged'[h].requests \in Nat /\ ranged'[h].bytes \in Nat
        /\ \A h \in Handles : /\ ranged[h].requests <= ranged'[h].requests
                              /\ ranged[h].bytes <= ranged'[h].bytes
        /\ ranged'[c.h].requests = ranged[c.h].requests + 1
        /\ ranged'[c.h].bytes = ranged[c.h].bytes + c.len
    BY <1>types, <2>1, <2>4
  <2> HIDE DEF c
  <2>6. \A h \in Handles : NoMore(tracker[h], h)'
    <3>1. t.requests <= ranged'[c.h].requests /\ t.sequential <= ranged'[c.h].bytes
      BY <1>types, <2>1, <2>2, <2>3, <2>5 DEF NoMore, Tracker
    <3>2. \A h \in Handles : h # c.h => tracker'[h] = tracker[h] /\ ranged'[h] = ranged[h]
      BY <1>types, <2>1, <2>2, <2>4
    <3>3. QED
      BY <2>1, <2>2, <3>1, <3>2 DEF NoMore, EarnedInv
  <2>7. \A q \in Readers : pc'[q] \in {"observe", "observelast", "mark"} =>
           q # r /\ pc'[q] = pc[q] /\ before'[q] = before[q] /\ call'[q] = call[q]
    BY <1>2, <1>types DEF Observe, Goto, Return, CallsOK
  <2>8. ASSUME NEW q \in Readers, pc'[q] \in {"observe", "observelast"}
        PROVE  before'[q].requests <= ranged'[call'[q].h].requests
               /\ before'[q].sequential <= ranged'[call'[q].h].bytes
    <3>1. /\ call[q].h \in Handles /\ NoMore(before[q], call[q].h)
          /\ before[q] \in Tracker
      BY <1>types, <2>7, <2>8, ReadTypes DEF EarnedInv, CallsOK
    <3>2. QED
      BY <1>types, <2>5, <2>7, <2>8, <3>1 DEF NoMore, Tracker
  <2>9. PromotionIsEarned'
    <3>1. ASSUME NEW q \in Readers, pc'[q] = "mark"
          PROVE  /\ ranged'[call'[q].h].requests >= MinRangeRequests
                 /\ ranged'[call'[q].h].bytes >= MinSequentialBytes
      <4>1. /\ call[q].h \in Handles /\ ranged[call[q].h].requests >= MinRangeRequests
            /\ ranged[call[q].h].bytes >= MinSequentialBytes
        BY <2>7, <3>1, ReadTypes DEF EarnedInv, PromotionIsEarned
      <4>2. QED
        BY <1>types, <2>5, <2>7, <3>1, <4>1, PolicyAssumption
    <3>2. QED
      BY <3>1 DEF PromotionIsEarned
  <2>10. QED
    BY <2>6, <2>8, <2>9 DEF EarnedInv, NoMore
<1>3. ASSUME NEW r \in Readers, Promote(r) PROVE EarnedInv'
  <2>1. /\ UNCHANGED <<tracker, ranged>> /\ pc[r] # "idle"
        /\ \A q \in Readers : pc'[q] \in {"observe", "observelast"} =>
              pc'[q] = pc[q] /\ before'[q] = before[q] /\ call'[q] = call[q]
        /\ \A q \in Readers : pc'[q] = "mark" =>
              /\ call'[q] = call[q]
              /\ q # r => pc[q] = "mark"
              /\ q = r => ShouldPromoteToFile(FileIn(r), tracker[call[r].h], call[r].now)
    BY <1>3, <1>types DEF Promote, Goto, Return, CallsOK, policyVars
  <2>2. pc'[r] = "mark" => /\ ranged[call[r].h].requests >= MinRangeRequests
                           /\ ranged[call[r].h].bytes >= MinSequentialBytes
    <3>1. call[r].h \in Handles /\ tracker[call[r].h] \in Tracker
      BY <2>1, <1>types, ReadTypes DEF PolicyTypeOK
    <3>2. QED
      BY <2>1, <3>1, <1>types, PolicyAssumption DEF ShouldPromoteToFile, EarnedInv, NoMore, Tracker
  <2>3. PromotionIsEarned'
    BY <2>1, <2>2 DEF EarnedInv, PromotionIsEarned
  <2>4. QED
    BY <2>1, <2>3 DEF EarnedInv, NoMore
<1>4. QED
  BY <1>1, <1>2, <1>3, OthersDoNotCount, NotCountingKeeps

\* Lost updates of the tracker only delay a promotion (ObserveRangeRead takes no lock):
\* a handle that turns its file to full downloads has made the range requests and read
\* the bytes the configuration asks for, however many reads of it overlap.
THEOREM PromotionsEarned == Spec => []PromotionIsEarned
<1>1. EarnedInv => PromotionIsEarned
  BY DEF EarnedInv
<1>2. QED
  BY <1>1, TypeInvInit, TypeInvNext, EarnedInit, EarnedNext, PTL DEF Spec

(***************************************************************************)
(* Flights.  A block is not fetched twice because a flight has one leader, *)
(* which found the block missing after it had become the leader; and that  *)
(* only stays so because whoever stores a block leads its flight.          *)
(***************************************************************************)

\* The block a reader is at.
Key(r) == <<FileIn(r), Head(todo[r]).off>>

\* A reader that waits for a flight waits for one whose leader fetches that very block.
WaitsForLeader ==
    \A r \in Readers : pc[r] = "wait" =>
        \E q \in Readers : pc[q] = "fetch" /\ Key(q) = Key(r)

FlightInv ==
    /\ DOMAIN todo = Readers /\ DOMAIN blockCache = Files
    /\ \A k \in DOMAIN blockDL : pc[blockDL[k]] = "fetch" /\ Key(blockDL[k]) = k
    /\ \A r \in Readers : pc[r] = "wait" => Key(r) \in DOMAIN blockDL
    /\ \A r \in Readers : pc[r] = "fetch" => Key(r) \in DOMAIN blockDL /\ blockDL[Key(r)] = r
    /\ NeverRefetched

\* Nobody is in a flight at the start.
LEMMA FlightInit == Init => FlightInv
BY DEF Init, FlightInv, NeverRefetched

\* A step that is taken outside the flights: nobody enters or leaves one.
NotFlying ==
    /\ UNCHANGED <<blockCache, blockDL>> /\ DOMAIN todo' = Readers
    /\ \A r \in Readers :
          /\ pc[r] \in {"fetch", "wait"} <=> pc'[r] \in {"fetch", "wait"}
          /\ pc[r] \in {"fetch", "wait"} => /\ pc'[r] = pc[r] /\ todo'[r] = todo[r]
                                            /\ call'[r] = call[r]

\* Outside the flights nothing changes for those in them.
LEMMA NotFlyingKeeps == TypeInv /\ FlightInv /\ NotFlying => FlightInv'
<1> SUFFICES ASSUME TypeInv, FlightInv, NotFlying PROVE FlightInv'
  OBVIOUS
<1>1. \A r \in Readers : pc[r] \in {"fetch", "wait"} =>
         Key(r)' = Key(r) /\ FileIn(r)' = FileIn(r) /\ Head(todo[r])' = Head(todo[r])
  BY DEF NotFlying, Key, FileIn
<1>2. \A k \in DOMAIN blockDL : blockDL[k] \in Readers
  BY DEF TypeInv, TypeOK, Range
<1>3. \A k \in DOMAIN blockDL' : pc'[blockDL'[k]] = "fetch" /\ (Key(blockDL[k]))' = k
  BY <1>1, <1>2 DEF FlightInv, NotFlying, Key, FileIn
<1>4. \A r \in Readers : pc'[r] = "fetch" => ~HasBlock(FileIn(r), Head(todo[r]))'
  BY <1>1 DEF FlightInv, NotFlying, NeverRefetched, HasBlock
<1>5. QED
  BY <1>1, <1>3, <1>4 DEF FlightInv, NotFlying, NeverRefetched

\* Only EnterFlight and BlockFetched concern flights.
LEMMA OthersDoNotFly ==
    ASSUME TypeInv, FlightInv, [Next]_vars,
           ~ \E r \in Readers : EnterFlight(r) \/ BlockFetched(r)
    PROVE  NotFlying
<1> USE DEF NotFlying
<1>types. CallsOK /\ DOMAIN todo = Readers
  BY DEF TypeInv, FlightInv
<1>return. ASSUME NEW r \in Readers, pc[r] \notin {"fetch", "wait"}, Return(r),
                  UNCHANGED <<blockCache, blockDL>>
           PROVE  NotFlying
  BY <1>return, <1>types DEF Return, CallsOK
<1>goto. ASSUME NEW r \in Readers, NEW p, p \notin {"fetch", "wait"}, pc[r] \notin {"fetch", "wait"},
                Goto(r, p), UNCHANGED <<blockCache, blockDL>>, DOMAIN todo' = Readers,
                \A q \in Readers \ {r} : call'[q] = call[q] /\ todo'[q] = todo[q]
         PROVE  NotFlying
  BY <1>goto, <1>types DEF Goto, CallsOK
<1>1. ASSUME NEW r \in Readers, NEW h \in Handles, NEW q \in Requests, ReadStart(r, h, q[1], q[2])
      PROVE  NotFlying
  BY <1>1, <1>types, <1>goto DEF ReadStart, CallsOK
<1>2. ASSUME NEW r \in Readers, Retry(r) PROVE NotFlying
  BY <1>2, <1>types DEF Retry
<1>3. ASSUME NEW r \in Readers, MapLookup(r) PROVE NotFlying
  BY <1>3, <1>types, <1>goto DEF MapLookup
<1>4. ASSUME NEW r \in Readers, MapFetched(r) \/ RangeFailed(r) \/ FullFailed(r) \/ Assemble(r)
      PROVE  NotFlying
  BY <1>4, <1>types, <1>goto DEF MapFetched, RangeFailed, FullFailed, Assemble
<1>5. ASSUME NEW r \in Readers, NextBlock(r) PROVE NotFlying
  BY <1>5, <1>types, <1>goto DEF NextBlock, CallsOK
<1>6. ASSUME NEW r \in Readers, RangeFetched(r) PROVE NotFlying
  BY <1>6, <1>types, <1>goto DEF RangeFetched, CallsOK
<1>7. ASSUME NEW r \in Readers, BlockFailed(r) \/ FallbackFailed(r) \/ FullFetched(r) \/ Mark(r)
      PROVE  NotFlying
  BY <1>7, <1>return DEF BlockFailed, FallbackFailed, FullFetched, Mark
<1>8. ASSUME NEW r \in Readers, Observe(r) \/ Promote(r) PROVE NotFlying
  BY <1>8, <1>types, <1>return, <1>goto DEF Observe, Promote
<1>9. CASE Tick \/ UNCHANGED vars
  BY <1>9, <1>types DEF Tick, vars
<1>10. QED
  BY <1>1, <1>2, <1>3, <1>4, <1>5, <1>6, <1>7, <1>8, <1>9 DEF Next, Step

\* Every step keeps each flight with its one leader.
LEMMA FlightNext == TypeInv /\ FlightInv /\ [Next]_vars => FlightInv'
<1> SUFFICES ASSUME TypeInv, FlightInv, [Next]_vars PROVE FlightInv'
  OBVIOUS
<1>types. CallsOK /\ DOMAIN todo = Readers /\ DOMAIN blockCache = Files
  BY DEF TypeInv, FlightInv
<1>leaders. \A k \in DOMAIN blockDL : blockDL[k] \in Readers
  BY DEF TypeInv, TypeOK, Range
<1>1. ASSUME NEW r \in Readers, EnterFlight(r) PROVE FlightInv'
  <2>1. /\ UNCHANGED <<call, todo, blockCache>> /\ pc[r] = "do"
        /\ \A q \in Readers : Key(q)' = Key(q)
        /\ \A q \in Readers : q # r => pc'[q] = pc[q]
    BY <1>1, <1>types DEF EnterFlight, Goto, CallsOK, Key, FileIn
  <2>2. \A q \in Readers : HasBlock(FileIn(q), Head(todo[q]))' <=> HasBlock(FileIn(q), Head(todo[q]))
    BY <2>1 DEF HasBlock, FileIn
  <2>3. \A k \in DOMAIN blockDL : blockDL[k] # r
    BY <2>1 DEF FlightInv
  <2>4. CASE UNCHANGED blockDL /\ pc'[r] # "fetch" /\ (pc'[r] = "wait" => Key(r) \in DOMAIN blockDL)
    <3>1. \A k \in DOMAIN blockDL' : pc'[blockDL'[k]] = "fetch" /\ (Key(blockDL[k]))' = k
      BY <1>leaders, <2>1, <2>3, <2>4 DEF FlightInv, Key, FileIn
    <3>2. QED
      BY <1>types, <2>1, <2>2, <2>4, <3>1 DEF FlightInv, NeverRefetched
  <2>5. CASE /\ Key(r) \notin DOMAIN blockDL /\ ~HasBlock(FileIn(r), Head(todo[r]))
             /\ pc'[r] = "fetch" /\ blockDL' = Put(blockDL, Key(r), r)
    <3>1. /\ DOMAIN blockDL' = DOMAIN blockDL \cup {Key(r)} /\ blockDL'[Key(r)] = r
          /\ \A k \in DOMAIN blockDL : blockDL'[k] = blockDL[k]
      BY <2>5 DEF Put
    <3>2. ASSUME NEW k \in DOMAIN blockDL'
          PROVE  pc'[blockDL'[k]] = "fetch" /\ (Key(blockDL[k]))' = k
      <4>1. CASE k = Key(r)
        BY <2>1, <2>5, <3>1, <4>1 DEF Key, FileIn
      <4>2. CASE k # Key(r)
        BY <1>leaders, <2>1, <2>3, <3>1, <3>2, <4>2 DEF FlightInv, Key, FileIn
      <4>3. QED
        BY <4>1, <4>2
    <3>3. \A q \in Readers : pc'[q] = "fetch" => ~HasBlock(FileIn(q), Head(todo[q]))'
      BY <2>1, <2>2, <2>5 DEF FlightInv, NeverRefetched
    <3>4. \A q \in Readers : pc'[q] = "wait" => Key(q)' \in DOMAIN blockDL'
      BY <2>1, <2>5, <3>1 DEF FlightInv
    <3>5. \A q \in Readers : pc'[q] = "fetch" => Key(q)' \in DOMAIN blockDL' /\ blockDL'[Key(q)'] = q
      BY <2>1, <2>5, <3>1 DEF FlightInv
    <3>6. QED
      BY <1>types, <2>1, <3>2, <3>3, <3>4, <3>5 DEF FlightInv, NeverRefetched
  <2>6. QED
    BY <1>1, <1>types, <2>4, <2>5 DEF EnterFlight, Goto, CallsOK, Key
<1>2. ASSUME NEW r \in Readers, BlockFetched(r) PROVE FlightInv'
  <2>1. PICK ok \in BOOLEAN : EndFlight(r, ok)
    BY <1>2 DEF BlockFetched
  <2>2. /\ UNCHANGED <<call, todo>> /\ pc[r] = "fetch"
        /\ \A q \in Readers : Key(q)' = Key(q)
        /\ blockDL' = Restrict(blockDL, DOMAIN blockDL \ {Key(r)})
        /\ \A q \in Readers : pc'[q] \in {"fetch", "wait"} => pc'[q] = pc[q] /\ q # r
        /\ \A q \in Readers : pc'[q] = "wait" => Key(q) # Key(r)
        /\ \A q \in Readers : pc[q] = "fetch" /\ q # r => pc'[q] = "fetch"
    BY <1>2, <2>1 DEF BlockFetched, EndFlight, Key, FileIn
  <2>3. DOMAIN blockDL' = DOMAIN blockDL \ {Key(r)} /\ \A k \in DOMAIN blockDL' : blockDL'[k] = blockDL[k]
    BY <2>2 DEF Restrict
  <2>4. Key(r) \in DOMAIN blockDL /\ blockDL[Key(r)] = r /\ FileIn(r) \in Files
    BY <2>2, ReadTypes DEF FlightInv
  <2>5. ASSUME NEW k \in DOMAIN blockDL'
        PROVE  pc'[blockDL'[k]] = "fetch" /\ (Key(blockDL[k]))' = k
    <3>1. PICK q \in Readers : q = blockDL[k] /\ blockDL'[k] = q /\ pc[q] = "fetch" /\ Key(q) = k
      BY <1>leaders, <2>3, <2>5 DEF FlightInv
    <3>2. q # r
      BY <2>3, <2>5, <3>1
    <3>3. Key(q)' = (Key(blockDL[k]))'
      BY <3>1 DEF Key, FileIn
    <3>4. QED
      BY <2>2, <3>1, <3>2, <3>3
  <2>6. ASSUME NEW q \in Readers, pc'[q] = "fetch" PROVE Key(q) # Key(r) /\ ~HasBlock(FileIn(q), Head(todo[q]))
    BY <2>2, <2>4, <2>6 DEF FlightInv, NeverRefetched
  <2>7. ASSUME NEW q \in Readers, pc'[q] = "fetch" PROVE ~HasBlock(FileIn(q), Head(todo[q]))'
    <3>1. FileIn(q) \in Files
      BY <2>2, <2>7, ReadTypes
    <3>2. CASE UNCHANGED blockCache
      BY <2>2, <2>6, <2>7, <3>2 DEF HasBlock, FileIn
    <3>3. ASSUME NEW data, blockCache' = [blockCache EXCEPT ![FileIn(r)] =
                                              Put(@, Head(todo[r]).off, data)]
          PROVE  ~HasBlock(FileIn(q), Head(todo[q]))'
      BY <1>types, <2>2, <2>6, <2>7, <3>1, <3>3 DEF HasBlock, FileIn, Put, Key
    <3>4. QED
      BY <1>2, <3>2, <3>3 DEF BlockFetched
  <2>8. DOMAIN blockCache' = Files
    BY <1>2, <1>types DEF BlockFetched
  <2>9. \A q \in Readers : pc'[q] = "wait" => Key(q)' \in DOMAIN blockDL'
    BY <2>2, <2>3 DEF FlightInv
  <2>10. \A q \in Readers : pc'[q] = "fetch" => Key(q)' \in DOMAIN blockDL' /\ blockDL'[Key(q)'] = q
    BY <2>2, <2>3, <2>6 DEF FlightInv
  <2>11. NeverRefetched'
    BY <2>7 DEF NeverRefetched
  <2>12. DOMAIN todo' = Readers
    BY <1>types, <2>2
  <2>13. QED
    BY <2>5, <2>8, <2>9, <2>10, <2>11, <2>12 DEF FlightInv
<1>3. QED
  BY <1>1, <1>2, OthersDoNotFly, NotFlyingKeeps

\* A block in the cache is not requested again, however reads, waits, failures and
\* retries interleave: fetchBlock looks again once it leads the flight.
THEOREM BlocksFetchedOnce == Spec => []NeverRefetched
<1>1. FlightInv => NeverRefetched
  BY DEF FlightInv
<1>2. QED
  BY <1>1, TypeInvInit, TypeInvNext, FlightInit, FlightNext, PTL DEF Spec

\* No reader is left behind in blockDL.Do: the flight it waits for is under way, led by a
\* reader at the same block.
THEOREM NobodyWaitsAlone == Spec => []WaitsForLeader
<1>1. TypeInv /\ FlightInv => WaitsForLeader
  BY DEF TypeInv, TypeOK, FlightInv, WaitsForLeader, Range
<1>2. QED
  BY <1>1, TypeInvInit, TypeInvNext, FlightInit, FlightNext, PTL DEF Spec

(***************************************************************************)
(* Blockmaps.  ScanBlkFile, FindBlocks and assembleRead are loops; what    *)
(* one computes is shown by induction over its rounds.                     *)
(***************************************************************************)

\* An entry of a blockmap.
Entry == [off : Nat, len : Nat]
\* The entries lie end to end and cover the first n units of the file.
Tiles(entries, n) ==
    /\ entries \in Seq(Entry)
    /\ \A i \in 1 .. Len(entries) :
          entries[i].len > 1 /\ entries[i].off + entries[i].len <= n
    /\ entries = <<>> => n = 0
    /\ entries # <<>> => /\ entries[1].off = 0
                         /\ entries[Len(entries)].off + entries[Len(entries)].len = n
    /\ \A i \in 1 .. Len(entries) - 1 : entries[i + 1].off = entries[i].off + entries[i].len
    /\ \A i, j \in 1 .. Len(entries) :
          i < j => entries[i].off + entries[i].len <= entries[j].off

\* One block more, where the others end.
LEMMA TilesAppend ==
    ASSUME NEW entries, NEW n \in Nat, Tiles(entries, n), NEW size \in Nat, size > 1
    PROVE  Tiles(Append(entries, [off |-> n, len |-> size]), n + size)
<1> DEFINE e == [off |-> n, len |-> size]
           new == Append(entries, e)
<1>1. e \in Entry /\ e.off = n /\ e.len = size /\ entries \in Seq(Entry)
  BY DEF Entry, Tiles
<1> HIDE DEF e
<1>2. /\ new \in Seq(Entry) /\ Len(new) = Len(entries) + 1 /\ new[Len(entries) + 1] = e
      /\ \A i \in 1 .. Len(entries) : new[i] = entries[i]
      /\ new # <<>> /\ Len(entries) \in Nat
  BY <1>1
<1>3. \A i \in 1 .. Len(entries) : entries[i].off \in Nat /\ entries[i].len \in Nat
  <2>1. \A i \in 1 .. Len(entries) : entries[i] \in Entry
    BY <1>1
  <2>2. QED
    BY <2>1 DEF Entry
<1>4. entries = <<>> <=> Len(entries) = 0
  BY <1>1
<1> HIDE DEF new
<1>5. \A i \in 1 .. Len(new) : new[i].len > 1 /\ new[i].off + new[i].len <= n + size
  BY <1>1, <1>2, <1>3 DEF Tiles
<1>6. new[1].off = 0 /\ new[Len(new)].off + new[Len(new)].len = n + size
  <2>1. new[Len(new)] = e
    BY <1>2
  <2>2. CASE entries = <<>>
    <3>1. n = 0 /\ Len(new) = 1
      BY <1>2, <1>4, <2>2 DEF Tiles
    <3>2. QED
      BY <1>1, <2>1, <3>1
  <2>3. CASE entries # <<>>
    <3>1. 1 \in 1 .. Len(entries) /\ entries[1].off = 0
      BY <1>2, <1>4, <2>3 DEF Tiles
    <3>2. QED
      BY <1>1, <1>2, <2>1, <3>1
  <2>4. QED
    BY <2>2, <2>3
<1>7. \A i \in 1 .. Len(new) - 1 : new[i + 1].off = new[i].off + new[i].len
  BY <1>1, <1>2, <1>3, <1>4 DEF Tiles
<1>8. ASSUME NEW i \in 1 .. Len(new), NEW j \in 1 .. Len(new), i < j
      PROVE  new[i].off + new[i].len <= new[j].off
  <2>1. i \in 1 .. Len(entries) /\ new[i] = entries[i]
    BY <1>2, <1>8
  <2>2. CASE j = Len(entries) + 1
    BY <1>1, <1>2, <2>1, <2>2 DEF Tiles
  <2>3. CASE j \in 1 .. Len(entries)
    BY <1>2, <1>8, <2>1, <2>3 DEF Tiles
  <2>4. QED
    BY <1>2, <2>2, <2>3
<1>9. QED
  BY <1>2, <1>5, <1>6, <1>7, <1>8 DEF Tiles, new, e

\* ScanBlkFile accepts a file only if blocks cover it from the first unit to the last.
LEMMA ScanTiles ==
    ASSUME NEW file \in Seq(Nat)
    PROVE  ScanBlkFile(file) = Failed \/ Tiles(ScanBlkFile(file), Len(file))
<1> DEFINE n == Len(file)
           S == [offset : 0 .. n, entries : Seq(Entry)]
           Round(s) == LET size == file[s.offset + 1]
                       IN  IF s.offset = Len(file) \/ s.entries = Failed THEN s
                           ELSE IF size < 2 \/ s.offset + size > Len(file)
                           THEN [offset |-> s.offset, entries |-> Failed]
                           ELSE [offset |-> s.offset + size,
                                 entries |-> Append(s.entries, [off |-> s.offset, len |-> size])]
           start == [offset |-> 0, entries |-> <<>>]
           IsScan(g) == g = [i \in 0 .. Len(file) |-> IF i = 0 THEN start ELSE Round(g[i - 1])]
           scan == CHOOSE g : IsScan(g)
<1>1. n \in Nat /\ Failed \in Seq(Entry) /\ start \in S
  BY DEF Failed, Entry
<1>2. ASSUME NEW s \in S PROVE Round(s) \in S
  <2>1. CASE s.offset = n \/ s.entries = Failed
    BY <2>1
  <2>2. CASE ~(s.offset = n \/ s.entries = Failed)
    <3> DEFINE size == file[s.offset + 1]
    <3>1. size \in Nat /\ s.offset \in 0 .. n /\ s.entries \in Seq(Entry)
      BY <2>2
    <3>2. [off |-> s.offset, len |-> size] \in Entry
      BY <3>1 DEF Entry
    <3> HIDE DEF size
    <3>3. Append(s.entries, [off |-> s.offset, len |-> size]) \in Seq(Entry)
      BY <3>1, <3>2
    <3>4. QED
      BY <1>1, <2>2, <3>1, <3>3 DEF size
  <2>3. QED
    BY <2>1, <2>2
<1>3. \E g : IsScan(g)
  <2> DEFINE round == [i \in 1 .. n |-> [s \in S |-> Round(s)]]
  <2> HIDE DEF Round, S, start
  <2>1. round \in [1 .. n -> [S -> S]]
    BY <1>2
  <2> HIDE DEF round, n
  <2>2. PICK g : Runs(g, n, S, start, round)
    BY <1>1, <2>1, LoopRuns
  <2>3. ASSUME NEW i \in 1 .. n PROVE g[i] = Round(g[i - 1])
    <3>1. i - 1 \in 0 .. n
      BY <1>1
    <3>2. round[i][g[i - 1]] = Round(g[i - 1])
      BY <2>2, <3>1 DEF round, Runs
    <3>3. QED
      BY <2>2, <3>2 DEF Runs
  <2>4. IsScan(g)
    BY <1>1, <2>2, <2>3 DEF n, Runs
  <2>5. QED
    BY <2>4
<1>4. IsScan(scan)
  BY <1>3, Zenon
<1>5. ScanBlkFile(file) = scan[n].entries
  BY Zenon DEF ScanBlkFile
<1>6. scan[0] = start /\ \A i \in 1 .. n : scan[i] = Round(scan[i - 1])
  <2> HIDE DEF scan, Round, start, n
  <2>1. scan = [i \in 0 .. n |-> IF i = 0 THEN start ELSE Round(scan[i - 1])]
    BY <1>4 DEF n
  <2>2. \A i \in 0 .. n : scan[i] = IF i = 0 THEN start ELSE Round(scan[i - 1])
    BY <2>1, Zenon
  <2>3. QED
    BY <1>1, <2>2
<1> DEFINE T == {i \in 0 .. n : /\ scan[i] \in S
                                /\ \/ scan[i].entries = Failed
                                   \/ /\ Tiles(scan[i].entries, scan[i].offset)
                                      /\ scan[i].offset = n \/ scan[i].offset >= i}
<1> HIDE DEF scan, IsScan
<1>7. 0 \in T
  <2>1. scan[0].entries = <<>> /\ scan[0].offset = 0
    BY <1>6
  <2>2. Tiles(<<>>, 0)
    BY DEF Tiles
  <2>3. 0 \in 0 .. n /\ scan[0] \in S
    BY <1>1, <1>6
  <2> HIDE DEF S
  <2>4. QED
    BY <2>1, <2>2, <2>3
<1>8. ASSUME NEW i \in 0 .. n - 1, i \in T PROVE i + 1 \in T
  <2> DEFINE s == scan[i]
             size == file[s.offset + 1]
  <2>1. scan[i + 1] = Round(s) /\ s \in S /\ Round(s) \in S
    <3> HIDE DEF Round, S
    <3>1. i + 1 \in 1 .. n /\ (i + 1) - 1 = i
      BY <1>1
    <3>2. QED
      BY <1>2, <1>6, <1>8, <3>1
  <2>2. CASE s.offset = n \/ s.entries = Failed
    <3>1. Round(s) = s
      BY <2>2
    <3> HIDE DEF Round, S
    <3>2. scan[i + 1] = scan[i] /\ i + 1 \in 0 .. n
      BY <1>1, <2>1, <3>1
    <3>3. QED
      BY <1>8, <2>2, <3>2
  <2>3. CASE ~(s.offset = n \/ s.entries = Failed)
    <3>1. size \in Nat /\ s.offset \in 0 .. n
      <4>1. s.offset \in 0 .. n /\ s.offset # n
        BY <2>1, <2>3
      <4> HIDE DEF s
      <4>2. s.offset + 1 \in 1 .. n
        BY <1>1, <4>1
      <4>3. QED
        BY <4>1, <4>2
    <3>2. Tiles(s.entries, s.offset) /\ s.offset >= i
      BY <1>8, <2>3
    <3>3. size > 1 => Tiles(Append(s.entries, [off |-> s.offset, len |-> size]), s.offset + size)
      BY <3>1, <3>2, TilesAppend
    <3>4. \/ Round(s) = [offset |-> s.offset, entries |-> Failed]
          \/ /\ size > 1
             /\ Round(s) = [offset |-> s.offset + size,
                            entries |-> Append(s.entries, [off |-> s.offset, len |-> size])]
      <4> HIDE DEF s, S
      <4>1. CASE size < 2 \/ s.offset + size > n
        BY <2>3, <4>1
      <4>2. CASE ~(size < 2 \/ s.offset + size > n)
        BY <2>3, <3>1, <4>2
      <4>3. QED
        BY <4>1, <4>2
    <3> DEFINE t == Round(s)
    <3>5. t.entries = Failed \/ (Tiles(t.entries, t.offset) /\ t.offset >= i + 1)
      <4>1. CASE t = [offset |-> s.offset, entries |-> Failed]
        BY <4>1
      <4>2. CASE /\ size > 1
                 /\ t = [offset |-> s.offset + size,
                         entries |-> Append(s.entries, [off |-> s.offset, len |-> size])]
        <5> HIDE DEF size, s, t
        <5>1. QED
          BY <3>1, <3>2, <3>3, <4>2
      <4>3. QED
        BY <3>4, <4>1, <4>2
    <3> HIDE DEF t, S
    <3>6. i + 1 \in 0 .. n /\ scan[i + 1] = t
      BY <1>1, <2>1 DEF t
    <3>7. QED
      BY <2>1, <3>5, <3>6 DEF t
  <2>4. QED
    BY <2>2, <2>3
<1>9. n \in T
  <2> HIDE DEF T
  <2>1. 0 .. n \subseteq T
    BY <1>1, <1>7, <1>8, UpTo
  <2>2. QED
    BY <1>1, <2>1
<1>10. QED
  BY <1>1, <1>5, <1>9

\* Sorting leaves entries alone that are in order already (Write).
LEMMA SortedStays ==
    ASSUME NEW entries \in Seq(Entry),
           \A i, j \in 1 .. Len(entries) : i < j => entries[i].off < entries[j].off
    PROVE  WriteBlockmap(entries) = entries /\ ReadBlockmap(entries) = entries
<1> DEFINE n == Len(entries)
           places == DOMAIN entries
           Sorts(p) == \A i, j \in places : i < j => entries[p[i]].off <= entries[p[j]].off
           order == CHOOSE p \in Bijection(places, places) : Sorts(p)
<1>1. n \in Nat /\ places = 1 .. n
  OBVIOUS
<1>2. \A i \in 1 .. n : entries[i].off \in Nat
  <2>1. \A i \in 1 .. n : entries[i] \in Entry
    OBVIOUS
  <2>2. QED
    BY <2>1 DEF Entry
<1>3. \E p \in Bijection(places, places) : Sorts(p)
  <2> DEFINE p == [i \in places |-> i]
  <2>1. p \in Bijection(places, places)
    BY DEF Bijection, Injection, Surjection, IsInjective
  <2>2. Sorts(p)
    BY <1>1, <1>2
  <2>3. QED
    BY <2>1, <2>2
<1>4. order \in Bijection(places, places) /\ Sorts(order)
  BY <1>3, Zenon
<1>5. WriteBlockmap(entries) = [i \in places |-> entries[order[i]]]
  BY Zenon DEF WriteBlockmap
<1> HIDE DEF order, n
<1>6. order \in [1 .. n -> 1 .. n] /\ \A i, j \in 1 .. n : order[i] = order[j] => i = j
  BY <1>1, <1>4 DEF Bijection, Injection, Surjection, IsInjective
<1>7. ASSUME NEW i \in 1 .. n, NEW j \in 1 .. n, i < j PROVE order[i] < order[j]
  <2>1. order[i] \in 1 .. n /\ order[j] \in 1 .. n /\ order[i] # order[j]
    BY <1>6, <1>7
  <2>2. entries[order[i]].off <= entries[order[j]].off
    BY <1>1, <1>4, <1>7
  <2>3. ~(order[j] < order[i])
    BY <1>2, <2>1, <2>2 DEF n
  <2>4. QED
    BY <2>1, <2>3
<1>8. \A i \in 1 .. n : order[i] >= i
  <2> DEFINE T == {k \in 0 .. n : k = 0 \/ order[k] >= k}
  <2>1. 0 \in T
    BY <1>1
  <2>2. ASSUME NEW k \in 0 .. n - 1, k \in T PROVE k + 1 \in T
    BY <1>1, <1>6, <1>7, <2>2
  <2> HIDE DEF T
  <2>3. 0 .. n \subseteq T
    BY <1>1, <2>1, <2>2, UpTo
  <2>4. QED
    BY <2>3 DEF T
<1>9. \A i \in 1 .. n : order[i] <= i
  <2> DEFINE T == {k \in 0 .. n : k = n \/ order[n - k] <= n - k}
  <2>1. 0 \in T
    BY <1>1, <1>6
  <2>2. ASSUME NEW k \in 0 .. n - 1, k \in T PROVE k + 1 \in T
    <3>1. CASE k + 1 = n
      BY <3>1
    <3>2. CASE k + 1 # n
      <4>1. n - k \in 1 .. n /\ n - (k + 1) \in 1 .. n /\ n - (k + 1) < n - k
        BY <1>1, <3>2
      <4>2. order[n - k] <= n - k
        BY <1>1, <2>2
      <4>3. order[n - (k + 1)] < order[n - k]
        BY <1>7, <4>1
      <4>4. order[n - (k + 1)] \in Nat /\ order[n - k] \in Nat
        BY <1>6, <4>1
      <4>5. order[n - (k + 1)] <= n - (k + 1)
        BY <1>1, <4>1, <4>2, <4>3, <4>4
      <4>6. QED
        BY <1>1, <4>5
    <3>3. QED
      BY <3>1, <3>2
  <2> HIDE DEF T
  <2>3. 0 .. n \subseteq T
    BY <1>1, <2>1, <2>2, UpTo
  <2>4. ASSUME NEW i \in 1 .. n PROVE order[i] <= i
    <3>1. n - i \in 0 .. n /\ n - (n - i) = i /\ n - i # n
      BY <1>1
    <3>2. n - i \in T
      BY <2>3, <3>1
    <3>3. QED
      BY <3>1, <3>2 DEF T
  <2>5. QED
    BY <2>4
<1>10. \A i \in 1 .. n : order[i] = i
  BY <1>1, <1>6, <1>8, <1>9
<1>11. WriteBlockmap(entries) = entries
  BY <1>1, <1>5, <1>10
<1>12. ReadBlockmap(entries) = entries
  BY <1>1, <1>2 DEF n, ReadBlockmap
<1>13. QED
  BY <1>11, <1>12

\* A blockmap comes back from its file as it was scanned: it covers the file, block after
\* block, unless the file could not be scanned.
LEMMA EntriesTile ==
    ASSUME NEW f \in Files
    PROVE  Entries[f] = Failed \/ Tiles(Entries[f], Len(Layout[f]))
<1>1. Layout[f] \in Seq(Nat)
  BY RemoteReadAssumption
<1>2. CASE Scanned[f] = Failed
  <2>1. /\ Failed \in Seq(Entry)
        /\ \A i, j \in 1 .. Len(Failed) : i < j => Failed[i].off < Failed[j].off
    BY DEF Failed, Entry
  <2>2. WriteBlockmap(Failed) = Failed /\ ReadBlockmap(Failed) = Failed
    BY <2>1, SortedStays
  <2>3. QED
    BY <1>2, <2>2 DEF Entries
<1>3. CASE Tiles(Scanned[f], Len(Layout[f]))
  <2> DEFINE entries == Scanned[f]
  <2>1. entries \in Seq(Entry)
    BY <1>3 DEF Tiles
  <2>2. ASSUME NEW i \in 1 .. Len(entries), NEW j \in 1 .. Len(entries), i < j
        PROVE  entries[i].off < entries[j].off
    <3>1. entries[i] \in Entry /\ entries[j] \in Entry
      BY <2>1
    <3>2. entries[i].len > 1 /\ entries[i].off + entries[i].len <= entries[j].off
      BY <1>3, <2>2 DEF Tiles
    <3> HIDE DEF entries
    <3>3. QED
      BY <3>1, <3>2 DEF Entry
  <2>3. WriteBlockmap(entries) = entries /\ ReadBlockmap(entries) = entries
    BY <2>1, <2>2, SortedStays
  <2>4. QED
    BY <1>3, <2>3 DEF Entries
<1>4. QED
  BY <1>1, <1>2, <1>3, ScanTiles DEF Scanned

\* FindBlocks is the loop over the entries, and takes those that overlap the range.
LEMMA FindBlocksLoop ==
    ASSUME NEW entries \in Seq(Entry), NEW off \in Nat, NEW len \in Nat
    PROVE  \E result \in [0 .. Len(entries) -> Seq(Entry)] :
              /\ FindBlocks(entries, off, len) = result[Len(entries)]
              /\ result[0] = <<>>
              /\ \A i \in 1 .. Len(entries) :
                    result[i] = IF Overlaps(entries[i], off, len)
                                THEN Append(result[i - 1], entries[i]) ELSE result[i - 1]
<1> DEFINE n == Len(entries)
           S == Seq(Entry)
           Round(i, s) == IF Overlaps(entries[i], off, len) THEN Append(s, entries[i]) ELSE s
           round == [i \in 1 .. n |-> [s \in S |-> Round(i, s)]]
           IsResult(g) == g = [i \in 0 .. n |-> IF i = 0 THEN <<>> ELSE Round(i, g[i - 1])]
           result == CHOOSE g : IsResult(g)
<1>1. n \in Nat /\ <<>> \in S /\ \A i \in 1 .. n : entries[i] \in Entry
  OBVIOUS
<1>2. round \in [1 .. n -> [S -> S]]
  BY <1>1
<1>3. FindBlocks(entries, off, len) = result[n]
  BY Zenon DEF FindBlocks
<1> HIDE DEF round, n, S
<1>4. PICK g : Runs(g, n, S, <<>>, round)
  BY <1>1, <1>2, LoopRuns
<1> HIDE DEF Round
<1>5. ASSUME NEW i \in 1 .. n PROVE g[i] = Round(i, g[i - 1])
  <2>1. i - 1 \in 0 .. n
    BY <1>1
  <2>2. round[i][g[i - 1]] = Round(i, g[i - 1])
    BY <1>4, <2>1 DEF round, Runs
  <2>3. QED
    BY <1>4, <2>2 DEF Runs
<1>6. IsResult(g)
  BY <1>1, <1>4, <1>5 DEF Runs
<1>7. IsResult(result)
  BY <1>6, Zenon
<1> HIDE DEF result
<1>8. \A i \in 0 .. n : result[i] = IF i = 0 THEN <<>> ELSE Round(i, result[i - 1])
  BY <1>7, Zenon
<1>9. result = [i \in 0 .. n |-> result[i]]
  BY <1>7
<1>10. result[0] = <<>> /\ \A i \in 1 .. n : result[i] = Round(i, result[i - 1])
  BY <1>1, <1>8
<1>11. \A i \in 0 .. n : result[i] \in S
  <2> DEFINE T == {i \in 0 .. n : result[i] \in S}
  <2>1. 0 \in T
    BY <1>1, <1>10
  <2>2. ASSUME NEW i \in 0 .. n - 1, i \in T PROVE i + 1 \in T
    <3>1. i + 1 \in 1 .. n /\ (i + 1) - 1 = i
      BY <1>1
    <3>2. result[i + 1] = Round(i + 1, result[i])
      BY <1>10, <3>1
    <3>3. entries[i + 1] \in Entry /\ result[i] \in S
      BY <1>1, <2>2, <3>1
    <3>4. Round(i + 1, result[i]) \in S
      BY <3>3 DEF Round, S
    <3>5. i + 1 \in 0 .. n
      BY <1>1
    <3>6. QED
      BY <3>2, <3>4, <3>5
  <2> HIDE DEF T
  <2>3. 0 .. n \subseteq T
    BY <1>1, <2>1, <2>2, UpTo
  <2>4. QED
    BY <2>3 DEF T
<1>12. result \in [0 .. n -> S]
  BY <1>9, <1>11
<1>13. QED
  BY <1>3, <1>10, <1>12 DEF n, S, Round

\* What FindBlocks returns are entries that overlap the range.
LEMMA FoundOverlap ==
    ASSUME NEW entries \in Seq(Entry), NEW off \in Nat, NEW len \in Nat
    PROVE  LET blocks == FindBlocks(entries, off, len) IN
              /\ blocks \in Seq(Entry)
              /\ \A k \in 1 .. Len(blocks) :
                    blocks[k] \in Range(entries) /\ Overlaps(blocks[k], off, len)
<1> DEFINE n == Len(entries)
<1>1. n \in Nat
  OBVIOUS
<1>2. PICK result \in [0 .. n -> Seq(Entry)] :
              /\ FindBlocks(entries, off, len) = result[n]
              /\ result[0] = <<>>
              /\ \A i \in 1 .. n :
                    result[i] = IF Overlaps(entries[i], off, len)
                                THEN Append(result[i - 1], entries[i]) ELSE result[i - 1]
  BY FindBlocksLoop
<1> DEFINE Good(blocks) == \A k \in 1 .. Len(blocks) :
                              blocks[k] \in Range(entries) /\ Overlaps(blocks[k], off, len)
           T == {i \in 0 .. n : Good(result[i])}
<1>3. \A i \in 1 .. n : entries[i] \in Range(entries) /\ entries[i] \in Entry
  BY DEF Range
<1> HIDE DEF n
<1>4. 0 \in T
  BY <1>1, <1>2
<1>5. ASSUME NEW i \in 0 .. n - 1, i \in T PROVE i + 1 \in T
  <2>1. /\ i + 1 \in 1 .. n /\ i + 1 \in 0 .. n
        /\ result[i] \in Seq(Entry) /\ Good(result[i])
        /\ result[i + 1] = IF Overlaps(entries[i + 1], off, len)
                           THEN Append(result[i], entries[i + 1]) ELSE result[i]
    BY <1>1, <1>2, <1>5
  <2>2. CASE ~Overlaps(entries[i + 1], off, len)
    BY <2>1, <2>2
  <2>3. CASE Overlaps(entries[i + 1], off, len)
    <3> DEFINE old == result[i]
               e == entries[i + 1]
               new == Append(old, e)
    <3>1. e \in Entry /\ e \in Range(entries) /\ old \in Seq(Entry)
      BY <1>3, <2>1
    <3> HIDE DEF old, e
    <3>2. /\ Len(new) = Len(old) + 1 /\ Len(old) \in Nat /\ new[Len(old) + 1] = e
          /\ \A k \in 1 .. Len(old) : new[k] = old[k]
      BY <3>1
    <3> HIDE DEF new
    <3>3. Good(old) /\ Overlaps(e, off, len)
      BY <2>1, <2>3 DEF old, e
    <3>4. Good(new)
      BY <3>1, <3>2, <3>3
    <3>5. QED
      BY <2>1, <2>3, <3>4 DEF new, old, e
  <2>4. QED
    BY <2>2, <2>3
<1> HIDE DEF T
<1>6. 0 .. n \subseteq T
  BY <1>1, <1>4, <1>5, UpTo
<1>7. n \in 0 .. n /\ result[n] \in Seq(Entry)
  BY <1>1, <1>2
<1>8. Good(result[n])
  BY <1>6, <1>7 DEF T
<1>9. QED
  BY <1>2, <1>7, <1>8

\* Where the first i of the entries end.
End(entries, i) == IF i = 0 THEN 0 ELSE entries[i].off + entries[i].len

\* The blocks found for a range lie end to end and begin at or before it; they end where
\* the first i entries do, or behind the range.
Covers(blocks, entries, i, off, len) ==
    LET last == End(blocks, Len(blocks)) IN
    /\ \A k \in 1 .. Len(blocks) : off < blocks[k].off + blocks[k].len
    /\ \A k \in 1 .. Len(blocks) - 1 : blocks[k + 1].off = blocks[k].off + blocks[k].len
    /\ blocks = <<>> => End(entries, i) <= off
    /\ blocks # <<>> =>
          /\ blocks[1].off <= off
          /\ last = End(entries, i) \/ (off + len <= last /\ last <= End(entries, i))

\* FindBlocks leaves no gap: between the blocks it returns, and to either end of the range
\* as far as the file goes.
LEMMA FoundCover ==
    ASSUME NEW size \in Nat, NEW entries, Tiles(entries, size),
           NEW off \in Nat, NEW len \in Nat \ {0}
    PROVE  Covers(FindBlocks(entries, off, len), entries, Len(entries), off, len)
<1> DEFINE n == Len(entries)
<1>1. n \in Nat /\ entries \in Seq(Entry)
  BY DEF Tiles
<1>2. PICK result \in [0 .. n -> Seq(Entry)] :
              /\ FindBlocks(entries, off, len) = result[n]
              /\ result[0] = <<>>
              /\ \A i \in 1 .. n :
                    result[i] = IF Overlaps(entries[i], off, len)
                                THEN Append(result[i - 1], entries[i]) ELSE result[i - 1]
  BY <1>1, FindBlocksLoop
<1> DEFINE T == {i \in 0 .. n : Covers(result[i], entries, i, off, len)}
<1>3. \A i \in 1 .. n : entries[i] \in Entry /\ entries[i].off \in Nat /\ entries[i].len \in Nat
  <2>1. \A i \in 1 .. n : entries[i] \in Entry
    BY <1>1
  <2>2. QED
    BY <2>1 DEF Entry
<1>4. \A i \in 0 .. n : End(entries, i) \in Nat
  BY <1>3 DEF End
<1>5. \A i \in 0 .. n - 1 : /\ entries[i + 1].off = End(entries, i) /\ entries[i + 1].len > 1
                             /\ End(entries, i + 1) = entries[i + 1].off + entries[i + 1].len
  BY <1>1, <1>3 DEF Tiles, End
<1> HIDE DEF n
<1>6. 0 \in T
  BY <1>1, <1>2 DEF Covers, End
<1>7. ASSUME NEW i \in 0 .. n - 1, i \in T PROVE i + 1 \in T
  <2> DEFINE old == result[i]
             e == entries[i + 1]
             new == result[i + 1]
             from == End(entries, i)
             to == End(entries, i + 1)
             last == End(old, Len(old))
  <2>1. /\ i + 1 \in 1 .. n /\ i + 1 \in 0 .. n /\ i \in 0 .. n
        /\ old \in Seq(Entry) /\ Covers(old, entries, i, off, len)
        /\ new = IF Overlaps(e, off, len) THEN Append(old, e) ELSE old
    BY <1>1, <1>2, <1>7
  <2>2. /\ e \in Entry /\ e.off = from /\ e.len \in Nat /\ e.len > 1 /\ to = from + e.len
        /\ from \in Nat /\ to \in Nat
    BY <1>3, <1>4, <1>5, <2>1
  <2>3. \A k \in 1 .. Len(old) : old[k].off \in Nat /\ old[k].len \in Nat
    <3>1. \A k \in 1 .. Len(old) : old[k] \in Entry
      BY <2>1
    <3>2. QED
      BY <3>1 DEF Entry
  <2>4. Len(old) \in Nat /\ (old = <<>> <=> Len(old) = 0)
    BY <2>1
  <2> HIDE DEF old, e, new, from, to
  <2>5. last \in Nat /\ (old # <<>> => last = old[Len(old)].off + old[Len(old)].len /\ off < last)
    BY <2>1, <2>3, <2>4 DEF End, Covers
  <2>6. Covers(old, entries, i, off, len)
    BY <2>1
  <2>7. CASE ~Overlaps(e, off, len)
    <3>1. new = old
      BY <2>1, <2>7
    <3>2. off + len <= from \/ to <= off
      BY <2>2, <2>7 DEF Overlaps
    <3>3. old = <<>> => to <= off
      BY <2>2, <2>6, <3>2 DEF Covers, from
    <3>4. old # <<>> => off + len <= last /\ last <= to
      BY <2>2, <2>5, <2>6, <3>2 DEF Covers, from
    <3>5. Covers(old, entries, i + 1, off, len)
      BY <2>6, <3>3, <3>4 DEF Covers, to
    <3>6. QED
      BY <2>1, <3>1, <3>5 DEF new
  <2>8. CASE Overlaps(e, off, len)
    <3>1. /\ Len(new) = Len(old) + 1 /\ new[Len(old) + 1] = e /\ new # <<>>
          /\ \A k \in 1 .. Len(old) : new[k] = old[k]
      <4>1. new = Append(old, e) /\ old \in Seq(Entry) /\ e \in Entry
        BY <2>1, <2>2, <2>8
      <4>2. QED
        BY <4>1
    <3>2. from < off + len /\ off < to
      BY <2>2, <2>8 DEF Overlaps
    <3>3. \A k \in 1 .. Len(new) : off < new[k].off + new[k].len
      BY <2>2, <2>4, <2>6, <3>1, <3>2 DEF Covers
    <3>4. old # <<>> => last = from
      BY <2>2, <2>5, <2>6, <3>2 DEF Covers, from
    <3>5. ASSUME NEW k \in 1 .. Len(new) - 1 PROVE new[k + 1].off = new[k].off + new[k].len
      <4>1. k \in 1 .. Len(old) /\ new[k] = old[k]
        BY <2>4, <3>1
      <4>2. CASE k = Len(old)
        BY <2>2, <2>4, <2>5, <3>1, <3>4, <4>1, <4>2
      <4>3. CASE k # Len(old)
        <5>1. k \in 1 .. Len(old) - 1 /\ k + 1 \in 1 .. Len(old)
          BY <2>4, <4>1, <4>3
        <5>2. QED
          BY <2>6, <3>1, <4>1, <5>1 DEF Covers
      <4>4. QED
        BY <4>2, <4>3
    <3>6. new[1].off <= off
      BY <2>2, <2>4, <2>6, <3>1 DEF Covers, from
    <3>7. End(new, Len(new)) = to
      BY <2>2, <2>4, <3>1 DEF End
    <3>8. Covers(new, entries, i + 1, off, len)
      BY <3>1, <3>3, <3>5, <3>6, <3>7 DEF Covers, to
    <3>9. QED
      BY <2>1, <3>8 DEF new
  <2>9. QED
    BY <2>7, <2>8
<1> HIDE DEF T
<1>8. 0 .. n \subseteq T
  BY <1>1, <1>6, <1>7, UpTo
<1>9. n \in T
  BY <1>1, <1>8
<1>10. QED
  BY <1>2, <1>9 DEF T, n

(***************************************************************************)
(* Reads by blocks.                                                        *)
(***************************************************************************)

\* A cached block has the length of its entry and the header that belongs there; its other
\* units are those of the file or damaged.
GoodBlock(f, o, data) ==
    /\ data \in Seq(Int) /\ Len(data) > 1 /\ data[2] = o + 1
    /\ \A i \in DOMAIN data : data[i] \in {o + i - 1, Damaged}
    /\ \A entry \in Range(Entries[f]) : entry.off = o => Len(data) = entry.len

\* What a read may return as the unit at offset p.
MayRead(f, p, unit) ==
    unit = p \/ (unit = Damaged /\ \A entry \in Range(Entries[f]) : p # entry.off + 1)

\* Damage is only outside the header, and no other block has its header there.
LEMMA BlockUnits ==
    ASSUME NEW f \in Files, Tiles(Entries[f], Len(Layout[f])), NEW e \in Range(Entries[f]),
           NEW data, GoodBlock(f, e.off, data)
    PROVE  Len(data) = e.len /\ \A i \in 1 .. e.len : MayRead(f, e.off + i - 1, data[i])
<1> DEFINE entries == Entries[f]
<1>1. Len(data) = e.len /\ data \in Seq(Int) /\ Len(data) \in Nat
  BY DEF GoodBlock
<1>2. entries \in Seq(Entry)
  BY DEF Tiles
<1>3. PICK b \in 1 .. Len(entries) : e = entries[b]
  BY <1>2 DEF Range
<1>4. \A a \in 1 .. Len(entries) : entries[a].off \in Nat /\ entries[a].len \in Nat
  <2>1. \A a \in 1 .. Len(entries) : entries[a] \in Entry
    BY <1>2
  <2>2. QED
    BY <2>1 DEF Entry
<1>5. ASSUME NEW i \in 1 .. e.len PROVE MayRead(f, e.off + i - 1, data[i])
  <2>1. e.off \in Nat /\ i \in Nat
    BY <1>3, <1>4
  <2>2. data[i] \in {e.off + i - 1, Damaged} /\ data[2] = e.off + 1
    <3>1. i \in DOMAIN data
      BY <1>1
    <3>2. QED
      BY <3>1, Zenon DEF GoodBlock
  <2>3. CASE i = 2
    BY <2>1, <2>2, <2>3 DEF MayRead
  <2>4. CASE i # 2
    <3>1. ASSUME NEW x \in Range(entries), e.off + i - 1 = x.off + 1 PROVE FALSE
      <4>1. PICK a \in 1 .. Len(entries) : x = entries[a]
        BY <1>2 DEF Range
      <4>2. /\ entries[a].off + 1 = entries[b].off + i - 1 /\ i < entries[b].len + 1 /\ i > 0 /\ i # 2
            /\ entries[a].off \in Nat /\ entries[b].off \in Nat
            /\ entries[a].len \in Nat /\ entries[b].len \in Nat /\ i \in Nat
        BY <1>3, <1>4, <2>1, <2>4, <3>1, <4>1
      <4>3. /\ a < b => entries[a].off + entries[a].len <= entries[b].off
            /\ b < a => entries[b].off + entries[b].len <= entries[a].off
            /\ entries[a].len > 1
        BY DEF Tiles
      <4> HIDE DEF entries
      <4>4. QED
        BY <4>2, <4>3
    <3>2. QED
      BY <2>2, <3>1 DEF MayRead
  <2>5. QED
    BY <2>3, <2>4
<1>6. QED
  BY <1>1, <1>5

\* The state of assembleRead, dest and written, after one more block.
CopyBlock(f, off, len, start, s) ==
    LET data == blockCache[f][start]
        copyStart == IF off < start THEN start ELSE off
        copyEnd == IF off + len > start + Len(data) THEN start + Len(data) ELSE off + len
    IN  IF copyStart >= copyEnd THEN s
        ELSE [dest |-> [i \in 1 .. len |->
                           IF off + i - 1 \in copyStart .. copyEnd - 1
                           THEN data[off + i - start] ELSE s.dest[i]],
              written |-> s.written + (copyEnd - copyStart)]

\* A read that is being assembled: the buffer and how much of it is filled.
Buffers(len) == [dest : [1 .. len -> Int], written : Int]

\* The block at an offset is cached, with size units that may be read.
CachedBlock(f, start, size) ==
    LET data == blockCache[f][start] IN
    /\ data \in Seq(Int) /\ Len(data) = size
    /\ \A i \in 1 .. size : MayRead(f, start + i - 1, data[i])

\* What has been written to the buffer may be read.
Assembled(f, off, s) == \A i \in 1 .. s.written : MayRead(f, off + i - 1, s.dest[i])

\* assembleRead stays in the buffer and in the block's data.
LEMMA CopyType ==
    ASSUME NEW f, NEW off \in Nat, NEW len \in Nat, NEW start \in Nat,
           blockCache[f][start] \in Seq(Int), NEW s \in Buffers(len)
    PROVE  CopyBlock(f, off, len, start, s) \in Buffers(len)
<1> DEFINE data == blockCache[f][start]
           copyStart == IF off < start THEN start ELSE off
           copyEnd == IF off + len > start + Len(data) THEN start + Len(data) ELSE off + len
           dest == [i \in 1 .. len |-> IF off + i - 1 \in copyStart .. copyEnd - 1
                                       THEN data[off + i - start] ELSE s.dest[i]]
           t == [dest |-> dest, written |-> s.written + (copyEnd - copyStart)]
<1>1. Len(data) \in Nat /\ \A i \in 1 .. Len(data) : data[i] \in Int
  OBVIOUS
<1>2. CopyBlock(f, off, len, start, s) = IF copyStart >= copyEnd THEN s ELSE t
  BY Zenon DEF CopyBlock
<1>3. s.dest \in [1 .. len -> Int] /\ s.written \in Int
  BY DEF Buffers
<1> HIDE DEF data
<1>4. copyStart \in Int /\ copyEnd \in Int /\ copyStart >= start /\ copyEnd <= start + Len(data)
  BY <1>1
<1> HIDE DEF copyStart, copyEnd
<1>5. ASSUME NEW i \in 1 .. len, off + i - 1 \in copyStart .. copyEnd - 1
      PROVE  off + i - start \in 1 .. Len(data)
  BY <1>1, <1>4, <1>5
<1>6. dest \in [1 .. len -> Int]
  BY <1>1, <1>3, <1>5
<1> HIDE DEF dest
<1>7. t \in Buffers(len)
  BY <1>3, <1>4, <1>6 DEF Buffers
<1>8. QED
  BY <1>2, <1>7

\* A block goes on where the copied part ends, or is the first and begins before the range;
\* end is the end of the block or that of the range.
Continues(off, len, start, size, s, end) ==
    /\ end <= off + len /\ end <= start + size
    /\ end = off + len \/ end = start + size
    /\ s.written \in 0 .. len /\ off + s.written < end
    /\ off + s.written = start \/ (s.written = 0 /\ start <= off)

\* A block that goes on where the copied part ends extends it, to its own end or that of
\* the range.
LEMMA CopyExtends ==
    ASSUME NEW f, NEW off \in Nat, NEW len \in Nat, NEW start \in Nat,
           NEW size \in Nat, CachedBlock(f, start, size),
           NEW s \in Buffers(len), Assembled(f, off, s),
           NEW end \in Nat, Continues(off, len, start, size, s, end)
    PROVE  LET t == CopyBlock(f, off, len, start, s) IN
           off + t.written = end /\ Assembled(f, off, t)
<1> DEFINE data == blockCache[f][start]
           t == CopyBlock(f, off, len, start, s)
           copyStart == IF off < start THEN start ELSE off
           copyEnd == IF off + len > start + Len(data) THEN start + Len(data) ELSE off + len
           dest == [i \in 1 .. len |-> IF off + i - 1 \in copyStart .. copyEnd - 1
                                       THEN data[off + i - start] ELSE s.dest[i]]
<1> USE DEF Continues
<1>1. copyStart = off + s.written
  OBVIOUS
<1>2. copyEnd = end
  BY DEF CachedBlock
<1>3. t = IF copyStart >= copyEnd THEN s
          ELSE [dest |-> dest, written |-> s.written + (copyEnd - copyStart)]
  BY Zenon DEF CopyBlock
<1> HIDE DEF copyStart, copyEnd, t, dest
<1>4. t.dest = dest /\ t.written = end - off
  <2>1. ~(copyStart >= copyEnd) /\ s.written + (copyEnd - copyStart) = end - off
    BY <1>1, <1>2
  <2>2. t = [dest |-> dest, written |-> s.written + (copyEnd - copyStart)]
    BY <1>3, <2>1
  <2>3. QED
    BY <2>1, <2>2
<1>5. ASSUME NEW i \in 1 .. t.written PROVE MayRead(f, off + i - 1, t.dest[i])
  <2>1. i \in 1 .. len
    BY <1>4, <1>5
  <2>2. CASE i \in 1 .. s.written
    <3>1. ~(off + i - 1 \in copyStart .. copyEnd - 1)
      BY <1>1, <1>2, <2>2
    <3>2. t.dest[i] = s.dest[i]
      BY <1>4, <2>1, <3>1 DEF dest
    <3>3. QED
      BY <2>2, <3>2 DEF Assembled
  <2>3. CASE i \notin 1 .. s.written
    <3>1. off + i - 1 \in copyStart .. copyEnd - 1
      BY <1>1, <1>2, <1>4, <1>5, <2>3
    <3>2. t.dest[i] = data[off + i - start]
      BY <1>4, <2>1, <3>1 DEF dest
    <3>3. off + i - start \in 1 .. size /\ start + (off + i - start) - 1 = off + i - 1
      BY <1>4, <1>5, <2>3
    <3>4. QED
      BY <3>2, <3>3 DEF CachedBlock
  <2>4. QED
    BY <2>2, <2>3
<1>6. QED
  BY <1>4, <1>5 DEF t, Assembled

\* AssembleRead is the loop over the blocks found, and returns what was copied.
LEMMA AssembleLoop ==
    ASSUME NEW f \in Files, NEW off \in Nat, NEW len \in Nat,
           NEW blocks \in Seq(Entry), blocks = FindBlocks(Entries[f], off, len),
           \A k \in 1 .. Len(blocks) : blockCache[f][blocks[k].off] \in Seq(Int)
    PROVE  \E read :
              /\ AssembleRead(f, off, len) = SubSeq(read[Len(blocks)].dest, 1, read[Len(blocks)].written)
              /\ read[0] = [dest |-> [i \in 1 .. len |-> Unwritten], written |-> 0]
              /\ \A k \in 1 .. Len(blocks) :
                    read[k] = CopyBlock(f, off, len, blocks[k].off, read[k - 1])
<1> DEFINE n == Len(blocks)
           found == FindBlocks(Entries[f], off, len)
           S == Buffers(len)
           start == [dest |-> [i \in 1 .. len |-> Unwritten], written |-> 0]
           Round(k, s) == CopyBlock(f, off, len, found[k].off, s)
           round == [k \in 1 .. n |-> [s \in S |-> Round(k, s)]]
           IsRead(g) == g = [k \in 0 .. Len(found) |-> IF k = 0 THEN start ELSE Round(k, g[k - 1])]
           read == CHOOSE g : IsRead(g)
<1>1. AssembleRead(f, off, len) = SubSeq(read[Len(found)].dest, 1, read[Len(found)].written)
  BY Zenon DEF AssembleRead, CopyBlock
<1>2. n \in Nat /\ start \in S /\ found = blocks /\ Len(found) = n
  BY DEF Buffers, Unwritten
<1>3. \A k \in 1 .. n : blocks[k].off \in Nat
  <2>1. \A k \in 1 .. n : blocks[k] \in Entry
    OBVIOUS
  <2>2. QED
    BY <2>1 DEF Entry
<1> HIDE DEF S, start, found, n
<1>4. ASSUME NEW k \in 1 .. n, NEW s \in S PROVE Round(k, s) \in S
  <2>1. blockCache[f][blocks[k].off] \in Seq(Int) /\ blocks[k].off \in Nat
    BY <1>3 DEF n
  <2>2. QED
    BY <1>2, <1>4, <2>1, CopyType DEF S
<1> HIDE DEF Round
<1>5. round \in [1 .. n -> [S -> S]]
  BY <1>4
<1> HIDE DEF round
<1>6. PICK g : Runs(g, n, S, start, round)
  BY <1>2, <1>5, LoopRuns
<1>7. ASSUME NEW k \in 1 .. n PROVE g[k] = Round(k, g[k - 1])
  <2>1. k - 1 \in 0 .. n
    BY <1>2
  <2>2. round[k][g[k - 1]] = Round(k, g[k - 1])
    BY <1>6, <2>1 DEF round, Runs
  <2>3. QED
    BY <1>6, <2>2 DEF Runs
<1>8. IsRead(g)
  BY <1>2, <1>6, <1>7 DEF Runs
<1>9. IsRead(read)
  BY <1>8, Zenon
<1> HIDE DEF read
<1>10. \A k \in 0 .. n : read[k] = IF k = 0 THEN start ELSE Round(k, read[k - 1])
  BY <1>2, <1>9
<1>11. read[0] = start /\ \A k \in 1 .. n : read[k] = Round(k, read[k - 1])
  BY <1>2, <1>10
<1>12. QED
  BY <1>1, <1>2, <1>11 DEF start, Round, n

\* A read by blocks whose blocks are all cached is exact.
LEMMA AssembleExact ==
    ASSUME NEW f \in Files, Tiles(Entries[f], Len(Layout[f])),
           NEW off \in Nat, NEW len \in Nat \ {0},
           \A o \in DOMAIN blockCache[f] : GoodBlock(f, o, blockCache[f][o]),
           FindBlocks(Entries[f], off, len) # <<>>,
           \A k \in DOMAIN FindBlocks(Entries[f], off, len) :
              HasBlock(f, FindBlocks(Entries[f], off, len)[k])
    PROVE  LET data == AssembleRead(f, off, len)
               wanted == Slice(f, off, len)
           IN  /\ Len(data) = Len(wanted)
               /\ \A i \in DOMAIN wanted : MayRead(f, wanted[i], data[i])
<1> DEFINE entries == Entries[f]
           size == Len(Layout[f])
           blocks == FindBlocks(entries, off, len)
           n == Len(blocks)
           last == blocks[n].off + blocks[n].len
<1>1. size \in Nat /\ entries \in Seq(Entry) /\ Tiles(entries, size)
  <2>1. Layout[f] \in Seq(Nat)
    BY RemoteReadAssumption
  <2>2. size \in Nat
    BY <2>1
  <2>3. entries \in Seq(Entry)
    BY DEF Tiles
  <2>4. QED
    BY <2>2, <2>3
<1>2. /\ blocks \in Seq(Entry)
      /\ \A k \in 1 .. n : blocks[k] \in Range(entries) /\ Overlaps(blocks[k], off, len)
  BY <1>1, FoundOverlap
<1>3. Covers(blocks, entries, Len(entries), off, len)
  BY <1>1, FoundCover
<1>4. n \in Nat /\ n > 0 /\ \A k \in 1 .. n : blocks[k] \in Entry
  BY <1>2
<1>5. \A k \in 1 .. n : HasBlock(f, blocks[k])
  BY <1>2
<1> HIDE DEF entries, blocks
<1>6. \A k \in 1 .. n : blocks[k].off \in Nat /\ blocks[k].len \in Nat
  BY <1>4 DEF Entry
<1>7. ASSUME NEW k \in 1 .. n
      PROVE  CachedBlock(f, blocks[k].off, blocks[k].len)
  <2> DEFINE data == blockCache[f][blocks[k].off]
  <2>1. GoodBlock(f, blocks[k].off, data)
    BY <1>5 DEF HasBlock
  <2>2. blocks[k] \in Range(Entries[f])
    BY <1>2 DEF entries
  <2>3. data \in Seq(Int)
    BY <2>1 DEF GoodBlock
  <2> HIDE DEF data
  <2>4. QED
    BY <2>1, <2>2, <2>3, BlockUnits DEF data, CachedBlock
<1>8. /\ \A k \in 1 .. n : off < blocks[k].off + blocks[k].len /\ blocks[k].off < off + len
      /\ \A k \in 1 .. n - 1 : blocks[k + 1].off = blocks[k].off + blocks[k].len
      /\ blocks[1].off <= off
  <2>1. blocks # <<>>
    BY DEF blocks, entries
  <2>2. QED
    BY <1>2, <1>3, <2>1 DEF Covers, Overlaps
<1>9. last \in Nat /\ off < last /\ last <= size /\ (off + len <= last \/ last = size)
  <2>1. n \in 1 .. n /\ blocks # <<>> /\ n # 0
    BY <1>4 DEF blocks, entries
  <2>2. last \in Nat /\ off < last
    BY <1>6, <1>8, <2>1
  <2>3. last = End(blocks, n)
    BY <2>1 DEF End
  <2>4. Range(entries) # {} /\ entries # <<>>
    BY <1>1, <1>2, <2>1 DEF Range
  <2>5. End(entries, Len(entries)) = size
    BY <1>1, <2>4 DEF Tiles, End
  <2> HIDE DEF last, n, size
  <2>6. QED
    BY <1>1, <1>3, <2>1, <2>2, <2>3, <2>5 DEF Covers, n
<1>10. PICK read :
              /\ AssembleRead(f, off, len) = SubSeq(read[n].dest, 1, read[n].written)
              /\ read[0] = [dest |-> [i \in 1 .. len |-> Unwritten], written |-> 0]
              /\ \A k \in 1 .. n :
                    read[k] = CopyBlock(f, off, len, blocks[k].off, read[k - 1])
  <2>1. blocks = FindBlocks(Entries[f], off, len)
    BY DEF blocks, entries
  <2>2. QED
    BY <1>2, <1>7, <2>1, AssembleLoop DEF CachedBlock
<1> HIDE DEF n, size
<1> DEFINE Upto(k) == LET end == blocks[k].off + blocks[k].len IN
                      IF off + len < end THEN off + len ELSE end
           Good(k, s) == /\ s \in Buffers(len)
                         /\ s.written = IF k = 0 THEN 0 ELSE Upto(k) - off
                         /\ Assembled(f, off, s)
           T == {k \in 0 .. n : Good(k, read[k])}
<1>11. 0 \in T
  <2> DEFINE dest == [i \in 1 .. len |-> Unwritten]
  <2>1. dest \in [1 .. len -> Int]
    BY DEF Unwritten
  <2> HIDE DEF dest
  <2>2. read[0] = [dest |-> dest, written |-> 0]
    BY <1>10 DEF dest
  <2>3. Good(0, read[0])
    BY <2>1, <2>2 DEF Buffers, Assembled
  <2>4. QED
    BY <1>4, <2>3
<1>12. ASSUME NEW k \in 0 .. n - 1, k \in T PROVE k + 1 \in T
  <2> DEFINE s == read[k]
             t == read[k + 1]
             start == blocks[k + 1].off
             length == blocks[k + 1].len
             end == Upto(k + 1)
  <2>1. k + 1 \in 1 .. n /\ k + 1 \in 0 .. n /\ (k + 1) - 1 = k /\ k \in Nat
    BY <1>4
  <2>2. t = CopyBlock(f, off, len, start, s)
    BY <1>10, <2>1
  <2>3. start \in Nat /\ length \in Nat /\ off < start + length /\ start < off + len
    BY <1>6, <1>8, <2>1
  <2>4. CachedBlock(f, start, length)
    BY <1>7, <2>1
  <2>5. Good(k, s)
    BY <1>12
  <2>6. /\ end \in Nat /\ end <= off + len /\ end <= start + length
        /\ end = off + len \/ end = start + length
    BY <2>3
  <2>7. /\ s.written \in 0 .. len /\ off + s.written < end
        /\ off + s.written = start \/ (s.written = 0 /\ start <= off)
    <3>1. CASE k = 0
      BY <1>8, <2>3, <2>5, <3>1
    <3>2. CASE k # 0
      <4>1. k \in 1 .. n - 1 /\ k \in 1 .. n
        BY <1>4, <2>1, <3>2
      <4>2. /\ start = blocks[k].off + blocks[k].len /\ off < start
            /\ blocks[k].off + blocks[k].len \in Nat
        BY <1>6, <1>8, <4>1
      <4>3. length > 0
        <5>1. blocks[k + 1] \in Range(entries)
          BY <1>2, <2>1 DEF n
        <5>2. PICK b \in 1 .. Len(entries) : blocks[k + 1] = entries[b]
          <6>1. entries \in Seq(Entry)
            BY <1>1, Zenon DEF Tiles
          <6>2. QED
            BY <5>1, <6>1 DEF Range
        <5>3. entries[b].len > 1
          BY <1>1 DEF Tiles
        <5>4. QED
          BY <2>3, <5>2, <5>3
      <4>4. Upto(k) = start
        BY <2>3, <4>2
      <4>5. s.written = start - off
        BY <2>5, <3>2, <4>4
      <4> HIDE DEF s
      <4>6. QED
        BY <2>3, <4>2, <4>3, <4>5
    <3>3. QED
      BY <3>1, <3>2
  <2> HIDE DEF s, t, start, length, end
  <2>start. Continues(off, len, start, length, s, end)
    BY <2>6, <2>7 DEF Continues
  <2>8. s \in Buffers(len) /\ Assembled(f, off, s)
    BY <2>5
  <2>9. t \in Buffers(len)
    BY <2>2, <2>3, <2>4, <2>8, CopyType DEF CachedBlock
  <2>10. off + t.written = end /\ Assembled(f, off, t)
    <3>1. len \in Nat
      OBVIOUS
    <3>2. QED
      BY <2>2, <2>3, <2>4, <2>6, <2>8, <2>start, <3>1, CopyExtends
  <2>11. t.written \in Int
    BY <2>9 DEF Buffers
  <2>12. t.written = end - off
    BY <2>6, <2>10, <2>11
  <2>13. Good(k + 1, t)
    BY <2>1, <2>9, <2>10, <2>12 DEF end
  <2>14. QED
    BY <2>1, <2>13 DEF t
<1>13. Good(n, read[n])
  <2> HIDE DEF T
  <2>1. 0 .. n \subseteq T
    BY <1>4, <1>11, <1>12, UpTo
  <2>2. n \in T
    BY <1>4, <2>1
  <2>3. QED
    BY <2>2 DEF T
<1> DEFINE s == read[n]
           wanted == Slice(f, off, len)
           m == IF off >= size THEN 0 ELSE IF off + len <= size THEN len ELSE size - off
<1>14. s.written = m /\ m \in 0 .. len
  <2>1. s.written = Upto(n) - off
    BY <1>4, <1>13
  <2>2. Upto(n) = IF off + len < last THEN off + len ELSE last
    OBVIOUS
  <2> HIDE DEF last, s
  <2>3. QED
    BY <1>1, <1>9, <2>1, <2>2
<1>15. wanted = [i \in 1 .. m |-> off + i - 1]
  BY DEF Slice, size
<1> HIDE DEF m, s, wanted, Good
<1>16. s.dest \in [1 .. len -> Int] /\ \A i \in 1 .. m : MayRead(f, off + i - 1, s.dest[i])
  BY <1>13, <1>14 DEF Good, Buffers, Assembled, s
<1>17. AssembleRead(f, off, len) = SubSeq(s.dest, 1, m)
  BY <1>10, <1>14 DEF s
<1>18. s.dest \in Seq(Int)
  BY <1>16
<1>19. Len(s.dest) = len
  BY <1>16
<1>20. Len(SubSeq(s.dest, 1, m)) = m /\ \A i \in 1 .. m : SubSeq(s.dest, 1, m)[i] = s.dest[i]
  BY <1>14, <1>18, <1>19
<1>21. Len(wanted) = m /\ DOMAIN wanted = 1 .. m /\ \A i \in 1 .. m : wanted[i] = off + i - 1
  BY <1>14, <1>15
<1>22. QED
  BY <1>16, <1>17, <1>20, <1>21 DEF wanted

(***************************************************************************)
(* What is cached.  A read by blocks is exact because every cached block   *)
(* is, and those come from flights for entries of the blockmap.            *)
(***************************************************************************)

\* The blocks a reader still has to get are blocks of its file, and it has one to get
\* when it enters a flight; cached blocks are good.
CacheInv ==
    /\ todo \in [Readers -> Seq(Entry)]
    /\ \A r \in Readers : pc[r] \in {"block", "do", "wait", "fetch"} =>
          \A i \in 1 .. Len(todo[r]) :
             todo[r][i] \in Range(Entries[FileIn(r)]) /\ todo[r][i].len > 1
    /\ \A r \in Readers : pc[r] \in {"do", "wait", "fetch"} => todo[r] # <<>>
    /\ \A f \in Files : \A o \in DOMAIN blockCache[f] : GoodBlock(f, o, blockCache[f][o])

\* Nothing is cached or wanted at the start.
LEMMA CacheInit == Init => CacheInv
<1> SUFFICES ASSUME Init PROVE CacheInv
  OBVIOUS
<1>1. todo = [r \in Readers |-> <<>>] /\ \A r \in Readers : pc[r] = "idle"
  BY DEF Init
<1>2. \A f \in Files : \A o \in DOMAIN blockCache[f] : FALSE
  BY DEF Init
<1>3. <<>> \in Seq(Entry)
  OBVIOUS
<1>4. QED
  BY <1>1, <1>2, <1>3 DEF CacheInv

\* A step that gives no reader blocks to get.
NotWanting ==
    /\ todo' \in [Readers -> Seq(Entry)]
    /\ \A r \in Readers :
          /\ pc'[r] \in {"block", "do", "wait", "fetch"} =>
                /\ pc[r] \in {"block", "do", "wait", "fetch"}
                /\ call'[r] = call[r] /\ todo'[r] = todo[r]
          /\ pc'[r] \in {"do", "wait", "fetch"} => pc[r] \in {"do", "wait", "fetch"}

\* Such a step keeps the invariant if the cached blocks stay good.
LEMMA NotWantingKeeps ==
    ASSUME CacheInv, NotWanting,
           \A f \in Files : \A o \in DOMAIN blockCache'[f] : GoodBlock(f, o, blockCache'[f][o])
    PROVE  CacheInv'
<1>1. ASSUME NEW r \in Readers, pc'[r] \in {"block", "do", "wait", "fetch"}
      PROVE  /\ \A i \in 1 .. Len(todo'[r]) :
                   todo'[r][i] \in Range(Entries[FileIn(r)']) /\ todo'[r][i].len > 1
             /\ pc'[r] # "block" => todo'[r] # <<>>
  <2>1. pc[r] \in {"block", "do", "wait", "fetch"} /\ todo'[r] = todo[r] /\ FileIn(r)' = FileIn(r)
    BY <1>1 DEF NotWanting, FileIn
  <2>2. pc'[r] # "block" => pc[r] \in {"do", "wait", "fetch"}
    BY <1>1 DEF NotWanting
  <2>3. QED
    BY <2>1, <2>2 DEF CacheInv
<1>2. \A r \in Readers : pc'[r] \in {"do", "wait", "fetch"} => todo'[r] # <<>>
  BY <1>1
<1>3. QED
  BY <1>1, <1>2 DEF CacheInv, NotWanting, GoodBlock

\* Only MapLookup, NextBlock and BlockFetched matter to the cache.
LEMMA OthersDoNotCache ==
    ASSUME TypeInv, CacheInv, [Next]_vars,
           ~ \E r \in Readers : MapLookup(r) \/ NextBlock(r) \/ BlockFetched(r)
    PROVE  NotWanting /\ UNCHANGED blockCache
<1> USE DEF NotWanting
<1>types. CallsOK /\ todo \in [Readers -> Seq(Entry)]
  BY DEF TypeInv, CacheInv
<1>return. ASSUME NEW r \in Readers, Return(r) PROVE NotWanting
  <2>1. <<>> \in Seq(Entry)
    OBVIOUS
  <2>2. QED
    BY <1>return, <1>types, <2>1 DEF Return, CallsOK
<1>goto. ASSUME NEW r \in Readers, NEW p, p \notin {"block", "do", "wait", "fetch"}, Goto(r, p),
                UNCHANGED todo, \A q \in Readers \ {r} : call'[q] = call[q]
         PROVE  NotWanting
  BY <1>goto, <1>types DEF Goto, CallsOK
<1>1. ASSUME NEW r \in Readers, NEW h \in Handles, NEW q \in Requests, ReadStart(r, h, q[1], q[2])
      PROVE  NotWanting /\ UNCHANGED blockCache
  BY <1>1, <1>types, <1>goto DEF ReadStart, CallsOK
<1>2. ASSUME NEW r \in Readers, Retry(r) PROVE NotWanting /\ UNCHANGED blockCache
  BY <1>2, <1>types DEF Retry
<1>3. ASSUME NEW r \in Readers, EnterFlight(r) PROVE NotWanting /\ UNCHANGED blockCache
  BY <1>3, <1>types DEF EnterFlight, Goto, CallsOK
<1>4. ASSUME NEW r \in Readers, MapFetched(r) \/ RangeFailed(r) \/ FullFailed(r) \/ Assemble(r)
      PROVE  NotWanting /\ UNCHANGED blockCache
  BY <1>4, <1>types, <1>goto DEF MapFetched, RangeFailed, FullFailed, Assemble
<1>5. ASSUME NEW r \in Readers, RangeFetched(r) PROVE NotWanting /\ UNCHANGED blockCache
  BY <1>5, <1>types, <1>goto DEF RangeFetched, CallsOK
<1>6. ASSUME NEW r \in Readers, BlockFailed(r) \/ FallbackFailed(r) \/ FullFetched(r) \/ Mark(r)
      PROVE  NotWanting /\ UNCHANGED blockCache
  BY <1>6, <1>return DEF BlockFailed, FallbackFailed, FullFetched, Mark
<1>7. ASSUME NEW r \in Readers, Observe(r) \/ Promote(r) PROVE NotWanting /\ UNCHANGED blockCache
  BY <1>7, <1>types, <1>return, <1>goto DEF Observe, Promote
<1>8. CASE Tick \/ UNCHANGED vars
  BY <1>8, <1>types DEF Tick, vars
<1>9. QED
  BY <1>1, <1>2, <1>3, <1>4, <1>5, <1>6, <1>7, <1>8 DEF Next, Step

\* Every step keeps the cached blocks good.
LEMMA CacheNext == TypeInv /\ FlightInv /\ CacheInv /\ [Next]_vars => CacheInv'
<1> SUFFICES ASSUME TypeInv, FlightInv, CacheInv, [Next]_vars PROVE CacheInv'
  OBVIOUS
<1>types. /\ CallsOK /\ DOMAIN blockCache = Files /\ todo \in [Readers -> Seq(Entry)]
          /\ \A f \in Files : \A o \in DOMAIN blockCache[f] : GoodBlock(f, o, blockCache[f][o])
  BY DEF TypeInv, FlightInv, CacheInv
<1>1. ASSUME NEW r \in Readers, MapLookup(r) PROVE CacheInv'
  <2> DEFINE f == FileIn(r)
             blocks == FindBlocks(Entries[f], call[r].off, call[r].len)
  <2>1. f \in Files /\ call[r].off \in Nat /\ call[r].len \in Nat /\ pc[r] = "map"
    BY <1>1, ReadTypes DEF MapLookup
  <2>2. UNCHANGED <<call, blockCache>>
    BY <1>1 DEF MapLookup
  <2>3. CASE /\ todo' = [todo EXCEPT ![r] = blocks] /\ Goto(r, "block")
    <3>1. Entries[f] \in Seq(Entry)
      <4>1. Failed \in Seq(Entry)
        BY DEF Failed, Entry
      <4>2. Tiles(Entries[f], Len(Layout[f])) => Entries[f] \in Seq(Entry)
        BY DEF Tiles
      <4>3. QED
        BY <2>1, <4>1, <4>2, EntriesTile
    <3>2. /\ blocks \in Seq(Entry)
          /\ \A i \in 1 .. Len(blocks) :
                blocks[i] \in Range(Entries[f]) /\ Overlaps(blocks[i], call[r].off, call[r].len)
      BY <2>1, <3>1, FoundOverlap
    <3>3. ASSUME NEW i \in 1 .. Len(blocks) PROVE blocks[i].len > 1
      <4> DEFINE b == blocks[i]
      <4>1. b \in Range(Entries[f]) /\ Overlaps(b, call[r].off, call[r].len)
        BY <3>2
      <4> HIDE DEF b, f
      <4>2. CASE Entries[f] = Failed
        <5>1. b.off = 0 /\ b.len = 0
          BY <4>1, <4>2 DEF Failed, Range
        <5>2. QED
          BY <2>1, <4>1, <5>1 DEF Overlaps
      <4>3. CASE Tiles(Entries[f], Len(Layout[f]))
        <5>1. PICK j \in 1 .. Len(Entries[f]) : b = Entries[f][j]
          BY <3>1, <4>1 DEF Range
        <5>2. b.len > 1
          BY <4>3, <5>1 DEF Tiles
        <5>3. QED
          BY <5>2 DEF b
      <4>4. QED
        BY <2>1, <4>2, <4>3, EntriesTile DEF b
    <3> HIDE DEF blocks, f
    <3>4. /\ todo' \in [Readers -> Seq(Entry)] /\ todo'[r] = blocks /\ pc'[r] = "block"
          /\ \A q \in Readers : q # r => todo'[q] = todo[q] /\ pc'[q] = pc[q]
      BY <1>types, <2>3, <3>2 DEF Goto, CallsOK
    <3>5. ASSUME NEW q \in Readers, pc'[q] \in {"block", "do", "wait", "fetch"}
          PROVE  /\ \A i \in 1 .. Len(todo'[q]) :
                       todo'[q][i] \in Range(Entries[FileIn(q)']) /\ todo'[q][i].len > 1
                 /\ pc'[q] # "block" => todo'[q] # <<>>
      <4>1. FileIn(q)' = FileIn(q)
        BY <2>2 DEF FileIn
      <4>2. CASE q = r
        BY <3>2, <3>3, <3>4, <4>1, <4>2 DEF f
      <4>3. CASE q # r
        BY <3>4, <3>5, <4>1, <4>3 DEF CacheInv
      <4>4. QED
        BY <4>2, <4>3
    <3>6. \A q \in Readers : pc'[q] \in {"do", "wait", "fetch"} => todo'[q] # <<>>
      BY <3>5
    <3>7. QED
      BY <1>types, <2>2, <3>4, <3>5, <3>6 DEF CacheInv, GoodBlock
  <2>4. CASE UNCHANGED todo /\ \E p \in {"range", "mapfetch"} : Goto(r, p)
    <3>1. NotWanting
      BY <1>types, <2>2, <2>4 DEF NotWanting, Goto, CallsOK
    <3>2. QED
      BY <1>types, <2>2, <3>1, NotWantingKeeps
  <2>5. QED
    BY <1>1, <2>3, <2>4 DEF MapLookup
<1>2. ASSUME NEW r \in Readers, NextBlock(r) PROVE CacheInv'
  <2>1. UNCHANGED <<call, blockCache>> /\ pc[r] = "block" /\ todo[r] # <<>> /\ todo[r] \in Seq(Entry)
    BY <1>2, <1>types DEF NextBlock
  <2>2. \A q \in Readers : FileIn(q)' = FileIn(q)
    BY <2>1 DEF FileIn
  <2>3. /\ todo' \in [Readers -> Seq(Entry)] /\ todo'[r] \in {todo[r], Tail(todo[r])}
        /\ pc'[r] = "do" => todo'[r] = todo[r]
        /\ pc'[r] \in {"block", "do"}
        /\ \A q \in Readers : q # r => todo'[q] = todo[q] /\ pc'[q] = pc[q]
    <3>1. Tail(todo[r]) \in Seq(Entry)
      BY <2>1
    <3>2. QED
      BY <1>2, <1>types, <2>1, <3>1 DEF NextBlock, Goto, CallsOK
  <2>4. ASSUME NEW i \in 1 .. Len(Tail(todo[r]))
        PROVE  Tail(todo[r])[i] = todo[r][i + 1] /\ i + 1 \in 1 .. Len(todo[r])
    BY <2>1
  <2>5. ASSUME NEW q \in Readers, pc'[q] \in {"block", "do", "wait", "fetch"},
               NEW i \in 1 .. Len(todo'[q])
        PROVE  todo'[q][i] \in Range(Entries[FileIn(q)']) /\ todo'[q][i].len > 1
    <3>1. CASE q # r
      BY <2>2, <2>3, <2>5, <3>1 DEF CacheInv
    <3>2. CASE q = r
      <4>1. \A j \in 1 .. Len(todo[r]) : todo[r][j] \in Range(Entries[FileIn(r)]) /\ todo[r][j].len > 1
        BY <2>1 DEF CacheInv
      <4>2. QED
        BY <2>2, <2>3, <2>4, <2>5, <3>2, <4>1
    <3>3. QED
      BY <3>1, <3>2
  <2>6. \A q \in Readers : pc'[q] \in {"do", "wait", "fetch"} => todo'[q] # <<>>
    BY <2>1, <2>3 DEF CacheInv
  <2>7. QED
    BY <1>types, <2>1, <2>3, <2>5, <2>6 DEF CacheInv, GoodBlock
<1>3. ASSUME NEW r \in Readers, BlockFetched(r) PROVE CacheInv'
  <2> DEFINE f == FileIn(r)
             entry == Head(todo[r])
  <2>1. PICK ok \in BOOLEAN : EndFlight(r, ok)
    BY <1>3 DEF BlockFetched
  <2>2. pc[r] = "fetch" /\ f \in Files
    BY <1>3, ReadTypes DEF BlockFetched
  <2>3. NotWanting
    BY <1>types, <2>1, <2>2 DEF EndFlight, NotWanting
  <2>4. entry \in Range(Entries[f]) /\ entry.len > 1 /\ entry.off \in Nat /\ entry.len \in Nat
    <3>1. todo[r] \in Seq(Entry) /\ todo[r] # <<>>
      BY <1>types, <2>2 DEF CacheInv
    <3>2. 1 \in 1 .. Len(todo[r]) /\ entry = todo[r][1] /\ entry \in Entry
      BY <3>1
    <3>3. entry \in Range(Entries[f]) /\ entry.len > 1
      BY <2>2, <3>2 DEF CacheInv
    <3> HIDE DEF entry
    <3>4. QED
      BY <3>2, <3>3 DEF Entry
  <2>5. Tiles(Entries[f], Len(Layout[f]))
    <3> HIDE DEF f, entry
    <3>1. Entries[f] # Failed
      BY <2>4 DEF Failed, Range
    <3>2. QED
      BY <2>2, <3>1, EntriesTile
  <2>6. CASE UNCHANGED blockCache
    BY <1>types, <2>3, <2>6, NotWantingKeeps
  <2>7. ASSUME NEW data \in Delivered(f, entry.off, entry.len), Verified(entry, data),
               blockCache' = [blockCache EXCEPT ![f] = Put(@, entry.off, data)]
        PROVE  CacheInv'
    <3> HIDE DEF f, entry
    <3>1. data \in Seq(Int) /\ \A i \in DOMAIN data : data[i] \in {entry.off + i - 1, Damaged}
      BY <2>2, <2>4, DeliveredUnits
    <3>2. Len(data) = entry.len /\ data[2] = entry.off + 1 /\ Len(data) > 1
      BY <2>4, <2>7, <3>1 DEF Verified
    <3>3. ASSUME NEW x \in Range(Entries[f]), x.off = entry.off PROVE x.len = entry.len
      <4> DEFINE entries == Entries[f]
      <4>1. entries \in Seq(Entry)
        BY <2>5 DEF Tiles
      <4>2. PICK a \in 1 .. Len(entries) : x = entries[a]
        BY <4>1 DEF Range
      <4>3. PICK b \in 1 .. Len(entries) : entry = entries[b]
        BY <2>4, <4>1 DEF Range
      <4>4. /\ a < b => entries[a].off + entries[a].len <= entries[b].off
            /\ b < a => entries[b].off + entries[b].len <= entries[a].off
            /\ entries[a].len > 1 /\ entries[b].len > 1
        BY <2>5 DEF Tiles
      <4>5. entries[a] \in Entry
        BY <4>1
      <4>6. x.off \in Nat /\ x.len \in Nat
        BY <4>2, <4>5 DEF Entry
      <4> HIDE DEF entries
      <4>7. a = b
        BY <2>4, <3>3, <4>2, <4>3, <4>4, <4>6
      <4>8. QED
        BY <4>2, <4>3, <4>7
    <3>4. GoodBlock(f, entry.off, data)
      BY <3>1, <3>2, <3>3 DEF GoodBlock
    <3>5. /\ DOMAIN blockCache'[f] = DOMAIN blockCache[f] \cup {entry.off}
          /\ blockCache'[f][entry.off] = data
          /\ \A o \in DOMAIN blockCache[f] : o # entry.off => blockCache'[f][o] = blockCache[f][o]
          /\ \A g \in Files : g # f => blockCache'[g] = blockCache[g]
      BY <1>types, <2>2, <2>7 DEF Put
    <3>6. \A g \in Files : \A o \in DOMAIN blockCache'[g] : GoodBlock(g, o, blockCache'[g][o])
      BY <1>types, <3>4, <3>5
    <3>7. QED
      BY <2>3, <3>6, NotWantingKeeps
  <2>8. QED
    BY <1>3, <2>6, <2>7 DEF BlockFetched
<1>4. ASSUME ~ \E r \in Readers : MapLookup(r) \/ NextBlock(r) \/ BlockFetched(r) PROVE CacheInv'
  <2>1. NotWanting /\ UNCHANGED blockCache
    BY <1>4, OthersDoNotCache
  <2>2. QED
    BY <1>types, <2>1, NotWantingKeeps
<1>5. QED
  BY <1>1, <1>2, <1>3, <1>4

\* A read by blocks returns exactly the bytes asked for, up to the end of the file, for
\* every file, range and history of flights and failures (readViaBlockmap, assembleRead);
\* only damage behind a block's header, which fetchBlock does not check, comes through.
THEOREM BlockReadsExact == Spec => []BlockReadsAreExact
<1>1. CacheInv => BlockReadsAreExact
  <2> SUFFICES ASSUME CacheInv, NEW f \in Files, NEW off \in Offsets(f),
                      NEW len \in 1 .. Len(Layout[f]) + 1,
                      FindBlocks(Entries[f], off, len) # <<>>,
                      \A k \in DOMAIN FindBlocks(Entries[f], off, len) :
                         HasBlock(f, FindBlocks(Entries[f], off, len)[k])
               PROVE  LET data == AssembleRead(f, off, len)
                          wanted == Slice(f, off, len)
                      IN  /\ Len(data) = Len(wanted)
                          /\ \A i \in DOMAIN wanted : MayRead(f, wanted[i], data[i])
    BY DEF BlockReadsAreExact, MayRead
  <2>1. Layout[f] \in Seq(Nat)
    BY RemoteReadAssumption
  <2>2. off \in Nat /\ len \in Nat \ {0}
    BY <2>1 DEF Offsets
  <2> DEFINE blocks == FindBlocks(Entries[f], off, len)
  <2>3. Entries[f] # Failed
    <3> SUFFICES ASSUME Entries[f] = Failed PROVE FALSE
      OBVIOUS
    <3>1. Entries[f] \in Seq(Entry)
      BY DEF Failed, Entry
    <3>2. /\ blocks \in Seq(Entry)
          /\ \A k \in 1 .. Len(blocks) : blocks[k] \in Range(Entries[f]) /\ Overlaps(blocks[k], off, len)
      BY <2>2, <3>1, FoundOverlap
    <3>3. 1 \in 1 .. Len(blocks)
      BY <3>2
    <3> HIDE DEF blocks
    <3>4. blocks[1].off = 0 /\ blocks[1].len = 0
      BY <3>2, <3>3 DEF Failed, Range
    <3>5. QED
      BY <2>2, <3>2, <3>3, <3>4 DEF Overlaps
  <2>4. Tiles(Entries[f], Len(Layout[f]))
    BY <2>3, EntriesTile
  <2>5. \A o \in DOMAIN blockCache[f] : GoodBlock(f, o, blockCache[f][o])
    BY DEF CacheInv
  <2>6. QED
    BY <2>2, <2>4, <2>5, AssembleExact
<1>2. QED
  BY <1>1, TypeInvInit, TypeInvNext, FlightInit, FlightNext, CacheInit, CacheNext, PTL DEF Spec
=============================================================================
