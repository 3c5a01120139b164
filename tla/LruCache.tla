------------------------------ MODULE LruCache ------------------------------
(***************************************************************************)
(* What the sector cache promises to the filesystem backends               *)
(* (include/odfs/cache.h): a bounded set of sectors, replaced in           *)
(* least-recently-used order, whose reads return the sector that was asked *)
(* for and whose failed reads leave no trace.  A sequential miss may bring *)
(* in the sectors behind it; the one asked for is then the most recent.    *)
(***************************************************************************)
EXTENDS Naturals, SequencesExt

CONSTANTS
  Lbas,       \* sector numbers (an initial segment of the naturals)
  Capacity,   \* sectors the cache can hold
  ReadAhead   \* sectors one miss may bring in

VARIABLES
  order,      \* the cached sectors, most recently used first
  reply       \* the last answer: ok, the sector asked for, the contents got

vars == <<order, reply>>

Cached == ToSet(order)
Keep(s) == SubSeq(s, 1, IF Len(s) > Capacity THEN Capacity ELSE Len(s))
Answers(l) == reply' = [ok |-> TRUE, asked |-> l, got |-> l]

Init == order = <<>> /\ reply = [ok |-> FALSE, asked |-> 0, got |-> 0]

\* A hit makes the sector the most recent one.
Hit(l) ==
  /\ \E k \in DOMAIN order : order[k] = l /\ order' = <<l>> \o RemoveAt(order, k)
  /\ Answers(l)

\* A miss brings in a run of uncached sectors that starts with l.
Miss(l) ==
  /\ \E n \in 1..ReadAhead :
       LET run == [i \in 1..n |-> l + i - 1] IN
       /\ ToSet(run) \subseteq Lbas \ Cached
       /\ order' = Keep(run \o order)
  /\ Answers(l)

\* The medium cannot be read: nothing changes.
Fail(l) ==
  /\ l \notin Cached
  /\ reply' = [ok |-> FALSE, asked |-> l, got |-> 0]
  /\ UNCHANGED order

\* A sector read elsewhere is offered to the cache.
Retain(l) ==
  /\ order' = IF l \in Cached THEN order ELSE Keep(<<l>> \o order)
  /\ UNCHANGED reply

\* Drop everything.
Flush == order' = <<>> /\ UNCHANGED reply

Next == Flush \/ \E l \in Lbas : Hit(l) \/ Miss(l) \/ Fail(l) \/ Retain(l)

Spec == Init /\ [][Next]_vars
=============================================================================
