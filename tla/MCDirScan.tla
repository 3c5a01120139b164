------------------------------ MODULE MCDirScan ------------------------------
(***************************************************************************)
(* Instances of DirScan: a root with audio tracks beside it, a small       *)
(* directory and one that exceeds the budget.  The root and the small      *)
(* directory do not fit into the cache together with the empty one.        *)
(***************************************************************************)
EXTENDS DirScan

CONSTANTS root, small, empty, big, x1, x2, x3, x4, lockA, lockB, lockC

MCCount == [d \in {root, small, empty, big} |->
              CASE d = root -> 3 [] d = small -> 2 [] d = empty -> 0 [] d = big -> 5]

\* Keys are unique but in the small directory, where two empty files share an
\* extent and so a key.
MCKey == [d \in Dirs |-> [i \in 1..Count[d] |-> IF d = small THEN 10 ELSE 10 + i]]

\* Two empty files share a key in every directory.
MCSharedKey == [d \in Dirs |-> [i \in 1..Count[d] |-> IF i = 3 THEN 12 ELSE 10 + i]]

MCDirKey == [d \in Dirs |-> 1]
MCDirOf == [l \in {lockA, lockB, lockC} |->
              CASE l = lockA -> root [] l = lockB -> small [] l = lockC -> big]

\* Two ExNext scans fight for the root's lock, one has the small directory for
\* itself, and an ExAll scan lists the big one.
MCLocks == [s \in Scans |->
              CASE s \in {x1, x2} -> lockA [] s = x3 -> lockC [] s = x4 -> lockB]
MCOwnLocks == [s \in Scans |->
                 CASE s = x1 -> lockA [] s = x2 -> lockB [] s = x3 -> lockC]
=============================================================================
