------------------------------ MODULE NameFix ------------------------------
(***************************************************************************)
(* Directory listings with unique names (core/namefix.c), and what every   *)
(* backend's readdir, lookup and parent search do with a list of entries.  *)
(*                                                                         *)
(* A name is a sequence: the stem and the "~N" suffixes it has, <<"a", 2>> *)
(* for "a~2".  Stems that differ only in case have the same Lower; a stem  *)
(* that fills the name buffer loses its end, Cut, to make room for a       *)
(* suffix.                                                                 *)
(*                                                                         *)
(* An operator that is used nowhere and stands right before another one is *)
(* a faulty variant of it (README.md, "Faulty variants").                  *)
(***************************************************************************)
EXTENDS Integers, Sequences, FiniteSets, SequencesExt, FiniteSetsExt

CONSTANTS
  Stems,        \* the stems of the names on the discs
  Lower,        \* the stem without its case
  Cut,          \* what is left of a stem when a suffix is appended
  MaxOrdinal    \* the last suffix tried (999999)

ASSUME NameFixAssumption ==
  /\ Lower \in [Stems -> Stems] /\ Cut \in [Stems -> Stems]
  /\ MaxOrdinal \in Nat /\ MaxOrdinal >= 2

Least(a, b) == IF a < b THEN a ELSE b
Folded(name) == <<Lower[Head(name)]>> \o Tail(name)
Suffixed(name, k) ==
  IF Cut[Head(name)] # Head(name) THEN <<Cut[Head(name)], k>> ELSE Append(name, k)

\* odfs_namefix_apply: the name to use, in a sequence that is empty when no
\* suffix is free.
Apply(seen, name) ==
  LET free == {k \in 2..MaxOrdinal : Folded(Suffixed(name, k)) \notin seen}
  IN  IF Folded(name) \notin seen THEN <<name>>
      ELSE IF free = {} THEN <<>>
      ELSE <<Suffixed(name, Min(free))>>

\* A walk is the entries a backend finds in a directory, in the order in which
\* it finds them, and how it ended: "ok", or the error that cut it short.
\* Every readdir names all entries again, the ones it then skips included.
Name(acc, entry) ==
  LET Take(name) ==
        IF name = <<>> THEN [acc EXCEPT !.err = "overflow"]
        ELSE [acc EXCEPT !.seen = @ \cup {Folded(name[1])},
                         !.items = Append(@, [entry EXCEPT !.name = name[1]])]
  IN  IF acc.err # "ok" THEN acc ELSE Take(Apply(acc.seen, entry.name))
Named(walk) ==
  LET Ends(all) == [items |-> all.items, err |-> IF all.err = "ok" THEN walk.err ELSE all.err]
  IN  Ends(FoldLeft(Name, [seen |-> {}, items |-> <<>>, err |-> "ok"], walk.items))

\* The callback stops the walk at the first entry it wants: nothing that would
\* have gone wrong behind that entry is noticed.
Answer(walk, wanted) ==
  IF wanted # <<>> THEN [err |-> "ok", node |-> wanted]
  ELSE [err |-> IF walk.err = "ok" THEN "notfound" ELSE walk.err, node |-> <<>>]
\* Faulty: the comparison ends at the suffix.
FirstWithStem(walk, name) ==
  Answer(walk, SelectSeq(walk.items, LAMBDA e : Lower[Head(e.name)] = Lower[Head(name)]))
FirstNamed(walk, name) ==
  Answer(walk, SelectSeq(walk.items, LAMBDA e : Folded(e.name) = Folded(name)))
FirstDir(walk, key) ==
  Answer(walk, SelectSeq(walk.items, LAMBDA e : e.kind = "dir" /\ e.key = key))

\* Faulty: the grandparent is looked for in the directory it is.
AncestorsOneUp(root, p, up, within) ==
  LET At(loc) == IF loc.key = root.key THEN [key |-> root.key, size |-> root.size] ELSE loc
      Failed(err) == [err |-> err, parent |-> <<>>, grand |-> <<>>]
      gp == up[p]
      parent == FirstDir(within[At(gp.loc)], p.key)
      ggp == up[gp.loc]
      grand == FirstDir(within[At(gp.loc)], gp.loc.key)
  IN  IF p.key = root.key THEN [err |-> "ok", parent |-> <<root>>, grand |-> <<root>>]
      ELSE IF gp.err # "ok" THEN Failed(gp.err)
      ELSE IF parent.err # "ok" THEN Failed(parent.err)
      ELSE IF gp.loc.key = root.key
             THEN [err |-> "ok", parent |-> <<parent.node[1]>>, grand |-> <<root>>]
      ELSE IF ggp.err # "ok" THEN Failed(ggp.err)
      ELSE IF grand.err # "ok" THEN Failed(grand.err)
      ELSE [err |-> "ok", parent |-> <<parent.node[1]>>, grand |-> <<grand.node[1]>>]

\* The parent and the grandparent of a directory whose parent is at `p`: up[l]
\* is where the directory at l says its parent is, within[l] the entries of the
\* directory at l.  Only the root has no entry that names it.
Ancestors(root, p, up, within) ==
  LET At(loc) == IF loc.key = root.key THEN [key |-> root.key, size |-> root.size] ELSE loc
      Failed(err) == [err |-> err, parent |-> <<>>, grand |-> <<>>]
      gp == up[p]
      parent == FirstDir(within[At(gp.loc)], p.key)
      ggp == up[gp.loc]
      grand == FirstDir(within[At(ggp.loc)], gp.loc.key)
  IN  IF p.key = root.key THEN [err |-> "ok", parent |-> <<root>>, grand |-> <<root>>]
      ELSE IF gp.err # "ok" THEN Failed(gp.err)
      ELSE IF parent.err # "ok" THEN Failed(parent.err)
      ELSE IF gp.loc.key = root.key
             THEN [err |-> "ok", parent |-> <<parent.node[1]>>, grand |-> <<root>>]
      ELSE IF ggp.err # "ok" THEN Failed(ggp.err)
      ELSE IF grand.err # "ok" THEN Failed(grand.err)
      ELSE [err |-> "ok", parent |-> <<parent.node[1]>>, grand |-> <<grand.node[1]>>]
=============================================================================
