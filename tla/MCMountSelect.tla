---------------------------- MODULE MCMountSelect ----------------------------
(***************************************************************************)
(* Discs for MountSelect: every combination of formats at one place, and   *)
(* multisession discs.  Sector numbers have four bits.                     *)
(***************************************************************************)
EXTENDS MountSelect

Track(s, d) == [start |-> s, data |-> d]
Place(iso, joliet, udf, hfs, hfsplus) ==
  [be \in AllBackends |-> CASE be = "iso9660" -> iso [] be = "joliet" -> joliet
                            [] be = "udf" -> udf [] be = "hfs" -> hfs
                            [] be = "hfsplus" -> hfsplus]
At0(p) == (0 :> p)

\* One session, one place; its formats are i, j, u, h and x.
OneSession(I, J, U, H, X) ==
  {[toc |-> <<Track(0, TRUE)>>, last |-> 0, total |-> 10, pvd |-> <<>>, audio |-> a, fails |-> {"read"},
    fs |-> At0(Place(i, j, u, h, x))] :
      a \in BOOLEAN, i \in I, j \in J, u \in U, h \in H, x \in X}

\* Discs in order: no broken ISO or Joliet tree, and a Joliet tree comes with an
\* ISO tree.
SoundDiscs ==
  {d \in OneSession({"absent", "good", "rr"}, {"absent", "good"}, {"absent", "bad", "good"},
                    {"absent", "bad", "good"}, {"absent"}) :
     d.fs[0]["joliet"] = "good" => d.fs[0]["iso9660"] # "absent"}

\* HFS+ that its probe finds and that cannot be mounted, alone or beside views
\* that can; and HFS+ alone.
PlusDiscs ==
  OneSession({"absent", "good", "rr"}, {"absent"}, {"absent", "good"}, {"absent"}, {"bad"})
    \cup OneSession({"absent"}, {"absent"}, {"absent"}, {"absent"}, {"good"})

\* Discs whose mounts may fail at any time, as may all that is asked about them.
FlakyDiscs ==
  {[d EXCEPT !.fails = {"cache", "query", "toc"}] :
     d \in OneSession({"absent", "flaky", "rr"}, {"absent", "flaky"}, {"absent", "flaky"},
                      {"absent", "flaky"}, {"absent", "flaky"})}

\* Multisession discs: a table of contents with audio and data tracks, and host
\* images that have only volume descriptors.
Nothing == Place("absent", "absent", "absent", "absent", "absent")
Iso == Place("good", "absent", "absent", "absent", "absent")
Tocs == {<<Track(0, TRUE)>>, <<Track(0, TRUE), Track(4, TRUE)>>,
         <<Track(0, FALSE), Track(4, TRUE)>>,
         <<Track(0, TRUE), Track(4, FALSE), Track(6, TRUE)>>,
         <<Track(0, TRUE), Track(4, TRUE), Track(6, TRUE)>>}
PlacesWith == {[s \in {0, 4, 6} |-> IF s \in S THEN Iso ELSE Nothing] : S \in SUBSET {0, 4, 6}}
SessionDiscs ==
  {[toc |-> t, last |-> l, total |-> 10, pvd |-> <<>>, audio |-> FALSE, fails |-> {"read"}, fs |-> f] :
     t \in Tocs, l \in {0, 4, Null}, f \in PlacesWith}
Images ==
  {[toc |-> <<>>, last |-> Null, total |-> n, pvd |-> p, audio |-> FALSE, fails |-> {"read"}, fs |-> f] :
     n \in {0, 6, 10},
     p \in {<<>>, (0 :> 4), (0 :> 4) @@ (4 :> 2) @@ (6 :> 3), (0 :> 4) @@ (4 :> 6) @@ (6 :> 4)},
     f \in PlacesWith}

\* A second descriptor whose volume size runs over the end of the number range.
WrappingImages ==
  {[toc |-> <<>>, last |-> Null, total |-> 10, pvd |-> (0 :> 4) @@ (4 :> v),
    audio |-> FALSE, fails |-> {}, fs |-> At0(Iso)] : v \in 1..MaxLba}

AllOptions ==
  {o \in Options : o.session = -1}
Default == [backend |-> Null, session |-> -1, noRR |-> FALSE, noJoliet |-> FALSE,
            udf |-> FALSE, hfs |-> FALSE]
WithRR == {o \in AllOptions : ~o.noRR /\ o.backend # "joliet"}
SessionOptions == {[Default EXCEPT !.session = n] : n \in -1..3}
Defaults == {Default}

FourBackends == <<"iso9660", "joliet", "udf", "hfs">>
FiveBackends == Append(FourBackends, "hfsplus")

ChoiceDiscs ==
  SoundDiscs \cup PlusDiscs \cup SessionDiscs \cup Images \cup WrappingImages \cup FlakyDiscs
ChoiceOptions == WithRR \cup SessionOptions
BrokenJolietDiscs == OneSession({"good"}, {"bad"}, {"good"}, {"absent"}, {"absent"})
HybridPlusDiscs == OneSession({"good"}, {"absent"}, {"absent"}, {"absent"}, {"good"})
=============================================================================
