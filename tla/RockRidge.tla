----------------------------- MODULE RockRidge -----------------------------
(***************************************************************************)
(* Rock Ridge (backends/rock_ridge/rock_ridge.c): the fields of a          *)
(* directory record's System Use Area, and of the continuation areas they  *)
(* lead to, gathered into one description of the object.                   *)
(*                                                                         *)
(* A field is a record with its signature:                                 *)
(*   NM  `part`, a piece of the name, `more` pieces to come, or `dot`;     *)
(*   PX  the kind of the object;                                           *)
(*   SL  the components `path` of a link;                                  *)
(*   CL  the sector of a directory moved away;   RE  a directory moved to; *)
(*   CE  the sector of a continuation area;      ST  the end;              *)
(*   SP  the mark of the extension.                                        *)
(* d.areas are the continuation areas.  Timestamps and Amiga attributes    *)
(* are left out.  `bad` is the sector that cannot be read, 0 for none.     *)
(***************************************************************************)
EXTENDS NameFix

CONSTANT MaxAreas   \* the depth to which continuation areas are followed (8)

ASSUME RockRidgeAssumption == MaxAreas \in Nat

NoInfo == [name |-> <<>>, named |-> FALSE, mode |-> "none", target |-> <<>>, cl |-> 0, re |-> FALSE]

\* rr_detect, on the "." record of the root.
RrDetect(sua) == \E i \in DOMAIN sua : sua[i].sig = "SP"

\* A piece of the name is written behind the pieces this area knows of.
NamePiece(s, f) ==
  IF f.dot THEN s
  ELSE [s EXCEPT !.info.name = SubSeq(s.info.name, 1, s.pos) \o f.part,
                 !.info.named = s.info.named \/ ~f.more,
                 !.pos = s.pos + Len(f.part)]

\* rr_parse_entries: the fields of an area in their order; a continuation area
\* is gone through where its CE field stands, and one that cannot be read is
\* passed over.
RECURSIVE RrParseEntries(_, _, _, _, _)
RrParseEntries(d, area, info, depth, bad) ==
  LET Field(s, f) ==
        CASE s.ended -> s
          [] ~s.ended /\ f.sig = "NM" -> NamePiece(s, f)
          [] ~s.ended /\ f.sig = "PX" -> [s EXCEPT !.info.mode = f.mode]
          [] ~s.ended /\ f.sig = "SL" -> [s EXCEPT !.info.target = @ \o f.path]
          [] ~s.ended /\ f.sig = "CL" -> [s EXCEPT !.info.cl = f.lba]
          [] ~s.ended /\ f.sig = "RE" -> [s EXCEPT !.info.re = TRUE]
          [] ~s.ended /\ f.sig = "CE" ->
               IF f.lba = bad THEN s
               ELSE [s EXCEPT !.info = RrParseEntries(d, d.areas[f.lba], s.info, depth + 1, bad)]
          [] ~s.ended /\ f.sig = "ST" -> [s EXCEPT !.ended = TRUE]
          [] OTHER -> s
      from == [info |-> info, pos |-> IF info.named THEN Len(info.name) ELSE 0, ended |-> FALSE]
  IN  IF depth > MaxAreas THEN info ELSE FoldLeft(Field, from, area).info

RrParse(d, sua, bad) == RrParseEntries(d, sua, NoInfo, 0, bad)
=============================================================================
