--------------------------- MODULE MCHandlerObjects ---------------------------
(***************************************************************************)
(* An instance of HandlerObjects: directories four levels deep under equal *)
(* names, a file at the bottom, a soft link and a CDDA directory with one  *)
(* track.                                                                  *)
(***************************************************************************)
EXTENDS HandlerObjects

MCPlaces == {"root", "a", "ab", "aba", "abaf", "link", "cdda", "track"}
MCParent == [p \in MCPlaces |->
  CASE p \in {"root", "a", "cdda"} -> "root" [] p = "ab" -> "a" [] p \in {"aba", "link"} -> "ab"
    [] p = "abaf" -> "aba" [] p = "track" -> "cdda"]
MCNameOf == [p \in MCPlaces |->
  CASE p \in {"a", "aba"} -> "A" [] p \in {"ab", "track"} -> "B" [] p = "abaf" -> "F"
    [] p = "link" -> "L" [] p = "cdda" -> "CDDA" [] p = "root" -> ""]
MCKindOf == [p \in MCPlaces |->
  CASE p = "link" -> "link" [] p \in {"abaf", "track"} -> "file" [] OTHER -> "dir"]
MCListing == [d \in {p \in MCPlaces : MCKindOf[p] = "dir"} |->
  CASE d = "root" -> <<"a">> [] d = "a" -> <<"ab">> [] d = "ab" -> <<"link", "aba">>
    [] d = "aba" -> <<"abaf">> [] d = "cdda" -> <<"track">>]
MCLba == [p \in MCPlaces |->
  CASE p = "root" -> 1 [] p = "a" -> 2 [] p = "ab" -> 3 [] p = "aba" -> 4
    [] p = "cdda" -> 0 [] OTHER -> 5]

MCPaths == {<<>>, <<":", "A">>, <<"/">>, <<"/", "/">>, <<"A", "/", "B">>,
            <<"B", "/", "A", "/", "F">>, <<"/", "/", "B", "/", "L", "/", "F">>,
            <<"CDDA", "/", "B">>}
MCResolverOf == <<"backend", "search">>
MCCacheStates == {{}, {"root", "a", "ab", "aba"}}

\* The instance is a disc, and its paths are paths, that answers are proved for.
ASSUME PlainInstance == PlainTree /\ PlainPaths
=============================================================================
