-------------------------------- MODULE Routing --------------------------------
(***************************************************************************)
(* How a path is given to a location: one_server::get_location, used for   *)
(* the rights by every method, one_server::get_path, used for the file by  *)
(* POST and DELETE, and the loop of get_method, used for the file by GET.  *)
(* All take a name that occurs anywhere in the path for a match.           *)
(***************************************************************************)
EXTENDS Text, FiniteSets, FiniteSetsExt

Slash == <<"/">>

\* cmpr: a server's locations are sorted by the length of their names.
Cmpr(l, k) == Len(l.name) < Len(k.name)
Sorted(locs) == \A i, j \in DOMAIN locs : i < j => ~Cmpr(locs[j], locs[i])

\* The text before the first "?".
WithoutQuery(p) == IF Finds(p, <<"?">>) = {} THEN p ELSE Take(p, Min(Finds(p, <<"?">>)) - 1)

Occurs(l, p) == Finds(p, l.name) # {}
Matches(locs, p) == {i \in DOMAIN locs : Occurs(locs[i], p)}

\* Mutant of GetLocation: the locations are gone through from the beginning.
GetLocationForward(locs, p) == Min(Matches(locs, p))

\* The last match, that is, a longest; where there is one.
GetLocation(locs, p) == Max(Matches(locs, p))

\* The loop of get_method: the first match, that is, a shortest.
LoopLocation(locs, p) == Min(Matches(locs, p))

\* Mutant of GetPath: what comes before the name is not cut off.
GetPathKept(locs, p) ==
    LET l == locs[GetLocation(locs, p)]
    IN  l.root \o Slash \o Drop(p, Min(Finds(p, l.name)) - 1)

GetPath(locs, p) ==
    LET l == locs[GetLocation(locs, p)]
    IN  l.root \o Slash \o Drop(p, Min(Finds(p, l.name)) + Len(l.name) - 1)

\* As many characters are cut off as the name has, wherever it is.
LoopPath(locs, p) ==
    LET l == locs[LoopLocation(locs, p)]
    IN  l.root \o Drop(p, Len(l.name))
===============================================================================
