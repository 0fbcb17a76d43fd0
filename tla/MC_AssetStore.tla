--------------------------- MODULE MC_AssetStore ---------------------------
(* Small instances of AssetStore. *)
EXTENDS AssetStore, TLC

CONSTANTS u1, u2, h1, h2, h3, a1, a2

SizeOne == [h \in Hashes |-> 1]
TotalOne == [u \in Users |-> 1]
NoTenants == {}

Load(kinds, hashes, areas, lastGroup, requests) ==
  [kinds |-> kinds, hashes |-> hashes, areas |-> areas, lastGroup |-> lastGroup,
   requests |-> requests]

\* Requests that meet on the same rows.
Mixes ==
  {Load({"upload"}, {h1, h2, h3}, {a1}, 0, 3),
   Load({"upload", "delete"}, {h1}, {a1, a2}, 0, 3),
   Load({"upload", "dropGroup"}, {h1}, {a1}, 2, 2),
   Load({"delete", "moveAsset", "dropGroup"}, {h1}, {a1}, 2, 2),
   Load({"createGroup", "moveGroup", "dropGroup"}, {}, {}, 2, 3)}

\* Two users, one file, one area.
Deletions == {Load({"delete"}, {h1}, {a1}, 0, 2)}
=============================================================================
