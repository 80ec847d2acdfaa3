-------------------------------- MODULE Lists -------------------------------
(***************************************************************************)
(* Python's list comprehensions, by places: SelectSeq and FlattenSeq say   *)
(* the same recursively; a proof can reason about places.                  *)
(***************************************************************************)
EXTENDS Naturals, FiniteSets

\* [x for x in seq if ...]: the elements at the places kept, in their order.
Keep(seq, kept) ==
    [n \in 1 .. Cardinality(kept) |-> seq[CHOOSE i \in kept : Cardinality({j \in kept : j <= i}) = n]]

\* [x for seq in seqs for x in seq].
PlacesIn(seqs) == UNION {{<<i, j>> : j \in DOMAIN seqs[i]} : i \in DOMAIN seqs}
UpTo(seqs, p) == {q \in PlacesIn(seqs) : q[1] < p[1] \/ (q[1] = p[1] /\ q[2] <= p[2])}
PlaceAt(seqs, n) == CHOOSE p \in PlacesIn(seqs) : Cardinality(UpTo(seqs, p)) = n
Flat(seqs) == [n \in 1 .. Cardinality(PlacesIn(seqs)) |-> seqs[PlaceAt(seqs, n)[1]][PlaceAt(seqs, n)[2]]]
=============================================================================
