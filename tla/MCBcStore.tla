----------------------------- MODULE MCBcStore -----------------------------
(* Instances of BcStore for TLC.  Lookup: three hashes, two of them in one *)
(* slot, one payload.  Data: one hash and payloads of two sizes.           *)
EXTENDS BcStore

CONSTANTS h1, h2, h3, b1, b2

MCLookupHash == {h1, h2, h3}
MCLookupBucket == {b1, b2}
MCLookupTableHash == [h \in MCLookupHash |-> IF h = h3 THEN b2 ELSE b1]
MCLookupPayload == {<<1>>}

MCDataHash == {h1}
MCDataBucket == {b1}
MCDataTableHash == [h \in MCDataHash |-> b1]
MCDataPayload == {<<1>>, <<2>>, <<1, 2>>}

MCCell == 0 .. 2
\* A checksum without collisions on sequences of at most two cells.
MCCrc(d) == IF Len(d) = 1 THEN d[1] ELSE 9 * d[1] + 3 * d[2] + 27
=============================================================================
