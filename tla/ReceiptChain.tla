---------------------------- MODULE ReceiptChain ----------------------------
(***************************************************************************)
(* The pure part of the watchtower package: how a receipt is sealed with   *)
(* its content hash and how a list of receipts is verified.                *)
(*                                                                         *)
(* canonicalJson and sha256Hex are one injective constructor here: a       *)
(* digest is the digested content under a tag, so equal contents have      *)
(* equal digests and different contents have different ones, and no digest *)
(* is the literal genesis value.                                           *)
(***************************************************************************)
EXTENDS Naturals, Sequences

\* The seed every chain starts from.
Genesis == <<"genesis">>

\* sha256Hex(canonicalJson(content)).
Digest(content) == <<"sha256", content>>

\* A receipt is its body, the fields other than `hash`, and the hash.
HashReceiptWithoutHash(body) == Digest(body)

GenerateReceipt(body) == [body |-> body, hash |-> HashReceiptWithoutHash(body)]

\* The content hash of one receipt is still the hash of what it now holds.
ContentHashHolds(r) == r.hash = HashReceiptWithoutHash(r.body)

\* Receipt i follows receipt i-1; the first one is not compared with anything.
Linked(rs) == \A i \in 2 .. Len(rs) : rs[i].body.prevHash = rs[i - 1].hash

VerifyChain(rs) == Linked(rs) /\ \A i \in 1 .. Len(rs) : ContentHashHolds(rs[i])
=============================================================================
