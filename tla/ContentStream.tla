--------------------------- MODULE ContentStream ---------------------------
(***************************************************************************)
(* The content encoding (internal/crypto/content.go) as values.  A stream  *)
(* is a sequence of units: a header of one unit, then records.  A record   *)
(* of n plaintext units takes n + 1, the last standing for the delimiter   *)
(* and the tag.  A unit is known by the record it belongs to and its place *)
(* there, so two units are equal when their bytes are: each sequence       *)
(* number is sealed once under a content key.  The plaintext is the        *)
(* sequence 1, 2, 3, ...                                                   *)
(***************************************************************************)
EXTENDS Integers, SequencesExt

CONSTANT MaxPlain   \* plaintext units of a full record

ASSUME RecordAssumption == MaxPlain \in Nat \ {0}

RecordSize == MaxPlain + 1
HeaderSize == 1

HeaderUnit  == <<-1, 1>>
ForeignUnit == <<-2, 1>>   \* a damaged unit

(* Variant: a last record that is exactly full is followed by an empty one. *)
EncodedLengthRoundedUp(n) ==
  LET nonFinal == n \div MaxPlain IN
  HeaderSize + nonFinal * RecordSize + (n - nonFinal * MaxPlain) + 1

(* The length an uploader declares before it has encoded anything.         *)
EncodedContentLength(n) ==
  LET nonFinal == IF n > 0 THEN (n + MaxPlain - 1) \div MaxPlain - 1 ELSE 0 IN
  HeaderSize + nonFinal * RecordSize + (n - nonFinal * MaxPlain) + 1

(* A sealed record, whose sequence number is its place among the sealed.   *)
Record == [n : 0 .. MaxPlain, final : BOOLEAN]

RecordUnits(records, k) == [i \in 1 .. records[k].n + 1 |-> <<k - 1, i>>]

(* What the encoder has written: the header goes with the first record.    *)
Units(records) ==
  IF records = <<>> THEN <<>>
  ELSE <<HeaderUnit>> \o FlattenSeq([k \in DOMAIN records |-> RecordUnits(records, k)])

(* Variant: the tag is checked without the place in the stream.            *)
OpensAnywhere(records, slice, seq) ==
  \E k \in DOMAIN records : slice = RecordUnits(records, k)

(* AEAD.Open under the nonce of a sequence number: the record that was     *)
(* sealed with it and no other sequence of units.                          *)
Opens(records, slice, seq) ==
  seq + 1 \in DOMAIN records /\ slice = RecordUnits(records, seq + 1)

(* The record a slice that opens was made from, and its plaintext.         *)
Origin(slice) == slice[1][1] + 1

PlainOf(records, k) == [i \in 1 .. records[k].n |-> (k - 1) * MaxPlain + i]
=============================================================================
