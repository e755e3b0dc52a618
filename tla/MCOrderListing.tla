--------------------------- MODULE MCOrderListing ---------------------------
(***************************************************************************)
(* Redis numbers the slots of a table of 2^Bits slots by bit reversal, and *)
(* the keys of the numbered orders are spread over the line of places.     *)
(***************************************************************************)
EXTENDS OrderListing

CONSTANTS Bits, Spread

MCPlaces == 2^Bits

Bit(n, i) == (n \div 2^i) % 2

MCCursorOf ==
    [n \in 0..(MCPlaces - 1) |->
        SumSet({Bit(n, i) * 2^(Bits - 1 - i) : i \in 0..(Bits - 1)})]

PartNumber == [hash |-> 0, items |-> 1, transactions |-> 2]

MCPlaceOf ==
    [k \in Key |-> (Spread * (3 * k.id + PartNumber[k.part])) % MCPlaces]
=============================================================================
