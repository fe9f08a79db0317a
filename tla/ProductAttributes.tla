------------------------- MODULE ProductAttributes --------------------------
(***************************************************************************)
(* get_pyth_product_quote_currency of src/src/processor.rs: the loop that  *)
(* looks for the quote currency in the attributes of a Pyth product.  An   *)
(* attribute is a key and a value, each behind a byte with its length; the *)
(* list fills an array of fixed size, with zeros behind it.  One step is   *)
(* one turn of the loop.  An index beyond the array is a panic, which the  *)
(* runtime turns into a failed instruction, as an error does.              *)
(***************************************************************************)
EXTENDS Integers, Sequences, SequencesExt

CONSTANTS
  AttrSize,     \* PROD_ATTR_SIZE, 464 in the source
  Key,          \* the bytes of "quote_currency"
  MaxValue,     \* the longest currency, 32 in the source
  Products      \* what publishers write: lists of pairs <<key, value>>

Bytes == 0..255

ASSUME AttributesAssumption ==
  /\ AttrSize \in Nat \ {0} /\ MaxValue \in Nat
  /\ Key \in Seq(Bytes) \ {<< >>}
  /\ Products \subseteq Seq(Seq(Bytes) \X Seq(Bytes))

VARIABLES
  written,   \* what was written
  attr,      \* the array, indexed from zero
  start,     \* the local variable of the loop
  result     \* what the function returned

scanVars == <<written, attr, start, result>>

Scanning == [kind |-> "scanning"]
Invalid  == [kind |-> "err"]
Panic    == [kind |-> "panic"]
Found(v) == [kind |-> "ok", value |-> v]

(***************************************************************************)
(* The publisher: the attributes one behind the other, cut off where the   *)
(* array ends.                                                             *)
(***************************************************************************)
Framed(bytes) == <<Len(bytes)>> \o bytes

Published(product) ==
  FlattenSeq([i \in DOMAIN product |-> Framed(product[i][1]) \o Framed(product[i][2])])

ScanInit ==
  /\ written \in Products
  /\ attr = [i \in 0..(AttrSize - 1) |->
               IF i < Len(Published(written)) THEN Published(written)[i + 1] ELSE 0]
  /\ start = 0
  /\ result = Scanning

-----------------------------------------------------------------------------
Slice(from, length) == [i \in 1..length |-> attr[from + i - 1]]

\* A mutation: only the first byte of the key is compared.
KeyStartsAt(from) == Slice(from, 1) = SubSeq(Key, 1, 1)

KeyAt(from) == Slice(from, Len(Key)) = Key

\* The value, in an array of MaxValue bytes.
PaddedWithZeros(value) ==
  [i \in 1..MaxValue |-> IF i <= Len(value) THEN value[i] ELSE 0]

\* What becomes of the value whose length is at `at`.
Currency(at) ==
  IF at >= AttrSize
  THEN Panic
  ELSE LET length == attr[at]
       IN  IF length > MaxValue \/ at + 1 + length > AttrSize
           THEN Invalid
           ELSE Found(PaddedWithZeros(Slice(at + 1, length)))

\* A mutation: the two bytes with the lengths are not skipped.
TurnWithoutLengths ==
  /\ result = Scanning /\ start < AttrSize
  /\ UNCHANGED <<written, attr>>
  /\ LET length == attr[start]
         key    == start + 1
         value  == key + length
     IN  IF length = Len(Key) /\ value <= AttrSize /\ KeyAt(key)
         THEN result' = Currency(value) /\ UNCHANGED start
         ELSE IF value < AttrSize
              THEN start' = start + length + attr[value] /\ UNCHANGED result
              ELSE result' = Panic /\ UNCHANGED start

Turn ==
  /\ result = Scanning /\ start < AttrSize
  /\ UNCHANGED <<written, attr>>
  /\ LET length == attr[start]
         key    == start + 1
         value  == key + length
     IN  \/ /\ length = Len(Key) /\ value > AttrSize
            /\ result' = Invalid
            /\ UNCHANGED start
         \/ /\ length = Len(Key) /\ value <= AttrSize /\ KeyAt(key)
            /\ result' = Currency(value)
            /\ UNCHANGED start
         \/ /\ length = Len(Key) => value <= AttrSize /\ ~KeyAt(key)
            /\ IF value < AttrSize
               THEN start' = value + 1 + attr[value] /\ UNCHANGED result
               ELSE result' = Panic /\ UNCHANGED start

NotFound ==
  /\ result = Scanning /\ start >= AttrSize
  /\ result' = Invalid
  /\ UNCHANGED <<written, attr, start>>

ScanNext == Turn \/ NotFound

\* The function is run to its end.
ScanSpec == ScanInit /\ [][ScanNext]_scanVars /\ WF_scanVars(ScanNext)

-----------------------------------------------------------------------------
(***************************************************************************)
(* Properties                                                              *)
(***************************************************************************)
NamesCurrency(pair) == pair[1] = Key

HasCurrency(product) == \E i \in DOMAIN product : NamesCurrency(product[i])

CurrencyOf(product) == product[SelectInSeq(product, NamesCurrency)][2]

(***************************************************************************)
(* No value is taken for the currency but that of the first attribute with *)
(* the key: not one whose bytes look like the key, nor a piece of one that *)
(* the end of the array cuts off.                                          *)
(***************************************************************************)
NothingElseIsRead ==
  result.kind = "ok" =>
    /\ HasCurrency(written)
    /\ result.value = PaddedWithZeros(CurrencyOf(written))

(***************************************************************************)
(* A product that was written whole, with a currency that is not too long, *)
(* is never refused, wherever in the list the attribute is and wherever    *)
(* the array ends; one without it is never accepted.                       *)
(***************************************************************************)
CurrencyIsRead ==
  result # Scanning /\ Len(Published(written)) <= AttrSize =>
    (result.kind = "ok"
       <=> HasCurrency(written) /\ Len(CurrencyOf(written)) <= MaxValue)

\* The loop ends, whatever the bytes: every turn moves `start` on.
ScanEnds == <>(result # Scanning)

=============================================================================
