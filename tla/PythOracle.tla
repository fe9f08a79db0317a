----------------------------- MODULE PythOracle -----------------------------
(***************************************************************************)
(* get_pyth_price of src/src/processor.rs: how a Pyth price account is     *)
(* turned into the Decimal a pool stores.  A feed is abstracted to the     *)
(* three fields the function reads.  The clock it is given is not used, so *)
(* the age and the status of the price play no part.                       *)
(***************************************************************************)
EXTENDS FixedPoint

Feed == [ptype : {"Price", "Unknown"}, price : Int, expo : Int]

\* 10u64.checked_pow
PowerOfTen(n) == Checked(10^n, MaxU64)

GetPythPrice(feed) ==
  IF feed.ptype # "Price" \/ feed.price < 0
  THEN Err
  ELSE IF feed.expo >= 0
       THEN IF PowerOfTen(feed.expo) = Err
            THEN Err
            ELSE TryMulInt(Decimal(feed.price), PowerOfTen(feed.expo), DecimalMax)
       ELSE IF PowerOfTen(-feed.expo) = Err
            THEN Err
            ELSE TryDivInt(Decimal(feed.price), PowerOfTen(-feed.expo))

=============================================================================
