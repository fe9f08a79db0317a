---------------------------- MODULE SlotInterest ----------------------------
(***************************************************************************)
(* Rate::try_pow, which compounds interest by squaring, against interest   *)
(* compounded slot by slot: time passes one slot a step, and the exact     *)
(* power of each base is bounded by a number rounded up at every slot.     *)
(***************************************************************************)
EXTENDS LendingState

CONSTANTS
  Bases,       \* one plus the rate of a slot
  MaxSlots     \* bound on the slots

ASSUME SlotAssumption == Bases \subseteq 0..RateMax /\ MaxSlots \in Nat

VARIABLES
  base,
  slots,
  most     \* at least base^slots

slotVars == <<base, slots, most>>

SlotInit ==
  /\ base \in Bases
  /\ slots = 0 /\ most = One

Up(x) == (x * base + Wad - 1) \div Wad

Slot ==
  /\ slots < MaxSlots /\ Up(most) <= RateMax
  /\ slots' = slots + 1
  /\ most' = Up(most)
  /\ UNCHANGED base

SlotNext == Slot

SlotSpec == SlotInit /\ [][SlotNext]_slotVars

-----------------------------------------------------------------------------
(***************************************************************************)
(* Properties                                                              *)
(***************************************************************************)
Power == TryPow(base, slots)

(***************************************************************************)
(* Squaring truncates at every turn of the loop, but never in favour of    *)
(* the reserve: the power is never above the exact one.                    *)
(***************************************************************************)
NeverOvercharged == Power # Err => Power <= most

(***************************************************************************)
(* And it loses little: relative to the exact power, less than two units   *)
(* of precision for each slot.  It may well lose more than compounding     *)
(* slot by slot with the same truncation would.                            *)
(***************************************************************************)
LosesLittle ==
  base >= One /\ Power # Err => (most - Power) * Wad <= 2 * slots * most

(***************************************************************************)
(* Waiting never lowers a debt: however the truncations of the different   *)
(* sequences of squares fall, one more slot never costs less.              *)
(***************************************************************************)
InterestGrows ==
  base >= One /\ slots > 0 /\ Power # Err => TryPow(base, slots - 1) \in One..Power

(***************************************************************************)
(* It fails only when the square of the power would not fit a Rate.  That  *)
(* is not the power itself: the base is squared once more than needed, and *)
(* the square nobody asked for may overflow.                               *)
(***************************************************************************)
FailsOnlyWhenLarge == base >= One /\ most * most <= RateMax => Power # Err

=============================================================================
