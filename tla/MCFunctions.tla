---------------------------- MODULE MCFunctions -----------------------------
(***************************************************************************)
(* The functions of the program that keep no account of their own, side by *)
(* side: in every behaviour one of them runs and the others are idle.      *)
(***************************************************************************)
EXTENDS SlotInterest, ProductAttributes, AccountCodec, InstructionCodec

\* Rates of every percent up to a half, and a few outside.
MCBases == {0, 50, 99} \cup 100..150 \cup {163, 199, 200, 300, 500}

(***************************************************************************)
(* Lists of up to two attributes, and of three short ones, over two bytes, *)
(* so that values and keys may look like one another, like lengths, and    *)
(* like the key, which has two bytes.                                      *)
(***************************************************************************)
MCKey == <<1, 2>>

Strings(n) == UNION {[1..k -> {1, 2}] : k \in 0..n}

MCProducts ==
  [1..1 -> Strings(3) \X Strings(3)]
    \cup [1..2 -> Strings(2) \X Strings(3)]
    \cup [1..3 -> {<< >>, <<1>>, <<1, 2>>} \X {<< >>, <<1, 2>>}]

-----------------------------------------------------------------------------
\* States in which a function has nothing left to do.
SlotIdle == base = One /\ slots = MaxSlots /\ most = One

ScanIdle == written = << >> /\ attr = [i \in 0..(AttrSize - 1) |-> 0]
              /\ start = AttrSize /\ result = Invalid

AccountIdle == kind = "Pool" /\ bytes = << >> /\ stored = Nothing

InstructionIdle == sent = [tag |-> 3, arguments |-> << >>] /\ data = << >>
                     /\ entered = Failed

MCInit ==
  \/ SlotInit /\ ScanIdle /\ AccountIdle /\ InstructionIdle
  \/ ScanInit /\ SlotIdle /\ AccountIdle /\ InstructionIdle
  \/ AccountInit /\ SlotIdle /\ ScanIdle /\ InstructionIdle
  \/ InstructionInit /\ SlotIdle /\ ScanIdle /\ AccountIdle

MCNext ==
  \/ SlotNext /\ UNCHANGED <<scanVars, accountVars, instructionVars>>
  \/ ScanNext /\ UNCHANGED <<slotVars, accountVars, instructionVars>>
  \/ AccountNext /\ UNCHANGED <<slotVars, scanVars, instructionVars>>
  \/ InstructionNext /\ UNCHANGED <<slotVars, scanVars, accountVars>>

MCVars == <<slotVars, scanVars, accountVars, instructionVars>>

\* The loop over the attributes is run to its end.
MCSpec == MCInit /\ [][MCNext]_MCVars /\ WF_scanVars(ScanNext)

=============================================================================
