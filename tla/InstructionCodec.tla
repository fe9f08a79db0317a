-------------------------- MODULE InstructionCodec --------------------------
(***************************************************************************)
(* PoolingInstruction::unpack of src/src/instruction.rs on the helpers of  *)
(* src/src/unpack_util.rs, and the dispatch of process_instruction: what a *)
(* caller writes, how much of it arrives, and which handler is entered     *)
(* with which arguments.                                                   *)
(***************************************************************************)
EXTENDS ByteStrings

CONSTANTS
  ArgumentValues,  \* the values of arguments
  Tags,            \* the first bytes callers write
  Trailing         \* the numbers of bytes behind an instruction

ASSUME InstructionAssumption ==
  ArgumentValues \subseteq 0..255 /\ Tags \subseteq 0..255 /\ Trailing \subseteq Nat

VARIABLES
  sent,      \* the instruction the caller meant: a tag and arguments
  data,      \* the instruction data
  entered    \* the handler entered, with its arguments

instructionVars == <<sent, data, entered>>

\* The arguments that follow a tag, in the order and the width they are read.
Arguments(tag) ==
  CASE tag = 0 -> << <<"owner", 32>>, <<"quote_currency", 32>> >>
    [] tag = 1 -> << <<"new_owner", 32>> >>
    [] tag = 2 -> << <<"total_mining_speed", 8>>, <<"kink_util_rate", 8>>,
                     <<"use_pyth_oracle", 1>> >>
    [] tag = 4 -> << <<"liquidity_amount", 8>> >>
    [] tag = 5 -> << <<"collateral_amount", 8>> >>
    [] OTHER   -> << >>

Handler(tag) ==
  CASE tag = 0 -> "process_init_pool_manager"
    [] tag = 1 -> "process_set_pool_manager_owner"
    [] tag = 2 -> "process_init_pool"
    [] tag = 3 -> "process_refresh_reserve"
    [] tag = 4 -> "process_deposit_pool_liquidity"
    [] tag = 5 -> "process_redeem_pool_collateral"
    [] tag = 6 -> "process_init_ticket"
    [] tag = 7 -> "process_refresh_ticket"
    [] tag = 8 -> "process_lottery_draw"
    [] OTHER   -> "none"

NotYet == [handler |-> "not yet"]
Failed == [handler |-> "none"]

\* Mutations: bytes that are missing are taken for zeros; any byte but zero
\* is TRUE.
ArrivedOrZero(rest, width) == TRUE
AnyBoolean(value) == TRUE

\* unpack_u8, unpack_u64, unpack_bytes32 and unpack_pubkey.
Arrived(rest, width) == Len(rest) >= width

IsBoolean(value) == value \in {0, 1}

Padded(rest, width) == [i \in 1..width |-> IF i <= Len(rest) THEN rest[i] ELSE Byte(0, i)]

(***************************************************************************)
(* The arguments are read one behind the other; what is behind the last is *)
(* not looked at.                                                          *)
(***************************************************************************)
Argument(tag, rest, i) ==
  Decoded(SliceOf(Padded(rest, Width(Arguments(tag))), Arguments(tag), i))

UnpackInstruction(input) ==
  LET tag    == input[1][1]
      rest   == Tail(input)
      layout == Arguments(tag)
      Left(i) == SubSeq(rest, Offset(layout, i) + 1, Len(rest))
  IN  IF \/ input = << >>
         \/ Handler(tag) = "none"
         \/ \E i \in DOMAIN layout : ~Arrived(Left(i), layout[i][2])
         \/ \E i \in DOMAIN layout :
              layout[i][1] = "use_pyth_oracle" /\ ~IsBoolean(Argument(tag, rest, i))
      THEN Failed
      ELSE [ handler   |-> Handler(tag),
             arguments |-> [i \in DOMAIN layout |-> Argument(tag, rest, i)] ]

-----------------------------------------------------------------------------
(***************************************************************************)
(* The caller, who writes the tag and the arguments, and may leave off the *)
(* end or write more behind it.                                            *)
(***************************************************************************)
Written(tag, arguments) ==
  <<Byte(tag, 1)>>
    \o FlattenSeq([i \in DOMAIN arguments |-> Encoded(arguments[i], Arguments(tag)[i][2])])

InstructionInit ==
  /\ \E tag \in Tags : \E arguments \in [DOMAIN Arguments(tag) -> ArgumentValues] :
       sent = [tag |-> tag, arguments |-> arguments]
  /\ \/ \E n \in 0..Len(Written(sent.tag, sent.arguments)) :
           data = SubSeq(Written(sent.tag, sent.arguments), 1, n)
     \/ \E n \in Trailing, v \in ArgumentValues :
           data = Written(sent.tag, sent.arguments) \o Encoded(v, n)
  /\ entered = NotYet

ProcessInstruction ==
  /\ entered = NotYet
  /\ entered' = UnpackInstruction(data)
  /\ UNCHANGED <<sent, data>>

InstructionNext == ProcessInstruction

InstructionSpec == InstructionInit /\ [][InstructionNext]_instructionVars

-----------------------------------------------------------------------------
(***************************************************************************)
(* Properties                                                              *)
(***************************************************************************)

(***************************************************************************)
(* No handler is entered with anything but what the caller wrote: not with *)
(* an argument of which a part is missing, nor with one that reaches into  *)
(* its neighbour or into what is behind the instruction.                   *)
(***************************************************************************)
NothingMadeUp ==
  entered.handler \notin {"not yet", "none"} =>
    /\ entered.handler = Handler(sent.tag)
    /\ entered.arguments = sent.arguments
    /\ Len(data) >= Len(Written(sent.tag, sent.arguments))

\* Whether a value can stand for the boolean among the arguments.
Sensible ==
  sent.tag = 2 => sent.arguments[3] \in {0, 1}

(***************************************************************************)
(* An instruction that arrives whole is carried out if and only if its tag *)
(* is known and its boolean is one; bytes behind it do not matter.         *)
(***************************************************************************)
WholeOnesAreEntered ==
  entered # NotYet /\ Len(data) >= Len(Written(sent.tag, sent.arguments)) =>
    (entered.handler # "none" <=> sent.tag \in 0..8 /\ Sensible)

=============================================================================
