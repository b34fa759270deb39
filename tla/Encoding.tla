--------------------------------- MODULE Encoding ---------------------------------
(***************************************************************************)
(* Byte formats: instruction data (program-executor/src/instruction.rs),   *)
(* the message that a transaction's signature covers (Transaction::hash of *)
(* tx-processor/src/transaction.rs), and base58 (bs58_encode of            *)
(* rpc/src/handler.rs).                                                    *)
(*                                                                         *)
(* A byte is a number.  The widths of numbers and keys are constants: the  *)
(* formats do not depend on them.                                          *)
(***************************************************************************)
EXTENDS Naturals, SequencesExt

CONSTANTS
    U64,       \* bytes of a number
    KEY        \* bytes of a public key

ASSUME WidthAssumption == U64 \in Nat \ {0} /\ KEY \in Nat \ {0}

-------------------------------------------------------------------------------
(* Instructions: an index and the widths of what follows *)

\* Transfer, CreateAccount, Assign, NonceInitialize
SystemInstruction == 2 :> <<U64>> @@ 0 :> <<U64, U64, KEY>> @@ 1 :> <<KEY>> @@ 7 :> <<>>

\* InitializeAccount, InitializeMint, Transfer, MintTo, Burn
TokenInstruction == 0 :> <<KEY>> @@ 1 :> <<>> @@ 3 :> <<U64>> @@ 7 :> <<U64>> @@ 8 :> <<U64>>

Width(widths) == FoldLeft(LAMBDA a, b : a + b, 0, widths)

\* [index, fields], every field a sequence of bytes.
to_data(ix) == <<ix.index>> \o FlattenSeq(ix.fields)

Refused == [index |-> 0, fields |-> <<<<>>>>]

\* Mutant of from_data: the fields are read from the index on.
from_data_Offset(format, data) ==
    IF data = <<>> THEN Refused
    ELSE IF data[1] \notin DOMAIN format THEN Refused
    ELSE LET widths == format[data[1]]
             start(i) == Width(SubSeq(widths, 1, i - 1))
         IN  IF Len(data) < 1 + Width(widths) THEN Refused
             ELSE [index |-> data[1],
                   fields |-> [i \in DOMAIN widths |-> SubSeq(data, start(i) + 1, start(i) + widths[i])]]

from_data(format, data) ==
    IF data = <<>> THEN Refused
    ELSE IF data[1] \notin DOMAIN format THEN Refused
    ELSE LET widths == format[data[1]]
             start(i) == 1 + Width(SubSeq(widths, 1, i - 1))
         IN  IF Len(data) < 1 + Width(widths) THEN Refused
             ELSE [index |-> data[1],
                   fields |-> [i \in DOMAIN widths |-> SubSeq(data, start(i) + 1, start(i) + widths[i])]]

-------------------------------------------------------------------------------
(* The message of a transaction *)

\* One byte stands for a u32 length.
Prefixed(s) == <<Len(s)>> \o FlattenSeq(s)

\* Mutant of message: instruction data without its length.
message_NoLength(tx) ==
    tx.header \o Prefixed(tx.account_keys)
        \o FlattenSeq([i \in DOMAIN tx.instructions |->
               LET ix == tx.instructions[i] IN ix.program_id \o Prefixed(ix.accounts) \o FlattenSeq(ix.data)])

\* header: signer, blockhash, fee and compute budget, all of fixed width.  The number of
\* instructions is not written.
message(tx) ==
    tx.header \o Prefixed(tx.account_keys)
        \o FlattenSeq([i \in DOMAIN tx.instructions |->
               LET ix == tx.instructions[i] IN ix.program_id \o Prefixed(ix.accounts) \o Prefixed(ix.data)])

-------------------------------------------------------------------------------
(* base58, least significant digit first inside *)

Carry(n) == IF n = 0 THEN <<>> ELSE IF n < 58 THEN <<n>> ELSE <<n % 58, n \div 58>>

\* The digits after one more byte: every digit times 256, with carry.
AddByte(digits, byte) ==
    LET r == FoldLeft(LAMBDA acc, d :
                          LET c == acc.carry + 256 * d
                          IN  [out |-> Append(acc.out, c % 58), carry |-> c \div 58],
                      [out |-> <<>>, carry |-> byte], digits)
    IN  r.out \o Carry(r.carry)

LeadingZeros(bytes) ==
    Cardinality({i \in DOMAIN bytes : \A j \in 1..i : bytes[j] = 0})

\* Mutant of bs58_encode: leading zeros are dropped.
bs58_encode_NoZeros(bytes) ==
    Reverse(FoldLeft(AddByte, <<>>, SubSeq(bytes, LeadingZeros(bytes) + 1, Len(bytes))))

\* The digits of the text, first to last; 0 is the character 1.
bs58_encode(bytes) ==
    [i \in 1..LeadingZeros(bytes) |-> 0]
        \o Reverse(FoldLeft(AddByte, <<>>, SubSeq(bytes, LeadingZeros(bytes) + 1, Len(bytes))))

-------------------------------------------------------------------------------
(* Properties *)

\* Data that from_data accepts is the data of the instruction it returns and bytes that
\* nobody reads; every prefix that cuts into the instruction is refused.
DecodesExactly(format, data) ==
    LET ix == from_data(format, data)
    IN  ix # Refused =>
            /\ IsPrefix(to_data(ix), data)
            /\ from_data(format, to_data(ix)) = ix
            /\ \A n \in 0..(Len(to_data(ix)) - 1) : from_data(format, SubSeq(data, 1, n)) = Refused

\* The number that a sequence of digits stands for.
Value(digits, base) == FoldLeft(LAMBDA n, d : n * base + d, 0, digits)

\* The text has the value of the bytes and as many leading ones as they have leading
\* zeros, so that different signatures have different keys in the table of statuses.
Base58Exact(bytes) ==
    LET text == bs58_encode(bytes)
    IN  /\ Value(text, 58) = Value(bytes, 256)
        /\ LeadingZeros(text) = LeadingZeros(bytes)
        /\ \A i \in DOMAIN text : text[i] < 58

\* Different transactions have different messages, as Transaction::hash says of its
\* "length-prefixed" encoding: no signature covers two of them.
MessageInjective(txs) == Cardinality({message(tx) : tx \in txs}) = Cardinality(txs)
===============================================================================
