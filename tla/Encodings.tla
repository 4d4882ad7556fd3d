----------------------------- MODULE Encodings ------------------------------
(***************************************************************************)
(* What is written to the database and to hashes, and read back: accounts  *)
(* (types/account.cpp), transactions (types/transaction.cpp), headers and  *)
(* bodies (types/block.cpp, db/util.cpp), logs and receipts.  An item is   *)
(* written, what was written may be damaged, and it is read.               *)
(***************************************************************************)
EXTENDS Rlp

CONSTANTS kNonceLength,
          EmptyHash,    \* a string of kHashLength bytes
          Items,        \* what may be written: records of format and value
          Damaged,      \* those of them that are damaged
          DamageBytes   \* bytes that may take the place of others

VARIABLES item, bytes, damage, result

vars == <<item, bytes, damage, result>>

(* ------------------------------ Accounts ------------------------------ *)

Measured(n) == <<Len(BigEndian(n))>> \o BigEndian(n)

EncodeForStorage(a, omit_code_hash) ==
    LET hashed == a.code_hash # EmptyHash /\ ~omit_code_hash
        bit(condition, value) == IF condition THEN value ELSE 0
    IN <<bit(a.nonce # 0, 1) + bit(a.balance # 0, 2) + bit(a.incarnation # 0, 4) + bit(hashed, 8)>>
         \o (IF a.nonce # 0 THEN Measured(a.nonce) ELSE <<>>)
         \o (IF a.balance # 0 THEN Measured(a.balance) ELSE <<>>)
         \o (IF a.incarnation # 0 THEN Measured(a.incarnation) ELSE <<>>)
         \o (IF hashed THEN <<kHashLength>> \o a.code_hash ELSE <<>>)

EncodingLengthForStorage(a) ==
    LET of(n) == IF n # 0 THEN 1 + Len(BigEndian(n)) ELSE 0 IN
    1 + of(a.nonce) + of(a.balance) + of(a.incarnation)
      + (IF a.code_hash # EmptyHash THEN 1 + kHashLength ELSE 0)

HasField(field_set, bit) == (field_set \div bit) % 2 = 1

FieldRead(acc, name, rest, n) == Then(n, Decoded([acc.value EXCEPT ![name] = n.value], rest))
\* A field of len bytes off the rest; the balance alone may have leading zeros.
FieldOf(acc, name, len, width) ==
    Check(Len(acc.rest) >= 1 + len, "kInputTooShort",
          IF name = "balance" /\ len > width THEN Undefined
          ELSE FieldRead(acc, name, Drop(acc.rest, 1 + len),
                         ReadUint(LET be == SubSeq(acc.rest, 2, 1 + len) IN
                                  IF name = "balance" THEN BigEndian(Number(be)) ELSE be, width)))
ReadField(acc, present, name, width) ==
    Then(acc, IF ~present THEN acc
              ELSE IF acc.rest = <<>> THEN Undefined ELSE FieldOf(acc, name, Head(acc.rest), width))

ReadCodeHash(acc, present) ==
    Then(acc, IF ~present THEN acc
              ELSE IF acc.rest = <<>> THEN Undefined
              ELSE Check(Head(acc.rest) = kHashLength, "kUnexpectedLength",
                         Check(Len(acc.rest) >= 1 + kHashLength, "kInputTooShort",
                               Decoded([acc.value EXCEPT !.code_hash = SubSeq(acc.rest, 2, 1 + kHashLength)],
                                       Drop(acc.rest, 1 + kHashLength)))))

EmptyAccount == [nonce |-> 0, balance |-> 0, incarnation |-> 0, code_hash |-> EmptyHash]

DecodeFieldSet(set, fields) ==
    LET nonce == ReadField(Decoded(EmptyAccount, fields), HasField(set, 1), "nonce", kUint64Bytes)
        balance == ReadField(nonce, HasField(set, 2), "balance", kUint256Bytes)
        incarnation == ReadField(balance, HasField(set, 4), "incarnation", kUint64Bytes)
    IN ReadCodeHash(incarnation, HasField(set, 8))
DecodeAccountFromStorage(encoded) ==
    IF encoded = <<>> THEN Decoded(EmptyAccount, <<>>) ELSE DecodeFieldSet(Head(encoded), Tail(encoded))

\* hashstate: the incarnation alone, skipping the fields before it.
ExtractIncarnation(encoded) ==
    LET set == Head(encoded)
        skip(pos, present) == IF present THEN pos + 1 + encoded[pos] ELSE pos
        pos == skip(skip(2, HasField(set, 1)), HasField(set, 2))
    IN IF HasField(set, 4) THEN ReadUint(SubSeq(encoded, pos + 1, pos + encoded[pos]), kUint64Bytes).value
       ELSE 0

(* ---------------------------- Transactions ---------------------------- *)

AccessListEntry == Struct(<<<<"account", Fixed(kAddressLength)>>, <<"storage_keys", ListOf(Hash)>>>>)

kEip2930TransactionType == 1
Uint256Size == 256 ^ kUint256Bytes

\* ecdsa::y_parity_and_chain_id_to_v and its inverse.
V(txn) ==
    LET odd == IF txn.odd_y_parity THEN 1 ELSE 0 IN
    IF txn.chain_id = None THEN 27 + odd ELSE ((txn.chain_id * 2) + 35 + odd) % Uint256Size
\* Mutant: the offset of EIP-155 is off by one.
SetVOff(txn, v) ==
    IF v \in {27, 28} THEN [odd_y_parity |-> v = 28, chain_id |-> None] @@ txn
    ELSE LET w == (v - 36) % Uint256Size IN
         [odd_y_parity |-> w % 2 = 1, chain_id |-> w \div 2] @@ txn
SetV(txn, v) ==
    IF v \in {27, 28} THEN [odd_y_parity |-> v = 28, chain_id |-> None] @@ txn
    ELSE LET w == (v - 35) % Uint256Size IN
         [odd_y_parity |-> w % 2 = 1, chain_id |-> w \div 2] @@ txn

CommonFields ==
    <<<<"nonce", Uint64>>, <<"gas_price", Uint256>>, <<"gas_limit", Uint64>>,
      <<"to", Optional(kAddressLength)>>, <<"value", Uint256>>, <<"data", Bytes>>>>
SignatureFields == <<<<"r", Uint256>>, <<"s", Uint256>>>>
ChainIdField == <<<<"chain_id", Uint256>>>>
AccessListField == <<<<"access_list", ListOf(AccessListEntry)>>>>
ParityField == <<<<"odd_y_parity", Bool>>>>

\* rlp_header: the length of the payload, added up apart from the encoding.
PayloadLength(txn, for_signing) ==
    LET typed == txn.type # None
        id == IF txn.chain_id = None THEN 0 ELSE txn.chain_id
    IN (IF typed THEN LengthOfUint(id) ELSE 0)
         + FieldLengths(CommonFields, txn)
         + (IF txn.type = kEip2930TransactionType THEN FieldLengths(AccessListField, txn) ELSE 0)
         + (IF ~for_signing
            THEN (IF typed THEN Length(Bool, txn.odd_y_parity) ELSE LengthOfUint(V(txn)))
                   + FieldLengths(SignatureFields, txn)
            ELSE IF ~typed /\ txn.chain_id # None THEN LengthOfUint(txn.chain_id) + 2 ELSE 0)

LengthOfTransaction(txn) ==
    LET rlp_len == WithHeader(PayloadLength(txn, FALSE)) IN
    IF txn.type # None THEN WithHeader(rlp_len + 1) ELSE rlp_len

LegacyEncode(txn, for_signing) ==
    EncodeHeader(TRUE, PayloadLength(txn, for_signing)) \o EncodeFields(CommonFields, txn)
      \o (IF ~for_signing THEN EncodeUint(V(txn)) \o EncodeFields(SignatureFields, txn)
          ELSE IF txn.chain_id # None THEN EncodeUint(txn.chain_id) \o EncodeUint(0) \o EncodeUint(0)
          ELSE <<>>)

Eip2930Encode(txn, for_signing, wrap_into_array) ==
    LET payload == PayloadLength(txn, for_signing) IN
    (IF wrap_into_array THEN EncodeHeader(FALSE, WithHeader(payload) + 1) ELSE <<>>)
      \o <<txn.type>> \o EncodeHeader(TRUE, payload)
      \o EncodeUint(IF txn.chain_id = None THEN 0 ELSE txn.chain_id)
      \o EncodeFields(CommonFields \o AccessListField, txn)
      \o (IF ~for_signing THEN EncodeFields(ParityField \o SignatureFields, txn) ELSE <<>>)

EncodeTransaction(txn, for_signing, wrap) ==
    IF txn.type # None THEN Eip2930Encode(txn, for_signing, wrap) ELSE LegacyEncode(txn, for_signing)

UnsignedTransaction ==
    [type |-> None, odd_y_parity |-> FALSE, chain_id |-> None, r |-> 0, s |-> 0, access_list |-> <<>>]

LegacyOf(x) ==
    Then(x, Decoded(SetV([f \in DOMAIN x.value \ {"v"} |-> x.value[f]] @@ UnsignedTransaction, x.value.v),
                    x.rest))
LegacyDecode(from) ==
    LegacyOf(DecodeFields(CommonFields \o <<<<"v", Uint256>>>> \o SignatureFields, from))

\* The length of the list is not compared with what its fields take.
Eip2930Of(h) ==
    OfKind(h, TRUE,
           DecodeFields(ChainIdField \o CommonFields \o AccessListField \o ParityField \o SignatureFields,
                        h.rest))
TypedOf(x, rest) ==
    Then(x, Check(x.rest = <<>>, "kListLengthMismatch",
                  Decoded([type |-> kEip2930TransactionType] @@ x.value, rest)))

TransactionOf(h) ==
    LET length == h.value.payload_length IN
    Then(h, IF h.value.list THEN Exactly(h, LegacyDecode(h.rest))
            ELSE IF length = 0 THEN Refused("kInputTooShort")
            ELSE Check(Head(h.rest) = kEip2930TransactionType, "kUnsupportedEip2718Type",
                       TypedOf(Eip2930Of(DecodeHeader(SubSeq(h.rest, 2, length))), Drop(h.rest, length))))
DecodeTransaction(from) == TransactionOf(DecodeHeader(from))

(* ------------------------- Headers and bodies ------------------------- *)

SealFields == <<<<"mix_hash", Hash>>, <<"nonce", Fixed(kNonceLength)>>>>
HeaderFields ==
    <<<<"parent_hash", Hash>>, <<"ommers_hash", Hash>>, <<"beneficiary", Fixed(kAddressLength)>>,
      <<"state_root", Hash>>, <<"transactions_root", Hash>>, <<"receipts_root", Hash>>,
      <<"logs_bloom", Bloom>>, <<"difficulty", Uint256>>, <<"number", Uint64>>,
      <<"gas_limit", Uint64>>, <<"gas_used", Uint64>>, <<"timestamp", Uint64>>, <<"extra_data", Bytes>>>>
BlockHeader == Struct(HeaderFields \o SealFields)

\* What the proof of work seals: the header without its last two fields.
EncodeForSealing(header) == Encode(Struct(HeaderFields), header)

BlockBodyForStorage ==
    Struct(<<<<"base_txn_id", Uint64>>, <<"txn_count", Uint64>>, <<"ommers", ListOf(BlockHeader)>>>>)

EncodeTransactions(txns) ==
    EncodeHeader(TRUE, SumOf([i \in DOMAIN txns |-> LengthOfTransaction(txns[i])]))
      \o FlattenSeq([i \in DOMAIN txns |-> EncodeTransaction(txns[i], FALSE, TRUE)])
LengthOfTransactions(txns) == WithHeader(SumOf([i \in DOMAIN txns |-> LengthOfTransaction(txns[i])]))

RECURSIVE TransactionsAfter(_, _)
TransactionsAfter(x, to) ==
    Then(x, IF x.rest = <<>> THEN Decoded(Append(to, x.value), <<>>)
            ELSE TransactionsAfter(DecodeTransaction(x.rest), Append(to, x.value)))
TransactionsOf(p) ==
    Then(p, FollowedBy(IF p.value = <<>> THEN Decoded(<<>>, <<>>)
                       ELSE TransactionsAfter(DecodeTransaction(p.value), <<>>), p.rest))

BodyLength(body) == LengthOfTransactions(body.transactions) + Length(ListOf(BlockHeader), body.ommers)

EncodeBlockBody(body) ==
    EncodeHeader(TRUE, BodyLength(body))
      \o EncodeTransactions(body.transactions) \o Encode(ListOf(BlockHeader), body.ommers)

WithOmmers(txns, ommers) ==
    Then(ommers, Decoded([transactions |-> txns.value, ommers |-> ommers.value], ommers.rest))
BodyAfter(txns) == Then(txns, WithOmmers(txns, DecodeVector(BlockHeader, txns.rest)))
BodyOf(h) == OfKind(h, TRUE, Exactly(h, BodyAfter(TransactionsOf(DecodePayload(h.rest, TRUE)))))
DecodeBlockBody(from) == BodyOf(DecodeHeader(from))

(* --------------------------- Logs, receipts --------------------------- *)

Log == Struct(<<<<"address", Fixed(kAddressLength)>>, <<"topics", ListOf(Hash)>>, <<"data", Bytes>>>>)
Receipt ==
    Struct(<<<<"success", Bool>>, <<"cumulative_gas_used", Uint64>>, <<"bloom", Bloom>>,
             <<"logs", ListOf(Log)>>>>)
EncodeReceipt(r) == (IF r.type = None THEN <<>> ELSE <<r.type>>) \o Encode(Receipt, r)
AccountRlp ==
    Struct(<<<<"nonce", Uint64>>, <<"balance", Uint256>>, <<"storage_root", Hash>>, <<"code_hash", Hash>>>>)

(* -------------------------- Write and read ---------------------------- *)

\* The types that are lists of fields, by format.
Structs ==
    [header |-> BlockHeader, stored_body |-> BlockBodyForStorage, log |-> Log, account_rlp |-> AccountRlp]

Written(format, value) ==
    CASE format = "account" -> EncodeForStorage(value, FALSE)
      [] format = "account_without_code" -> EncodeForStorage(value, TRUE)
      [] format = "transaction" -> EncodeTransaction(value, FALSE, TRUE)
      [] format = "signing" -> EncodeTransaction(value, TRUE, FALSE)
      [] format = "body" -> EncodeBlockBody(value)
      [] format = "sealing" -> EncodeForSealing(value)
      [] format = "receipt" -> EncodeReceipt(value)
      [] OTHER -> Encode(Structs[format], value)

Reading(format, from) ==
    CASE format \in {"account", "account_without_code"} -> DecodeAccountFromStorage(from)
      [] format = "transaction" -> DecodeTransaction(from)
      [] format = "body" -> DecodeBlockBody(from)
      [] OTHER -> Decode(Structs[format], from)

\* What is hashed or sent is never read back by this code.
WriteOnly == {"signing", "sealing", "receipt"}

Init ==
    /\ item \in Items
    /\ bytes = None
    /\ damage = "none"
    /\ result = None

Write ==
    /\ bytes = None
    /\ bytes' = Written(item.format, item.value)
    /\ UNCHANGED <<item, damage, result>>

Damageable == bytes # None /\ damage = "none" /\ result = None /\ item \in Damaged

Overwrite ==
    /\ Damageable
    /\ \E i \in DOMAIN bytes : \E b \in DamageBytes \cup {(bytes[i] + 1) % 256, (bytes[i] - 1) % 256} :
          b # bytes[i] /\ bytes' = [bytes EXCEPT ![i] = b]
    /\ damage' = "overwritten"
    /\ UNCHANGED <<item, result>>

Truncate ==
    /\ Damageable
    /\ \E n \in 0..(Len(bytes) - 1) : bytes' = SubSeq(bytes, 1, n)
    /\ damage' = "truncated"
    /\ UNCHANGED <<item, result>>

Extend ==
    /\ Damageable
    /\ \E b \in DamageBytes : bytes' = Append(bytes, b)
    /\ damage' = "extended"
    /\ UNCHANGED <<item, result>>

Read ==
    /\ bytes # None /\ result = None /\ item.format \notin WriteOnly
    /\ result' = Reading(item.format, bytes)
    /\ UNCHANGED <<item, bytes, damage>>

Next == Write \/ Overwrite \/ Truncate \/ Extend \/ Read

Spec == Init /\ [][Next]_vars

-----------------------------------------------------------------------------
AccountFormats == {"account", "account_without_code"}

\* The length of the list that the first header of a transaction, header or receipt promises is
\* added up apart from what is written after it (rlp_header, length and encode of each type): the
\* header announces exactly the bytes that follow, also for what is only hashed, and the length
\* functions of lists and accounts agree with the bytes written.
LengthsAreExact ==
    (bytes # None /\ damage = "none") =>
        LET skip == IF item.format \in {"receipt", "signing"} /\ item.value.type # None THEN 1 ELSE 0
            h == DecodeHeader(Drop(bytes, skip))
        IN /\ item.format \notin AccountFormats =>
                 h.err = "kOk" /\ Len(h.rest) = h.value.payload_length
           /\ item.format = "account" => Len(bytes) = EncodingLengthForStorage(item.value)
           /\ item.format = "transaction" => Len(bytes) = LengthOfTransaction(item.value)

WhatWasWritten ==
    IF item.format = "account_without_code" THEN [item.value EXCEPT !.code_hash = EmptyHash]
    ELSE item.value

\* What an encoder writes the decoder reads back, to the last byte (accounts written without their
\* code hash come back with the empty one), and hashstate's shortcut to the incarnation agrees.
\* What follows an encoding is left alone, and a string that breaks off is never taken for a value
\* it does not encode.  No bytes at all are an account, the empty one.
RoundTrip ==
    /\ (result # None /\ damage = "none") =>
        /\ result.err = "kOk" /\ result.rest = <<>>
        /\ result.value = WhatWasWritten
        /\ item.format \in AccountFormats => ExtractIncarnation(bytes) = item.value.incarnation
    /\ (result # None /\ damage \in {"truncated", "extended"} /\ result.err = "kOk" /\ bytes # <<>>) =>
        result.value = WhatWasWritten

HasTyped(value) ==
    \/ item.format = "transaction" /\ value.type # None
    \/ item.format = "body" /\ \E i \in DOMAIN value.transactions : value.transactions[i].type # None

\* The decoders accept only what the encoders write: whatever byte is changed, what is accepted is
\* the encoding of the value it is read as, so that no two strings stand for the same block or
\* transaction.  Accounts (leading zeros of the balance, unknown bits of the field set) and
\* transactions of a type (eip2930_decode does not compare the length of its list) are lenient.
AcceptedIsCanonical ==
    (result # None /\ result.err = "kOk" /\ item.format \notin AccountFormats /\ ~HasTyped(result.value)) =>
        Written(item.format, result.value) \o result.rest = bytes
=============================================================================
