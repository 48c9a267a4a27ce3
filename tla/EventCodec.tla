------------------------------ MODULE EventCodec ------------------------------
(***************************************************************************)
(* The two encodings of an event: CBOR in the log, which every upgrade     *)
(* decodes again, and Candid in the answers of get_events, from which the  *)
(* replay of a deployed minter's log starts.  An event is its type and the *)
(* values of its fields in the order of their CBOR indices.  The tables    *)
(* give the tag of each variant and the codec of each field; a CBOR item   *)
(* is its major type and its content.  Byte strings are a length and an    *)
(* abstract content.                                                       *)
(***************************************************************************)
EXTENDS Naturals, Sequences, SequencesExt

CONSTANTS
  None, Error,    \* model values: an option without value; a failed conversion
  Rent,           \* RENT_EXEMPTION_THRESHOLD
  Amounts,        \* values of a number
  Names           \* contents of signatures, addresses, hashes, accounts, ...

-------------------------------------------------------------------------------
(* The tables. *)

\* Structs whose fields are encoded one by one, in the order of their indices.
InitArgs ==
  <<"principal", "principal", "enum", "u64", "u64", "u64", "u64", "enum", "u64", "strings", "option">>

UpgradeArgs ==
  <<"option", "option", "option", "option", "option", "option", "option", "option">>

WithdrawalRequest == <<"account", "address", "id", "u64", "u64">>

CreditedDeposit == <<"u64", "u64">>

Struct ==
  [InitArgs |-> InitArgs, UpgradeArgs |-> UpgradeArgs,
   WithdrawalRequest |-> WithdrawalRequest, CreditedDeposit |-> CreditedDeposit]

Signer == [Minter |-> [tag |-> 0, fields |-> <<>>], Account |-> [tag |-> 1, fields |-> <<"account">>]]

TransactionPurpose ==
  [SweepDeposit |-> [tag |-> 2, fields |-> <<"ids", "u64">>],
   Withdrawal   |-> [tag |-> 4, fields |-> <<"ids">>]]

EventType ==
  [Init |-> [tag |-> 0, fields |-> <<"InitArgs">>],
   Upgrade |-> [tag |-> 1, fields |-> <<"UpgradeArgs">>],
   AcceptedWithdrawalRequest |-> [tag |-> 2, fields |-> <<"WithdrawalRequest">>],
   SubmittedTransaction |-> [tag |-> 3, fields |-> <<"signature", "message", "signers", "purpose">>],
   SucceededTransaction |-> [tag |-> 5, fields |-> <<"signature">>],
   FailedTransaction |-> [tag |-> 6, fields |-> <<"signature">>],
   ExpiredTransaction |-> [tag |-> 7, fields |-> <<"signature">>],
   QueuedDeposit |-> [tag |-> 8, fields |-> <<"u64", "account", "address", "balance", "option">>],
   CreditedSweep |-> [tag |-> 9, fields |-> <<"signature", "u64", "mints">>],
   QuarantinedSweep |-> [tag |-> 10, fields |-> <<"signature">>],
   MinterPublicKeyFetched |-> [tag |-> 11, fields |-> <<"public_key", "chain_code">>],
   MintedSweptDeposit |-> [tag |-> 12, fields |-> <<"u64", "id">>],
   QuarantinedPendingMint |-> [tag |-> 13, fields |-> <<"u64">>],
   CreatedWithdrawalTransaction |-> [tag |-> 14, fields |-> <<"ids", "address", "hash">>]]

\* The lengths of the byte strings that are checked.
Length == [signature |-> 64, address |-> 32, hash |-> 32, public_key |-> 32, chain_code |-> 32]

-------------------------------------------------------------------------------
(* The events that are tried. *)

Values(codec) ==
  CASE codec \in {"u64", "id"} -> Amounts
    [] codec = "balance" -> {Rent, Rent + 1}
    [] codec = "option" -> {None, 1}
    [] codec = "ids" -> {<<>>, <<1>>, <<1, 2>>}
    [] OTHER -> Names

\* The sequences with one element of each of the sets.
Product(sets) ==
  FoldLeft(LAMBDA rows, S : {Append(row, x) : row \in rows, x \in S}, {<<>>}, sets)

Rows(codecs) == Product([i \in DOMAIN codecs |-> Values(codecs[i])])

Variants(table) ==
  UNION {[type : {t}, fields : Rows(table[t].fields)] : t \in DOMAIN table}

UpToTwo(S) == {<<>>} \cup {<<x>> : x \in S} \cup {<<x, y>> : x, y \in S}

FieldValues(codec) ==
  CASE codec \in DOMAIN Struct -> Rows(Struct[codec])
    [] codec = "mints" -> UpToTwo(Rows(CreditedDeposit))
    [] codec = "signers" -> UpToTwo(Variants(Signer))
    [] codec = "purpose" -> Variants(TransactionPurpose)
    [] OTHER -> Values(codec)

EventsOf(type) ==
  LET codecs == EventType[type].fields
  IN  {[timestamp |-> 1, type |-> type, fields |-> row] :
         row \in Product([i \in DOMAIN codecs |-> FieldValues(codecs[i])])}

-------------------------------------------------------------------------------
(* CBOR. *)

Null == <<"null">>
MapSeq(op(_), s) == [i \in DOMAIN s |-> op(s[i])]
OrError(s) == IF \E i \in DOMAIN s : s[i] = Error THEN Error ELSE s

Encode(codec, v) ==
  CASE codec \in {"u64", "id", "balance"} -> <<"uint", v>>
    [] codec \in DOMAIN Length -> <<"bytes", Length[codec], v>>
    [] codec = "message" -> <<"bytes", "bincode", v>>
    [] codec = "ids" -> <<"array", MapSeq(LAMBDA n : <<"uint", n>>, v)>>
    [] codec = "option" -> IF v = None THEN Null ELSE <<"uint", v>>
    [] OTHER -> <<"other", v>>

Decode(codec, item) ==
  CASE codec \in {"u64", "id"} -> IF item[1] = "uint" THEN item[2] ELSE Error
    [] codec = "balance" -> IF item[1] = "uint" /\ item[2] >= Rent THEN item[2] ELSE Error
    [] codec \in DOMAIN Length ->
         IF item[1] = "bytes" /\ item[2] = Length[codec] THEN item[3] ELSE Error
    [] codec = "message" -> IF item[1] = "bytes" /\ item[2] = "bincode" THEN item[3] ELSE Error
    [] codec = "ids" -> IF item[1] = "array" /\ \A i \in DOMAIN item[2] : item[2][i][1] = "uint"
                          THEN MapSeq(LAMBDA u : u[2], item[2]) ELSE Error
    [] codec = "option" -> IF item = Null THEN None ELSE item[2]
    [] OTHER -> IF item[1] = "other" THEN item[2] ELSE Error

\* Mutant: options without value are left out wherever they are.
WithoutTrailingNulls_Any(items) == SelectSeq(items, LAMBDA item : item # Null)

\* The derived encoders leave out the options without value at the end.
WithoutTrailingNulls(items) ==
  SubSeq(items, 1, Max({0} \cup {i \in DOMAIN items : items[i] # Null}))

EncodeFields(codecs, row) ==
  <<"array", WithoutTrailingNulls([i \in DOMAIN codecs |-> Encode(codecs[i], row[i])])>>

\* ... and the derived decoders fill them in.
DecodeFields(codecs, item) ==
  OrError([i \in DOMAIN codecs |->
    IF i \in DOMAIN item[2] THEN Decode(codecs[i], item[2][i])
    ELSE IF codecs[i] = "option" THEN None ELSE Error])

EncodeVariant(table, v) ==
  <<"array", <<<<"uint", table[v.type].tag>>, EncodeFields(table[v.type].fields, v.fields)>>>>

\* The variant with the tag, and its fields.
DecodeVariant(table, item) ==
  LET types == {t \in DOMAIN table : <<"uint", table[t].tag>> = item[2][1]}
      type == CHOOSE t \in types : TRUE
      fields == DecodeFields(table[type].fields, item[2][2])
  IN  IF types = {} THEN Error ELSE IF fields = Error THEN Error
      ELSE [type |-> type, fields |-> fields]

EncodeField(codec, v) ==
  CASE codec \in DOMAIN Struct -> EncodeFields(Struct[codec], v)
    [] codec = "mints" -> <<"array", MapSeq(LAMBDA r : EncodeFields(CreditedDeposit, r), v)>>
    [] codec = "signers" -> <<"array", MapSeq(LAMBDA s : EncodeVariant(Signer, s), v)>>
    [] codec = "purpose" -> EncodeVariant(TransactionPurpose, v)
    [] OTHER -> Encode(codec, v)

DecodeField(codec, item) ==
  CASE codec \in DOMAIN Struct -> DecodeFields(Struct[codec], item)
    [] codec = "mints" ->
         OrError(MapSeq(LAMBDA r : DecodeFields(CreditedDeposit, r), item[2]))
    [] codec = "signers" -> OrError(MapSeq(LAMBDA s : DecodeVariant(Signer, s), item[2]))
    [] codec = "purpose" -> DecodeVariant(TransactionPurpose, item)
    [] OTHER -> Decode(codec, item)

\* Event::to_bytes.
ToBytes(event) ==
  LET codecs == EventType[event.type].fields
  IN  <<"array", <<<<"uint", event.timestamp>>,
        <<"array", <<<<"uint", EventType[event.type].tag>>,
          <<"array", WithoutTrailingNulls(
             [i \in DOMAIN codecs |-> EncodeField(codecs[i], event.fields[i])])>>>>>>>>>>

\* Event::from_bytes, which panics on an error.
FromBytes(item) ==
  LET payload == item[2][2][2]
      types == {t \in DOMAIN EventType : <<"uint", EventType[t].tag>> = payload[1]}
      type == CHOOSE t \in types : TRUE
      codecs == EventType[type].fields
      fields == OrError([i \in DOMAIN codecs |->
        IF i \in DOMAIN payload[2][2] THEN DecodeField(codecs[i], payload[2][2][i])
        ELSE IF codecs[i] = "option" THEN None ELSE Error])
  IN  IF types = {} THEN Error ELSE IF fields = Error THEN Error
      ELSE [timestamp |-> item[2][1][2], type |-> type, fields |-> fields]

-------------------------------------------------------------------------------
(* Candid. *)

\* Messages and keys become vectors of bytes; ids become numbers, signatures,
\* addresses and hashes the types of the SOL RPC canister.
ToCandid(codec, v) ==
  CASE codec = "message" -> [encoding |-> "bincode", of |-> v]
    [] codec \in {"public_key", "chain_code"} -> [length |-> 32, of |-> v]
    [] OTHER -> v

FromCandid(codec, c) ==
  CASE codec = "message" -> IF c.encoding = "bincode" THEN c.of ELSE Error
    [] codec \in {"public_key", "chain_code"} -> IF c.length = 32 THEN c.of ELSE Error
    [] codec = "balance" -> IF c >= Rent THEN c ELSE Error
    [] OTHER -> c

\* The fields of a Candid event, numbered like those of the event.  The fields of a
\* withdrawal request are not nested.
CandidFields(type) ==
  IF type = "AcceptedWithdrawalRequest" THEN WithdrawalRequest ELSE EventType[type].fields

\* From<Event> for CandidEvent.
CandidEvent(event) ==
  LET row == IF event.type = "AcceptedWithdrawalRequest" THEN event.fields[1] ELSE event.fields
      codecs == CandidFields(event.type)
  IN  [timestamp |-> event.timestamp, type |-> event.type,
       fields |-> [i \in DOMAIN codecs |-> ToCandid(codecs[i], row[i])]]

\* TryFrom<CandidEvent> for Event.
TryFromCandid(c) ==
  LET codecs == CandidFields(c.type)
      row == OrError([i \in DOMAIN codecs |-> FromCandid(codecs[i], c.fields[i])])
  IN  IF row = Error THEN Error
      ELSE [timestamp |-> c.timestamp, type |-> c.type,
            fields |-> IF c.type = "AcceptedWithdrawalRequest" THEN <<row>> ELSE row]

===============================================================================
