------------------------------ MODULE CanopenCodec ------------------------------
(***************************************************************************)
(* CANopen as the host reads and writes it: the object dictionary of an    *)
(* EDS file, the PDO layouts derived from it, the service a COB-ID stands  *)
(* for, NMT payloads and the typed values of the SDO browser.              *)
(*                                                                         *)
(* A line of an EDS file is a record: a section header with the key it     *)
(* names (or NoKey), a field with its value, or a comment.  A 32-bit       *)
(* COB-ID parameter is the pair of its invalid bit and its low 11 bits, a  *)
(* PDO mapping parameter the triple of index, subindex and bit length; a   *)
(* default that the program cannot parse is NoDefault.  Values are of 8    *)
(* and 16 bits: the code treats 32 and 64 bits the same way.               *)
(***************************************************************************)
EXTENDS Integers, Sequences, FiniteSetsExt, SequencesExt

NoKey == <<>>
NoDefault == [parsed |-> FALSE]

-----------------------------------------------------------------------------
(* Little-endian integers *)

FromLe(bytes) == MapThenSumSet(LAMBDA k : bytes[k] * 256^(k - 1), DOMAIN bytes)
ToLe(n, width) == [k \in 1..width |-> (n \div 256^(k - 1)) % 256]
AsSignedBits(n, bits) == IF n >= 2^(bits - 1) THEN n - 2^bits ELSE n

Part(data, offset, len) == SubSeq(data, offset + 1, offset + len)

-----------------------------------------------------------------------------
(* EDS files *)

(* A section without a ParameterName yields no entry. *)
Flushed(od, key, fields) ==
  IF key = NoKey \/ "parametername" \notin DOMAIN fields THEN od
  ELSE LET entry == [name |-> fields["parametername"],
                     type |-> IF "datatype" \in DOMAIN fields THEN fields["datatype"] ELSE "unknown",
                     default |-> IF "defaultvalue" \in DOMAIN fields
                                 THEN fields["defaultvalue"] ELSE NoDefault]
       IN  [k \in DOMAIN od \union {key} |-> IF k = key THEN entry ELSE od[k]]

(* Mutant: the fields of a section stay for the next one. *)
ReadLineKeeps(st, line) ==
  CASE line.kind = "section" ->
         [od |-> Flushed(st.od, st.key, st.fields), key |-> line.key, fields |-> st.fields]
    [] line.kind = "field" ->
         [st EXCEPT !.fields = [f \in DOMAIN @ \union {line.field} |->
                                  IF f = line.field THEN line.value ELSE @[f]]]
    [] OTHER -> st

ReadLine(st, line) ==
  CASE line.kind = "section" ->
         [od |-> Flushed(st.od, st.key, st.fields), key |-> line.key, fields |-> <<>>]
    [] line.kind = "field" ->
         [st EXCEPT !.fields = [f \in DOMAIN @ \union {line.field} |->
                                  IF f = line.field THEN line.value ELSE @[f]]]
    [] OTHER -> st

parse_eds(file) ==
  LET end == FoldLeft(ReadLine, [od |-> <<>>, key |-> NoKey, fields |-> <<>>], file)
  IN  Flushed(end.od, end.key, end.fields)

-----------------------------------------------------------------------------
(* Process data objects *)

(* The communication and mapping objects of the eight PDOs, in the order of from_od. *)
TpdoComm == \H1800
TpdoMap == \H1A00
RpdoComm == \H1400
RpdoMap == \H1600

Default(od, key) ==
  IF key \in DOMAIN od /\ od[key].default.parsed THEN od[key].default ELSE NoDefault

(* The PDOs an object dictionary leaves enabled, with their COB-ID. *)
PdoCobId(node, od, kind, num) ==
  LET comm == (IF kind = "tpdo" THEN TpdoComm ELSE RpdoComm) + num
      raw == Default(od, <<comm, 1>>)
  IN  IF raw.parsed THEN raw.cob
      ELSE (IF kind = "tpdo" THEN \H180 ELSE \H200) + node + num * \H100

PdoEnabled(od, kind, num) ==
  LET comm == (IF kind = "tpdo" THEN TpdoComm ELSE RpdoComm) + num
      raw == Default(od, <<comm, 1>>)
  IN  ~(raw.parsed /\ raw.invalid)

(* A mapping entry that is missing or cannot be parsed takes no room. *)
PdoSignals(od, kind, num) ==
  LET map == (IF kind = "tpdo" THEN TpdoMap ELSE RpdoMap) + num
      count == Default(od, <<map, 0>>)
      entries == SelectSeq([sub \in 1..(IF count.parsed THEN count.value ELSE 0) |->
                              Default(od, <<map, sub>>)],
                           LAMBDA e : e.parsed)
      Type(e) == IF <<e.index, e.sub>> \in DOMAIN od THEN od[<<e.index, e.sub>>].type ELSE "unknown"
  IN  [n \in DOMAIN entries |->
         [object |-> <<entries[n].index, entries[n].sub>>,
          bit_offset |-> MapThenSumSet(LAMBDA m : entries[m].bits, 1..n - 1),
          bit_length |-> entries[n].bits,
          type |-> Type(entries[n])]]

Pdos == <<<<"tpdo", 0>>, <<"tpdo", 1>>, <<"tpdo", 2>>, <<"tpdo", 3>>,
          <<"rpdo", 0>>, <<"rpdo", 1>>, <<"rpdo", 2>>, <<"rpdo", 3>>>>

(* COB-ID -> <<pdo number, signals>>: of two PDOs with one COB-ID the last one stays. *)
from_od(node, od) ==
  LET live == {i \in DOMAIN Pdos : /\ PdoEnabled(od, Pdos[i][1], Pdos[i][2])
                                   /\ PdoSignals(od, Pdos[i][1], Pdos[i][2]) # <<>>}
      Cob(i) == PdoCobId(node, od, Pdos[i][1], Pdos[i][2])
  IN  [cob \in {Cob(i) : i \in live} |->
         LET i == Max({j \in live : Cob(j) = cob})
         IN  <<Pdos[i][2] + 1, PdoSignals(od, Pdos[i][1], Pdos[i][2])>>]

(* A value read at the byte the bit offset falls in. *)
extract_bits(data, bit_offset, bit_length, type) ==
  LET first == bit_offset \div 8
      room == Len(data) - first
      width == bit_length \div 8
      word == FromLe(Part(data, first, width))
  IN  IF bit_length = 0 \/ room <= 0 THEN [kind |-> "bytes", value |-> <<>>]
      ELSE IF type = "string" THEN
        [kind |-> "text", value |-> Part(data, first, Min({room, (bit_length + 7) \div 8}))]
      ELSE IF bit_length \in {8, 16} /\ room >= width THEN
        IF \/ type = "I8" /\ width = 1
           \/ type = "I16" /\ width = 2
        THEN [kind |-> "integer", value |-> AsSignedBits(word, bit_length)]
        ELSE [kind |-> "unsigned", value |-> IF type = "bool" /\ width = 1 THEN word % 2 ELSE word]
      ELSE [kind |-> "bytes", value |-> Part(data, first, Min({room, (bit_length + 7) \div 8}))]

decode_pdo(mappings, cob, data) ==
  IF cob \notin DOMAIN mappings THEN <<>>
  ELSE LET signals == mappings[cob][2] IN
       [n \in DOMAIN signals |->
          extract_bits(data, signals[n].bit_offset, signals[n].bit_length, signals[n].type)]

-----------------------------------------------------------------------------
(* Services and NMT *)

classify_frame(cob) ==
  LET node == cob % 128
      Pdo(kind, base) == [kind |-> kind, num |-> (cob - base) \div 256 + 1, node |-> node]
      Of(kind) == [kind |-> kind, node |-> node]
  IN  CASE cob = 0 -> [kind |-> "nmt"]
        [] cob = \H80 -> [kind |-> "sync"]
        [] cob \in \H81..\HFF -> Of("emergency")
        [] cob \in \H180..\H57F -> IF cob % 256 >= 128 THEN Pdo("tpdo", \H180) ELSE Pdo("rpdo", \H200)
        [] cob \in \H580..\H5FF -> Of("sdo_response")
        [] cob \in \H600..\H67F -> Of("sdo_request")
        [] cob \in \H700..\H77F -> Of("heartbeat")
        [] OTHER -> [kind |-> "unknown"]

NmtCode ==
  [start |-> \H01, stop |-> \H02, pre_op |-> \H80, reset_node |-> \H81, reset_comm |-> \H82]

encode_nmt_command(cmd, target) == <<NmtCode[cmd], target>>

decode_nmt_command(data) ==
  IF Len(data) < 2 THEN <<>>
  ELSE <<IF \E c \in DOMAIN NmtCode : NmtCode[c] = data[1]
         THEN CHOOSE c \in DOMAIN NmtCode : NmtCode[c] = data[1] ELSE "unknown",
         data[2]>>

(* Heartbeats: the state byte of a node. *)
HeartbeatState == (0 :> "bootup" @@ 4 :> "stopped" @@ 5 :> "operational" @@ 127 :> "pre_operational")

decode_heartbeat(data) ==
  IF data = <<>> THEN <<>>
  ELSE <<IF data[1] \in DOMAIN HeartbeatState THEN HeartbeatState[data[1]] ELSE "unknown">>

-----------------------------------------------------------------------------
(* Typed SDO values *)

Width == [bool |-> 1, U8 |-> 1, I8 |-> 1, U16 |-> 2, I16 |-> 2]

Refused == [ok |-> FALSE]

(* A number as it was typed: radix 10 or 16 (0x.. or ..h).  Signed types and Booleans *)
(* take decimal digits only.                                                          *)
encode_value_for_type(text, type) ==
  LET bits == 8 * Width[type]
      fits == CASE type = "bool" -> text.radix = 10 /\ text.number \in {0, 1}
                [] type \in {"I8", "I16"} ->
                     text.radix = 10 /\ text.number \in -(2^(bits - 1))..2^(bits - 1) - 1
                [] OTHER -> text.number \in 0..2^bits - 1
  IN  IF fits THEN [ok |-> TRUE, bytes |-> ToLe(text.number, Width[type])] ELSE Refused

interpret_value(raw, type) ==
  LET word == FromLe(Part(raw, 0, Width[type])) IN
  CASE type = "bool" -> IF raw # <<>> /\ raw[1] # 0 THEN 1 ELSE 0
    [] type \in {"U8", "I8"} /\ raw = <<>> -> 0
    [] Len(raw) < Width[type] -> raw
    [] type \in {"I8", "I16"} -> AsSignedBits(word, 8 * Width[type])
    [] OTHER -> word
=============================================================================
