------------------------------- MODULE XcpCodec -------------------------------
(***************************************************************************)
(* XCP payloads and the A2L file: the commands the master encodes and the  *)
(* observer decodes, multi-byte fields in either byte order, the objects   *)
(* an A2L file declares and the value of a measured object.                *)
(*                                                                         *)
(* A command is a record with its name and the fields it carries.  An A2L  *)
(* file is a sequence of tokens; Addresses gives the number of those that  *)
(* are numbers.                                                            *)
(***************************************************************************)
EXTENDS Integers, Sequences, FiniteSetsExt, SequencesExt

CONSTANT Addresses

-----------------------------------------------------------------------------
(* Byte orders *)

Ordered(order, bytes) == IF order = "little" THEN bytes ELSE Reverse(bytes)

ToBytes(order, n, width) ==
  Ordered(order, [k \in 1..width |-> (n \div 256^(k - 1)) % 256])

(* Mutant: the byte order of the slave is ignored. *)
FromBytesLittle(order, bytes, width) ==
  MapThenSumSet(LAMBDA k : bytes[k] * 256^(k - 1), 1..Min({width, Len(bytes)}))

(* Bytes missing behind the end count as zero. *)
FromBytes(order, bytes, width) ==
  LET padded == [k \in 1..width |-> IF k <= Len(bytes) THEN bytes[k] ELSE 0]
      le == Ordered(order, padded)
  IN  MapThenSumSet(LAMBDA k : le[k] * 256^(k - 1), 1..width)

-----------------------------------------------------------------------------
(* Commands *)

Code ==
  [connect |-> \HFF, disconnect |-> \HFE, get_status |-> \HFD, synch |-> \HFC,
   get_comm_mode_info |-> \HFB, get_id |-> \HFA, set_request |-> \HF9, get_seed |-> \HF8,
   unlock |-> \HF7, set_mta |-> \HF6, upload |-> \HF5, short_upload |-> \HF4,
   build_checksum |-> \HF3, download |-> \HF0, short_download |-> \HED, modify_bits |-> \HEC,
   clear_daq_list |-> \HE3, set_daq_ptr |-> \HE2, write_daq |-> \HE1,
   set_daq_list_mode |-> \HE0, start_stop_daq_list |-> \HDE, start_stop_synch |-> \HDD,
   get_daq_clock |-> \HDC]

(* The commands the master sends. *)
encode_command(c, order) ==
  CASE c.cmd \in {"disconnect", "get_status"} -> <<Code[c.cmd]>>
    [] c.cmd = "connect" -> <<Code[c.cmd], c.mode>>
    [] c.cmd = "get_seed" -> <<Code[c.cmd], c.mode, c.resource>>
    [] c.cmd = "unlock" -> <<Code[c.cmd], c.remaining>> \o c.key
    [] c.cmd = "set_mta" -> <<Code[c.cmd], 0, 0, c.ext>> \o ToBytes(order, c.address, 4)
    [] c.cmd = "upload" -> <<Code[c.cmd], c.n>>
    [] c.cmd = "short_upload" -> <<Code[c.cmd], c.n, 0, c.ext>> \o ToBytes(order, c.address, 4)
    [] c.cmd = "download" -> <<Code[c.cmd], c.n>> \o c.data

(* The fields the observer takes out of a command: offset and width in bytes.  The key of *)
(* UNLOCK and the data of DOWNLOAD are not decoded; other commands have no fields.        *)
Offsets(cmd) ==
  CASE cmd \in {"connect", "set_request", "start_stop_synch"} -> [mode |-> <<1, 1>>]
    [] cmd = "get_id" -> [id_type |-> <<1, 1>>]
    [] cmd = "get_seed" -> [mode |-> <<1, 1>>, resource |-> <<2, 1>>]
    [] cmd = "unlock" -> [remaining |-> <<1, 1>>]
    [] cmd = "set_mta" -> [ext |-> <<3, 1>>, address |-> <<4, 4>>]
    [] cmd \in {"upload", "download"} -> [n |-> <<1, 1>>]
    [] cmd \in {"short_upload", "short_download"} ->
         [n |-> <<1, 1>>, ext |-> <<3, 1>>, address |-> <<4, 4>>]
    [] cmd = "clear_daq_list" -> [daq |-> <<2, 2>>]
    [] cmd = "set_daq_ptr" -> [daq |-> <<2, 2>>, odt |-> <<4, 1>>, odt_entry |-> <<5, 1>>]
    [] cmd = "write_daq" ->
         [bit_offset |-> <<1, 1>>, size |-> <<2, 1>>, ext |-> <<3, 1>>, address |-> <<4, 4>>]
    [] cmd = "set_daq_list_mode" ->
         [mode |-> <<1, 1>>, daq |-> <<2, 2>>, event |-> <<4, 2>>, prescaler |-> <<6, 1>>,
          priority |-> <<7, 1>>]
    [] cmd = "start_stop_daq_list" -> [mode |-> <<1, 1>>, daq |-> <<2, 2>>]
    [] OTHER -> <<>>

(* A payload that ends early is read as if zeros followed. *)
decode_command(data, order) ==
  LET known == {c \in DOMAIN Code : Code[c] = data[1]}
      cmd == IF known = {} THEN "other" ELSE CHOOSE c \in known : TRUE
      at == Offsets(cmd)
  IN  [f \in DOMAIN at \union {"cmd"} |->
         IF f = "cmd" THEN cmd
         ELSE FromBytes(order, SubSeq(data, at[f][1] + 1, Len(data)), at[f][2])]

(* The positive response to CONNECT carries the byte order of its own fields. *)
decode_connect_response(data) ==
  IF data = <<>> \/ Len(data) < 8 THEN <<>>
  ELSE IF data[1] # \HFF THEN <<>>
  ELSE LET order == IF data[3] % 2 = 1 THEN "big" ELSE "little"
           elements == (data[3] \div 2) % 4
       IN  [resource |-> data[2], order |-> order,
            granularity |-> IF elements = 0 THEN 1 ELSE IF elements = 1 THEN 2 ELSE 4,
            max_cto |-> data[4], max_dto |-> FromBytes(order, SubSeq(data, 5, 6), 2),
            protocol |-> data[7], transport |-> data[8]]

-----------------------------------------------------------------------------
(* A2L *)

Unparsed == -1

(* The index of the next "/end keyword", or 0. *)
find_end(tokens, from, keyword) ==
  LET ends == {i \in from..Len(tokens) - 1 : tokens[i] = "/end" /\ tokens[i + 1] = keyword}
  IN  IF ends = {} THEN 0 ELSE Min(ends)

AddressAt(body, n) ==
  IF n <= Len(body) /\ body[n] \in DOMAIN Addresses THEN Addresses[body[n]] ELSE Unparsed

(* The address behind the first ECU_ADDRESS of the block. *)
EcuAddress(body) ==
  LET at == {k \in DOMAIN body : body[k] = "ECU_ADDRESS"} IN
  IF at = {} THEN Unparsed ELSE AddressAt(body, Min(at) + 1)

(* The object of a block whose body follows its keyword; address Unparsed: no object. *)
BlockObject(keyword, body) ==
  IF keyword = "MEASUREMENT"
  THEN [name |-> Head(body), type |-> IF Len(body) >= 3 THEN body[3] ELSE "unknown",
        address |-> EcuAddress(body), characteristic |-> FALSE]
  ELSE [name |-> Head(body), type |-> "unknown",
        address |-> AddressAt(body, 4), characteristic |-> TRUE]

Keywords == {"MEASUREMENT", "CHARACTERISTIC"}

(* The tokens at which the parser takes an object, scanning from the left: a block  *)
(* that yields one is skipped whole, any other token is passed one by one.          *)
Scan(tokens) ==
  LET Block(i) ==
        LET end == find_end(tokens, i + 2, tokens[i + 1]) IN
        IF end <= i + 2 THEN <<>>
        ELSE LET object == BlockObject(tokens[i + 1], SubSeq(tokens, i + 2, end - 1)) IN
             IF object.address = Unparsed THEN <<>> ELSE <<object, end + 2>>
      objects[i \in 1..Len(tokens) + 2] ==
        IF i >= Len(tokens) THEN <<>>
        ELSE IF tokens[i] = "/begin" /\ tokens[i + 1] \in Keywords /\ Block(i) # <<>>
        THEN <<Block(i)[1]>> \o objects[Block(i)[2]]
        ELSE objects[i + 1]
  IN  objects[1]

(* Objects in file order; of two at one address the first is the one found by address. *)
ParseA2l(tokens) ==
  LET objects == Scan(tokens) IN
  [objects |-> objects,
   by_address |-> [a \in {objects[n].address : n \in DOMAIN objects} |->
                     Min({n \in DOMAIN objects : objects[n].address = a})]]

object_at(db, address) == db.objects[db.by_address[address]]

Size == [UBYTE |-> 1, SBYTE |-> 1, UWORD |-> 2, SWORD |-> 2]

decode_value(type, raw, order) ==
  IF type \notin DOMAIN Size THEN [kind |-> "raw", value |-> raw]
  ELSE IF Len(raw) < Size[type] THEN [kind |-> "raw", value |-> raw]
  ELSE LET n == FromBytes(order, SubSeq(raw, 1, Size[type]), Size[type])
           half == 2^(8 * Size[type] - 1)
           signed == type \in {"SBYTE", "SWORD"}
       IN  [kind |-> "number", value |-> IF signed /\ n >= half THEN n - 2 * half ELSE n]

(* Values are decoded only at an address the file declares. *)
decode_at(db, address, raw, order) ==
  IF address \notin DOMAIN db.by_address THEN [kind |-> "none"]
  ELSE decode_value(object_at(db, address).type, raw, order)
=============================================================================
