------------------------------ MODULE DbcSignals ------------------------------
(***************************************************************************)
(* The DBC database of the host: how several files become one database,    *)
(* how the payload of a frame is decoded into signals and how a physical   *)
(* value is packed back, by the database and by the GUI's own editor.      *)
(*                                                                         *)
(* A payload is a sequence of bytes.  A signal is a record with its start  *)
(* bit, size, byte order, value type, factor and offset; physical values   *)
(* are integers, so the floating-point rounding of the code is the         *)
(* rounding of a quotient.  WordBits is the width of the code's u64 / i64. *)
(***************************************************************************)
EXTENDS Integers, Sequences, FiniteSetsExt, SequencesExt

CONSTANT WordBits

ASSUME WordBitsAssumption == WordBits \in Nat \ {0, 1}

-----------------------------------------------------------------------------
(* Bits and machine integers *)

(* Bit of the payload at position p: byte p / 8, bit p % 8 from the least significant. *)
Bit(data, p) == (data[p \div 8 + 1] \div 2^(p % 8)) % 2

WithBits(data, bits) ==
  [k \in 1..Len(data) |->
     MapThenSumSet(LAMBDA b : LET p == 8 * (k - 1) + b IN
                     (IF p \in DOMAIN bits THEN bits[p] ELSE Bit(data, p)) * 2^b,
                   0..7)]

Clip(x, low, high) == IF x < low THEN low ELSE IF x > high THEN high ELSE x

(* u64 as i64 *)
AsSigned(x) == IF x >= 2^(WordBits - 1) THEN x - 2^WordBits ELSE x

(* f64 as i64 and f64 as u64 saturate. *)
ToSignedWord(x) == Clip(x, -(2^(WordBits - 1)), 2^(WordBits - 1) - 1)
ToUnsignedWord(x) == Clip(x, 0, 2^WordBits - 1)

(* n / d rounded to the nearest integer, ties away from zero (f64::round). *)
Rounded(n, d) ==
  LET Abs(x) == IF x < 0 THEN -x ELSE x
      q == (2 * Abs(n) + Abs(d)) \div (2 * Abs(d))
  IN  IF (n < 0) = (d < 0) THEN q ELSE -q

-----------------------------------------------------------------------------
(* Where the bits of a signal lie *)

(* Positions from the least significant bit on. *)
IntelBits(start, size) == [i \in 0..size - 1 |-> start + i]

(* Positions from the most significant bit on: down to bit 0, then bit 7 of the next byte. *)
(* Mutant: the next byte is entered at its least significant bit. *)
NextBitLow(p) == IF p % 8 = 0 THEN (p \div 8 + 1) * 8 ELSE p - 1

NextBit(p) == IF p % 8 = 0 THEN (p \div 8 + 1) * 8 + 7 ELSE p - 1

MotorolaBits(start, size) ==
  LET pos[i \in 0..size - 1] == IF i = 0 THEN start ELSE NextBit(pos[i - 1])
  IN  pos

(* The walk stops at the first bit behind the payload. *)
Inside(data, walk) ==
  {i \in DOMAIN walk : \A j \in 0..i : walk[j] \div 8 < Len(data)}

extract_intel(data, start, size) ==
  LET walk == IntelBits(start, size) IN
  MapThenSumSet(LAMBDA i : Bit(data, walk[i]) * 2^i, Inside(data, walk))

extract_motorola(data, start, size) ==
  LET walk == MotorolaBits(start, size) IN
  MapThenSumSet(LAMBDA i : Bit(data, walk[i]) * 2^(size - 1 - i), Inside(data, walk))

pack_intel(data, start, size, raw) ==
  LET walk == IntelBits(start, size)
      at(p) == CHOOSE i \in DOMAIN walk : walk[i] = p
  IN  WithBits(data, [p \in {walk[i] : i \in Inside(data, walk)} |-> (raw \div 2^at(p)) % 2])

pack_motorola(data, start, size, raw) ==
  LET walk == MotorolaBits(start, size)
      at(p) == CHOOSE i \in DOMAIN walk : walk[i] = p
  IN  WithBits(data, [p \in {walk[i] : i \in Inside(data, walk)} |->
                        (raw \div 2^(size - 1 - at(p))) % 2])

to_signed(raw, size) ==
  IF size = 0 \/ size >= WordBits THEN AsSigned(raw)
  ELSE IF raw >= 2^(size - 1) THEN raw - 2^size ELSE raw

-----------------------------------------------------------------------------
(* Databases *)

(* A message's identifier is [ext, num]; the table's key forgets the format. *)
msg_id_to_key(id) == id.num

Extended(descs, key, texts) ==
  [k \in DOMAIN descs \union {key} |->
     IF k # key THEN descs[k]
     ELSE IF key \in DOMAIN descs THEN texts @@ descs[key] ELSE texts]

(* load_dbc of a file [messages, descs]: both are sequences in file order. *)
load_dbc(source, file) ==
  [messages |->
     [key \in {msg_id_to_key(file.messages[n].id) : n \in DOMAIN file.messages} |->
        LET same == SelectSeq(file.messages, LAMBDA m : msg_id_to_key(m.id) = key)
        IN  [n \in DOMAIN same |-> [source |-> source, msg |-> same[n]]]],
   descs |->
     FoldLeft(LAMBDA descs, d : Extended(descs, <<msg_id_to_key(d.id), d.name>>, d.texts),
              << >>, file.descs)]

(* Messages of one identifier are kept in load order; HashMap::extend replaces the *)
(* descriptions an earlier file gave for the same raw value.                       *)
Merge(merged, db) ==
  [messages |->
     [key \in DOMAIN merged.messages \union DOMAIN db.messages |->
        (IF key \in DOMAIN merged.messages THEN merged.messages[key] ELSE << >>)
          \o (IF key \in DOMAIN db.messages THEN db.messages[key] ELSE << >>)],
   descs |->
     [k \in DOMAIN merged.descs \union DOMAIN db.descs |->
        IF k \notin DOMAIN db.descs THEN merged.descs[k]
        ELSE IF k \notin DOMAIN merged.descs THEN db.descs[k]
        ELSE db.descs[k] @@ merged.descs[k]]]

merge_databases(dbs) ==
  FoldLeft(Merge, [messages |-> << >>, descs |-> << >>], dbs)

NoText == "none"

decode_signal(sig, data) ==
  LET raw == IF sig.order = "intel" THEN extract_intel(data, sig.start, sig.size)
             ELSE extract_motorola(data, sig.start, sig.size)
  IN  IF sig.type = "signed" THEN to_signed(raw, sig.size) ELSE AsSigned(raw)

(* The decoded frame: message name, source and the values in message order. *)
decode_frame(db, id, data) ==
  IF id \notin DOMAIN db.messages THEN <<>>
  ELSE LET entry == Head(db.messages[id])
           plain == SelectSeq(entry.msg.signals, LAMBDA s : s.mux # "multiplexed")
           Value(sig) ==
             LET raw == decode_signal(sig, data)
                 texts == IF <<id, sig.name>> \in DOMAIN db.descs
                          THEN db.descs[<<id, sig.name>>] ELSE << >>
             IN  [name |-> sig.name, raw |-> raw,
                  physical |-> raw * sig.factor + sig.offset,
                  text |-> IF raw \in DOMAIN texts THEN texts[raw] ELSE NoText]
       IN  [message |-> entry.msg.name, source |-> entry.source,
            values |-> [n \in DOMAIN plain |-> Value(plain[n])]]

-----------------------------------------------------------------------------
(* Encoding *)

RawOf(sig, physical) ==
  IF sig.factor = 0 THEN 0 ELSE Rounded(physical - sig.offset, sig.factor)

Packed(sig, data, word) ==
  IF sig.order = "intel" THEN pack_intel(data, sig.start, sig.size, word)
  ELSE pack_motorola(data, sig.start, sig.size, word)

(* Mutant: a value beyond the field's range is not limited. *)
SignedWordWraps(sig, raw, bits) == ToSignedWord(raw) % 2^sig.size

(* The word packed for a signed field whose limits are those of "bits" bits. *)
SignedWord(sig, raw, bits) ==
  Clip(ToSignedWord(raw), -(2^(bits - 1)), 2^(bits - 1) - 1) % 2^sig.size

UnsignedWord(sig, raw) == Clip(ToUnsignedWord(raw), 0, 2^sig.size - 1)

Resized(data, dlc) == [k \in 1..dlc |-> IF k <= Len(data) THEN data[k] ELSE 0]

encode_signal(sig, dlc, physical, current) ==
  LET raw == RawOf(sig, physical) IN
  Packed(sig, Resized(current, dlc),
         IF sig.type = "signed" THEN SignedWord(sig, raw, sig.size) ELSE UnsignedWord(sig, raw))

(* The editor of the GUI: the payload keeps its length, and the limits of a signed *)
(* field are those of at most WordBits - 1 bits.                                   *)
encode_dbc_signal_manual(sig, physical, base) ==
  LET raw == RawOf(sig, physical)
      half == IF sig.size < WordBits - 1 THEN sig.size ELSE WordBits - 1
  IN  Packed(sig, base,
             IF sig.type = "signed" THEN SignedWord(sig, raw, half) ELSE UnsignedWord(sig, raw))
=============================================================================
