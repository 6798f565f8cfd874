----------------------------- MODULE AdapterFrames -----------------------------
(***************************************************************************)
(* What crosses the USB cable: the 80-byte frame of the KCAN dongle and    *)
(* the 16-byte record of the Apex adapter as sequences of bytes, the bit   *)
(* timing each adapter is given for a bit rate, and what the KCAN firmware *)
(* makes of it.                                                            *)
(***************************************************************************)
EXTENDS Integers, Sequences, FiniteSetsExt, SequencesExt

(* The little- and the big-endian bytes of n, and back. *)
Le(n, width) == [k \in 1..width |-> (n \div 256^(k - 1)) % 256]
Be(n, width) == Reverse(Le(n, width))
FromLeBytes(bytes) == MapThenSumSet(LAMBDA k : bytes[k] * 256^(k - 1), DOMAIN bytes)
FromBeBytes(bytes) == FromLeBytes(Reverse(bytes))

Zeros(n) == [k \in 1..n |-> 0]
At(buf, offset, len) == SubSeq(buf, offset + 1, offset + len)

-----------------------------------------------------------------------------
(* KCAN *)

KCAN_MAGIC == \HCA
KCAN_VERSION == 2
KCAN_MAX_DATA == 64

new_data(can_id, flags, dlc, data, timestamp, seq) ==
  LET len == Min({dlc, Len(data), KCAN_MAX_DATA}) IN
  [magic |-> KCAN_MAGIC, version |-> KCAN_VERSION, frame_type |-> 1, flags |-> flags,
   can_id |-> can_id, timestamp |-> timestamp, dlc |-> dlc, channel |-> 0, seq |-> seq,
   data |-> SubSeq(data, 1, len) \o Zeros(KCAN_MAX_DATA - len)]

new_tx(can_id, flags, dlc, data, seq) == new_data(can_id, flags, dlc, data, 0, seq)

new_tx_echo(can_id, flags, dlc, data, timestamp, seq) ==
  [new_data(can_id, flags, dlc, data, timestamp, seq) EXCEPT !.frame_type = 2]

to_bytes(f) ==
  <<f.magic, f.version, f.frame_type, f.flags>> \o Le(f.can_id, 4) \o Le(f.timestamp, 4)
    \o <<f.dlc, f.channel>> \o Le(f.seq, 2) \o f.data

from_bytes(b) ==
  IF b[1] # KCAN_MAGIC \/ b[2] # KCAN_VERSION THEN <<>>
  ELSE [magic |-> b[1], version |-> b[2], frame_type |-> b[3], flags |-> b[4],
        can_id |-> FromLeBytes(At(b, 4, 4)), timestamp |-> FromLeBytes(At(b, 8, 4)),
        dlc |-> b[13], channel |-> b[14], seq |-> FromLeBytes(At(b, 14, 2)),
        data |-> At(b, 16, KCAN_MAX_DATA)]

-----------------------------------------------------------------------------
(* Apex *)

(* The format byte: data length, remote and extended flags. *)
FormatByte(extended, rtr, dlc) ==
  dlc + (IF extended THEN \H80 ELSE 0) + (IF rtr THEN \H40 ELSE 0)

EndOfReset == \H0F

(* Identifiers are left-justified: 29 bits in four bytes, 11 bits in two. *)
encode_frame(id, extended, rtr, dlc, data) ==
  LET len == Min({dlc, 8})
      head == <<FormatByte(extended, rtr, len)>>
              \o (IF extended THEN Be(id * 2^3, 4) ELSE Be((id * 2^5) % 2^16, 2))
      body == IF rtr THEN <<>> ELSE SubSeq(data, 1, Min({len, Len(data)}))
  IN  head \o body \o Zeros(16 - Len(head) - Len(body))

decode_record(buf) ==
  IF buf[1] = EndOfReset THEN <<>>
  ELSE LET extended == buf[1] >= \H80
           dlc == buf[1] % 16
           len == Min({dlc, 8})
       IN  [id |-> IF extended THEN FromBeBytes(At(buf, 1, 4)) \div 2^3
                   ELSE FromBeBytes(At(buf, 1, 2)) \div 2^5,
            extended |-> extended, rtr |-> (buf[1] \div \H40) % 2 = 1, dlc |-> dlc,
            data |-> At(buf, IF extended THEN 5 ELSE 3, len) \o Zeros(8 - len),
            timestamp |-> FromBeBytes(At(buf, 13, 3))]

-----------------------------------------------------------------------------
(* Frames of the host and of the bus *)

EFF == 1
RTR == 2
DataFrame(ext, id, data) == [ext |-> ext, id |-> id, remote |-> FALSE, dlc |-> Len(data), data |-> data]
RemoteFrame(ext, id, dlc) == [ext |-> ext, id |-> id, remote |-> TRUE, dlc |-> dlc, data |-> <<>>]
NoFrame == <<>>

Flags(ext, remote) == (IF ext THEN EFF ELSE 0) + (IF remote THEN RTR ELSE 0)
IsEff(flags) == flags % 2 = 1
IsRtr(flags) == (flags \div RTR) % 2 = 1

can_frame_to_kcan(f, seq) == new_tx(f.id, Flags(f.ext, f.remote), Len(f.data), f.data, seq)

(* On the host identifiers are cut to their width. *)
kcan_to_can_frame(kf) ==
  LET ext == IsEff(kf.flags)
      id == kf.can_id % 2^(IF ext THEN 29 ELSE 11)
  IN  IF ~IsRtr(kf.flags) THEN DataFrame(ext, id, SubSeq(kf.data, 1, Min({kf.dlc, 8})))
      ELSE IF kf.dlc <= 8 THEN RemoteFrame(ext, id, kf.dlc) ELSE NoFrame

(* In the dongle: what the controller received, and what it is given to send. *)
classic_to_kcan(f, timestamp, seq) ==
  new_data(f.id, Flags(f.ext, f.remote), f.dlc, f.data, timestamp, seq)

kcan_to_frame(kf) ==
  LET ext == IsEff(kf.flags) IN
  IF IsRtr(kf.flags)
  THEN IF kf.dlc <= 8 THEN RemoteFrame(ext, kf.can_id % 2^(IF ext THEN 29 ELSE 11), kf.dlc) ELSE NoFrame
  ELSE LET id == IF ext THEN kf.can_id ELSE kf.can_id % 2^16 IN
       IF id < 2^(IF ext THEN 29 ELSE 11)
       THEN DataFrame(ext, id, SubSeq(kf.data, 1, Min({kf.dlc, 8}))) ELSE NoFrame

can_frame_to_bytes(f) == encode_frame(f.id, f.ext, f.remote, f.dlc, f.data)

apex_to_can_frame(f) ==
  LET id == f.id % 2^(IF f.extended THEN 29 ELSE 11)
      n == Min({f.dlc, 8})
  IN  IF f.rtr THEN RemoteFrame(f.extended, id, n) ELSE DataFrame(f.extended, id, SubSeq(f.data, 1, n))

-----------------------------------------------------------------------------
(* Bit rates *)

(* The drop-down of the GUI. *)
BAUD_OPTIONS == {10000, 20000, 50000, 100000, 125000, 250000, 500000, 800000, 1000000}

(* The FDCAN clock GET_BT_CONST reports. *)
ClockHz == 32000000
Refusal == <<>>

(* Mutant: the rate the rounded prescaler gives is not compared. *)
for_bitrate_near(clock, bitrate) ==
  LET brp == clock \div (bitrate * 16) IN
  IF brp = 0 \/ brp > 512 THEN Refusal
  ELSE [brp |-> brp, tseg1 |-> 13, tseg2 |-> 2, sjw |-> 1]

(* for_bitrate: a bit of 16 quanta. *)
for_bitrate(clock, bitrate) ==
  LET brp == clock \div (bitrate * 16) IN
  IF brp = 0 \/ brp > 512 THEN Refusal
  ELSE IF clock \div (brp * 16) # bitrate THEN Refusal
  ELSE [brp |-> brp, tseg1 |-> 13, tseg2 |-> 2, sjw |-> 1]

(* The two low bytes of the Apex timing register: prescaler and segments less one. *)
baud_ex_reg(bitrate) ==
  LET Reg(btr1, btr0) == [btr1 |-> btr1, btr0 |-> btr0] IN
  CASE bitrate = 10000 -> Reg(\H1C, \H95)
    [] bitrate = 20000 -> Reg(\H1C, \H4A)
    [] bitrate = 50000 -> Reg(\H1C, \H1D)
    [] bitrate = 100000 -> Reg(\H1C, \H0E)
    [] bitrate = 125000 -> Reg(\H1C, \H0B)
    [] bitrate = 250000 -> Reg(\H1C, \H05)
    [] bitrate = 500000 -> Reg(\H1C, \H02)
    [] bitrate = 800000 -> Reg(\H2A, \H01)
    [] bitrate = 1000000 -> Reg(\H27, \H01)
    [] OTHER -> Refusal

timing_to_bytes(t) == Le(t.brp, 4) \o Le(t.tseg1, 4) \o Le(t.tseg2, 4) \o Le(t.sjw, 4)

timing_from_bytes(b) ==
  [brp |-> FromLeBytes(At(b, 0, 4)), tseg1 |-> FromLeBytes(At(b, 4, 4)),
   tseg2 |-> FromLeBytes(At(b, 8, 4)), sjw |-> FromLeBytes(At(b, 12, 4))]

(* SET_BITTIMING in the dongle: the display takes the rate of the parameters, the *)
(* controller keeps the 250 kbit/s it was configured with at start.               *)
BusKbps == 250

SetBitTiming(data) ==
  LET t == timing_from_bytes(data)
      quanta == t.brp * (1 + t.tseg1 + t.tseg2)
  IN  [shown |-> (ClockHz \div quanta) \div 1000, bus |-> BusKbps]
=============================================================================
