------------------------------- MODULE MCCodecs -------------------------------
(***************************************************************************)
(* A bench for the conversions: a job is one input of one conversion, a    *)
(* step computes its output, and the invariants compare it with what the   *)
(* format defines.  Editing a payload is a job of many steps.              *)
(***************************************************************************)
EXTENDS DbcSignals, CanopenCodec, XcpCodec, AdapterFrames, LogReplay, TuiCommands,
        BlockFile, Releases, Plots

VARIABLES job, done, out

vars == <<job, done, out>>

-----------------------------------------------------------------------------
(* Inputs *)

Signal(start, size, order, type, factor, offset) ==
  [name |-> "s", start |-> start, size |-> size, order |-> order, type |-> type,
   factor |-> factor, offset |-> offset, mux |-> "plain"]

Payloads == {<<0, 0>>, <<165, 60>>, <<1, 128>>, <<255, 127>>, <<90, 195>>, <<129>>}

(* An unsigned signal as wide as the word would be shown negative: it is left out. *)
DecodeJobs ==
  [op : {"decode"}, data : Payloads,
   sig : {Signal(start, size, order, type, 1, 0) :
            start \in 0..15, size \in 1..7, order \in {"intel", "motorola"},
            type \in {"signed", "unsigned"}}
         \union {Signal(start, 8, order, "signed", 1, 0) :
                   start \in 0..15, order \in {"intel", "motorola"}}]

(* The panel limits a signed signal as wide as the word to half its range: left out. *)
Layouts ==
  {<<Signal(0, 5, "intel", "signed", 1, 0), Signal(5, 7, "intel", "unsigned", 2, 3),
     Signal(15, 4, "motorola", "signed", -1, 0)>>,
   <<Signal(3, 7, "motorola", "unsigned", 1, -4), Signal(8, 5, "intel", "signed", 3, 1),
     Signal(4, 4, "intel", "unsigned", 0, 7)>>,
   <<Signal(7, 7, "motorola", "signed", 2, 0), Signal(12, 4, "intel", "signed", 1, 0),
     Signal(11, 4, "motorola", "unsigned", 1, 0)>>}

Physicals == {-300, -9, 0, 6, 13, 250}

EditJobs ==
  {[op |-> "edit", sigs |-> sigs, frame |-> data,
    wanted |-> [n \in DOMAIN sigs |-> decode_signal(sigs[n], data)]] :
     sigs \in Layouts, data \in {<<0, 0>>, <<165, 60>>}}

Msg(id, name) ==
  [id |-> id, name |-> name, signals |-> <<Signal(0, 3, "intel", "unsigned", 1, 0)>>]
Desc(id, texts) == [id |-> id, name |-> "s", texts |-> texts]
Id1 == [ext |-> FALSE, num |-> 1]
Id2 == [ext |-> TRUE, num |-> 2]

Files(name) ==
  {[messages |-> m, descs |-> d] :
     m \in {<<>>, <<Msg(Id1, name)>>, <<Msg(Id2, name), Msg(Id1, name)>>},
     d \in {<<>>, <<Desc(Id1, (1 :> name))>>,
            <<Desc(Id1, (1 :> name)), Desc(Id1, (2 :> name))>>}}

DbcJobs ==
  {[op |-> "dbc", files |-> <<f, g>>, id |-> id, data |-> <<d>>] :
     f \in Files("first"), g \in Files("second"), id \in {1, 2}, d \in {1, 2, 5}}

(* A Boolean is mapped as a byte or, as in most PDOs of inputs and outputs, as one bit. *)
Mapped(type, bits) == [type |-> type, bits |-> bits]
Objects ==
  [a |-> Mapped("U8", 8), b |-> Mapped("I8", 8), c |-> Mapped("U16", 16), d |-> Mapped("I16", 16),
   e |-> Mapped("bool", 8), f |-> Mapped("bool", 1)]
ObjectSeqs == UNION {[1..n -> DOMAIN Objects] : n \in 1..3}

PdoJobs ==
  [op : {"pdo"}, kind : {"tpdo", "rpdo"}, num : 0..3, node : {1, 127},
   cob : {NoDefault, [parsed |-> TRUE, invalid |-> FALSE, cob |-> \H3A5],
          [parsed |-> TRUE, invalid |-> TRUE, cob |-> \H181]},
   mapped : {s \in ObjectSeqs : \A i, j \in DOMAIN s : i < j => s[i] # s[j]},
   data : {<<129, 2, 131, 4, 255, 6>>}]

(* The object dictionary of a PDO job: one PDO with the mapped objects. *)
Entry(type, default) == [name |-> "p", type |-> type, default |-> default]
DictionaryOf(j) ==
  LET comm == (IF j.kind = "tpdo" THEN TpdoComm ELSE RpdoComm) + j.num
      map == (IF j.kind = "tpdo" THEN TpdoMap ELSE RpdoMap) + j.num
  IN  [k \in {<<comm, 1>>} \union {<<map, n>> : n \in 0..Len(j.mapped)}
             \union {<<o, 0>> : o \in {\H2000 + n : n \in DOMAIN j.mapped}} |->
         IF k = <<comm, 1>> THEN Entry("U32", j.cob)
         ELSE IF k[1] = map THEN
           Entry("U32", IF k[2] = 0 THEN [parsed |-> TRUE, value |-> Len(j.mapped)]
                        ELSE [parsed |-> TRUE, index |-> \H2000 + k[2], sub |-> 0,
                              bits |-> Objects[j.mapped[k[2]]].bits])
         ELSE Entry(Objects[j.mapped[k[1] - \H2000]].type, NoDefault)]

ValueJobs ==
  {[op |-> "value", text |-> [radix |-> r, number |-> n], type |-> t] :
     r \in {10, 16}, t \in DOMAIN Width,
     n \in {0, 1, 2, 127, 128, 255, 256, 32767, 32768, 65535, 65536}}
  \union
  {[op |-> "value", text |-> [radix |-> 10, number |-> n], type |-> t] :
     t \in DOMAIN Width, n \in {-1, -128, -129, -32768, -32769}}
-----------------------------------------------------------------------------
Numbers == {0, 1, 305419896, 2130706432}

(* Commands of another master on the bus, as the protocol lays them out. *)
Overheard ==
  [cmd : {"set_daq_ptr"}, daq : {1, 258}, odt : {2}, odt_entry : {3}]
  \union [cmd : {"write_daq"}, bit_offset : {255}, size : {2}, ext : {1}, address : Numbers]
  \union [cmd : {"set_daq_list_mode"}, mode : {16}, daq : {258}, event : {3, 513},
          prescaler : {1}, priority : {9}]
  \union [cmd : {"start_stop_daq_list"}, mode : {1}, daq : {1, 258}]

Sent(c, order) ==
  CASE c.cmd = "set_daq_ptr" ->
         <<Code[c.cmd], 0>> \o ToBytes(order, c.daq, 2) \o <<c.odt, c.odt_entry>>
    [] c.cmd = "write_daq" ->
         <<Code[c.cmd], c.bit_offset, c.size, c.ext>> \o ToBytes(order, c.address, 4)
    [] c.cmd = "set_daq_list_mode" ->
         <<Code[c.cmd], c.mode>> \o ToBytes(order, c.daq, 2) \o ToBytes(order, c.event, 2)
           \o <<c.prescaler, c.priority>>
    [] c.cmd = "start_stop_daq_list" -> <<Code[c.cmd], c.mode>> \o ToBytes(order, c.daq, 2)
    [] OTHER -> encode_command(c, order)

XcpJobs ==
  [op : {"xcp"}, order : {"little", "big"},
   c : {[cmd |-> "connect", mode |-> 1], [cmd |-> "disconnect"], [cmd |-> "get_status"],
        [cmd |-> "get_seed", mode |-> 1, resource |-> 4],
        [cmd |-> "unlock", remaining |-> 9, key |-> <<1, 2, 3>>],
        [cmd |-> "upload", n |-> 4], [cmd |-> "download", n |-> 2, data |-> <<7, 8>>]}
       \union [cmd : {"set_mta"}, ext : {3}, address : Numbers]
       \union Overheard
       \union [cmd : {"short_upload"}, n : {5}, ext : {3}, address : Numbers]]

ConnectJobs ==
  [op : {"connect"}, order : {"little", "big"}, granularity : {0, 2, 4}, max_dto : {8, 258}]

KcanJobs ==
  {[op |-> "kcan", frame |-> f] :
     f \in {new_data(id, flags, dlc, <<1, 2, 3, 4, 5, 6, 7, 8>>, ts, seq) :
              id \in Numbers, flags \in {0, 5}, dlc \in {0, 3, 8}, ts \in Numbers, seq \in {0, 513}}
           \union {new_tx_echo(id, 0, 8, <<1, 2>>, ts, 65535) : id \in Numbers, ts \in Numbers}
           \union {new_tx(id, 1, 2, <<1, 2, 3>>, 7) : id \in Numbers}}

ApexJobs ==
  [op : {"apex"}, id : {0, 1, 1110, 2047}, extended : {FALSE}, rtr : BOOLEAN, dlc : {0, 5, 8, 15},
   data : {<<10, 20, 30, 40, 50, 60, 70, 80>>}]
  \union
  [op : {"apex"}, id : {1, 2047, 19088743, 268435455}, extended : {TRUE}, rtr : BOOLEAN,
   dlc : {0, 5, 8, 15}, data : {<<10, 20, 30, 40, 50, 60, 70, 80>>}]

NmtJobs == [op : {"nmt"}, cmd : DOMAIN NmtCode, target : {0, 5, 127}]

BeatJobs == [op : {"beat"}, state : {"bootup", "stopped", "operational", "pre_operational"}]

(* The states of a node in its heartbeat, as the standard numbers them. *)
StateByte == [bootup |-> 0, stopped |-> 4, operational |-> 5, pre_operational |-> 127]

Field(f, v) == [kind |-> "field", field |-> f, value |-> v]
Section(k) == [kind |-> "section", key |-> k]
EdsLines ==
  {Section(<<1, 0>>), Section(<<1, 2>>), Section(NoKey), Field("parametername", "p"),
   Field("parametername", "q"), Field("datatype", "U8"), [kind |-> "comment"]}
EdsJobs == [op : {"eds"}, file : UNION {[1..n -> EdsLines] : n \in 0..5}]

(* The tokens of the blocks of an A2L file; a measurement may lack its address. *)
A2lAddresses == [t1 |-> 1, t2 |-> 2, t3 |-> 0]
Block(kind, name, type, at) == [kind |-> kind, name |-> name, type |-> type, at |-> at]
A2lBlocks ==
  {Block("MEASUREMENT", n, t, a) : n \in {"x"}, t \in {"UWORD", "SBYTE"}, a \in {"t1", "t2", "-"}}
  \union {Block("CHARACTERISTIC", "y", "unknown", a) : a \in {"t1", "t2", "x"}}
  \union {Block("MODULE", "z", "UBYTE", "-")}
Tokens(b) ==
  <<"/begin", b.kind, b.name, "text">>
    \o (CASE b.kind = "CHARACTERISTIC" -> <<"VALUE", b.at>>
          [] b.at = "-" -> <<b.type, "t3">>
          [] OTHER -> <<b.type, "t3", "ECU_ADDRESS", b.at>>)
    \o <<"/end", b.kind>>
A2lJobs ==
  [op : {"a2l"}, blocks : UNION {[1..n -> A2lBlocks] : n \in 1..3}, raw : {<<200, 1>>, <<200>>},
   order : {"little", "big"}]

RateJobs == [op : {"rate"}, baud : BAUD_OPTIONS]

BusJobs ==
  {[op |-> "bus", frame |-> DataFrame(ext, id, data)] :
     ext \in {FALSE}, id \in {0, 1, 2047}, data \in {<<>>, <<7>>, <<1, 2, 3, 4, 5, 6, 7, 8>>}}
  \union
  {[op |-> "bus", frame |-> DataFrame(TRUE, id, data)] :
     id \in {0, 2047, 2048, 268435455}, data \in {<<>>, <<7>>, <<1, 2, 3, 4, 5, 6, 7, 8>>}}
  \union {[op |-> "bus", frame |-> RemoteFrame(FALSE, 2047, dlc)] : dlc \in {0, 3, 8}}
  \union {[op |-> "bus", frame |-> RemoteFrame(TRUE, 268435455, dlc)] : dlc \in {0, 8}}

(* A word typed in the TUI: a number by its value in base sixteen. *)
Word(text) == [text |-> text, dec |-> -1, hex |-> -1, digits |-> 0]
Typed(hex, digits) ==
  LET Nibble(k) == (hex \div 16^k) % 16 IN
  [text |-> "", hex |-> hex, digits |-> digits,
   dec |-> IF \A k \in 0..digits - 1 : Nibble(k) <= 9
           THEN MapThenSumSet(LAMBDA k : Nibble(k) * 10^k, 0..digits - 1) ELSE -1]
Words == {Word("start"), Word("reset"), Word("a"), Typed(0, 1), Typed(\H18, 2), Typed(6, 4),
          Typed(\HC8, 2), Typed(\H6040, 4), Typed(\H11170, 5), Typed(\H300, 3)}
TypedJobs ==
  [op : {"typed"}, kind : InputKinds, parts : UNION {[1..n -> Words] : n \in 0..3}]
  \union [op : {"typed"}, kind : {"SdoWrite"}, parts : [1..4 -> {Word("a"), Typed(6, 4), Typed(\H12C, 3)}]]

(* A scan of all sub-indices: the reads that will be answered, the sub-indices the last  *)
(* scan has asked for, is the read it waits for lost, aborts so far, reads swallowed by  *)
(* the session, scans and reads typed.                                                   *)
ScanJobs ==
  [op : {"scan"}, max : {0, 1, 2, 255}, scan : {NoScan}, sent : {<<>>}, asked : {<<>>},
   lost : {FALSE}, aborts : {0}, swallowed : {0}, typed : {0}]
MaxTyped == 3
MaxAborts == 1
MaxSwallowed == 1

Years == {1970, 1971, 1972, 1999, 2000, 2023, 2024, 2099, 2100, 2101}
DateJobs == [op : {"date"}, y : Years, m : 1..12, d : {1, 28, 29, 30, 31}]

\* A session's log: frames, a notice, a clock that may be set back, and the replay of what the
\* disk has in the end.
LogJobs ==
  {[op |-> "log", log |-> NewLog, sent |-> <<>>, now |-> 0, wall |-> 5, replay |-> <<>>]}
MaxSent == 4
MaxTicks == 2
MaxNow == 3

\* Firmware files of up to three blocks of no, one or three words, cut anywhere.
BlockWords(n, size) == <<n, 100 + n, size>> \o [k \in 1..size |-> k] \o <<99>>
ImageOf(sizes) == FlattenSeq([n \in DOMAIN sizes |-> BlockWords(n, sizes[n])])
ImageJobs ==
  UNION {{[op |-> "image", sizes |-> sizes, iter |-> open(SubSeq(ImageOf(sizes), 1, cut))] :
            cut \in 0..Len(ImageOf(sizes))} :
           sizes \in UNION {[1..n -> {0, 1, 3}] : n \in 0..3}}

Tags == {<<1, 2, 3>>, <<1, 3, 0>>, <<2, 0, 0>>, <<1, 2, 4>>, <<0, 255, 255>>, <<1, 2>>, <<1, 256, 0>>,
         <<1, -1, 0>>, <<1, 2, 3, 4>>}
Asset(platform) == [platform |-> platform, url |-> platform]
ReleaseJobs ==
  [op : {"release"}, tag : Tags, built : Tags, platform : {"mac", "linux"},
   assets : {<<>>, <<Asset("linux")>>, <<Asset("linux"), Asset("mac")>>}]

\* The plots of a session: a text and two numbers of one node, two numbers of a database.
Float(n) == [kind |-> "float", value |-> n]
PlotEvents(n) ==
  {[source |-> [kind |-> "pdo", node |-> 1, cob |-> \H181],
    values |-> <<[name |-> "a", value |-> [kind |-> "integer", value |-> n]],
                 [name |-> "b", value |-> [kind |-> "text", value |-> "x"]]>>],
   [source |-> [kind |-> "dbc", id |-> \H181, message |-> "m"],
    values |-> <<[name |-> "a", value |-> Float(n)], [name |-> "b", value |-> Float(-n)]>>]}
PlotJobs == {[op |-> "plot", plots |-> NewPlots, now |-> 40, fed |-> <<>>, clicks |-> 0, moves |-> 0]}
MaxFed == 4
MaxClicks == 4
MaxMoves == 1

Jobs == DecodeJobs \union EditJobs \union DbcJobs \union PdoJobs \union ValueJobs \union XcpJobs
        \union ConnectJobs \union KcanJobs \union ApexJobs \union NmtJobs \union BeatJobs \union EdsJobs \union A2lJobs \union RateJobs
        \union BusJobs \union TypedJobs \union ScanJobs \union DateJobs \union LogJobs
        \union ImageJobs \union ReleaseJobs \union PlotJobs

-----------------------------------------------------------------------------
(* Conversions *)

Init == job \in Jobs /\ done = FALSE /\ out = <<>>

Give(op, result) == job.op = op /\ ~done /\ done' = TRUE /\ out' = result /\ UNCHANGED job

DecodeSignal == Give("decode", decode_signal(job.sig, job.data))

(* A signal of the payload is edited, by the database's encoder or in the panel. *)
EditSignal ==
  /\ job.op = "edit"
  /\ \E n \in DOMAIN job.sigs, p \in Physicals, panel \in BOOLEAN :
       LET sig == job.sigs[n]
           raw == IF sig.factor = 0 THEN 0 ELSE Rounded(p - sig.offset, sig.factor)
       IN  job' = [job EXCEPT
                     !.frame = IF panel THEN encode_dbc_signal_manual(sig, p, @)
                               ELSE encode_signal(sig, 2, p, @),
                     !.wanted[n] =
                       IF sig.type = "signed"
                       THEN Clip(raw, -(2^(sig.size - 1)), 2^(sig.size - 1) - 1)
                       ELSE Clip(raw, 0, 2^sig.size - 1)]
  /\ UNCHANGED <<done, out>>

DecodeFrame ==
  Give("dbc", decode_frame(merge_databases(<<load_dbc("first", job.files[1]),
                                             load_dbc("second", job.files[2])>>),
                           job.id, job.data))

DecodePdo ==
  LET mappings == from_od(job.node, DictionaryOf(job)) IN
  Give("pdo", [mappings |-> mappings,
               values |-> [cob \in DOMAIN mappings |-> decode_pdo(mappings, cob, job.data)]])

WriteValue ==
  LET sent == encode_value_for_type(job.text, job.type) IN
  Give("value", IF sent.ok THEN [ok |-> TRUE, value |-> interpret_value(sent.bytes, job.type)]
                ELSE Refused)

SendXcp == Give("xcp", decode_command(Sent(job.c, job.order), job.order))

ConnectXcp ==
  Give("connect", decode_connect_response(
                    <<\HFF, 5, job.granularity + (IF job.order = "big" THEN 1 ELSE 0), 8>>
                      \o ToBytes(job.order, job.max_dto, 2) \o <<1, 1>>))

SendKcan == Give("kcan", from_bytes(to_bytes(job.frame)))

SendApex ==
  Give("apex", decode_record(encode_frame(job.id, job.extended, job.rtr, job.dlc, job.data)))

SendNmt == Give("nmt", decode_nmt_command(encode_nmt_command(job.cmd, job.target)))

ReceiveBeat == Give("beat", decode_heartbeat(<<StateByte[job.state]>>))

ReadEds == Give("eds", parse_eds(job.file))

ReadA2l ==
  LET db == ParseA2l(FlattenSeq([n \in DOMAIN job.blocks |-> Tokens(job.blocks[n])])) IN
  Give("a2l", [a \in {1, 2} |->
                 [object |-> IF a \in DOMAIN db.by_address THEN object_at(db, a) ELSE <<>>,
                  value |-> decode_at(db, a, job.raw, job.order)]])

ChooseRate ==
  LET timing == for_bitrate(ClockHz, job.baud) IN
  Give("rate", [kcan |-> timing, apex |-> baud_ex_reg(job.baud),
                dongle |-> IF timing = Refusal THEN Refusal ELSE SetBitTiming(timing_to_bytes(timing))])

(* A frame through the dongle to the bus, its echo back, and a frame of the bus to the   *)
(* host, by the dongle and by the Apex adapter.                                          *)
CrossBus ==
  LET Carried(kf) == from_bytes(to_bytes(kf))
      tx == Carried(can_frame_to_kcan(job.frame, 513))
      echo == new_tx_echo(tx.can_id, tx.flags, tx.dlc, SubSeq(tx.data, 1, tx.dlc), 9, 0)
  IN  Give("bus", [wire |-> kcan_to_frame(tx), echo |-> kcan_to_can_frame(Carried(echo)),
                   received |-> kcan_to_can_frame(Carried(classic_to_kcan(job.frame, 9, 513))),
                   apex |-> apex_to_can_frame(decode_record(can_frame_to_bytes(job.frame)))])

EnterCommand == Give("typed", Entered(job.kind, job.parts, NoScan).send)

CountDays == Give("date", days_from_civil(job.y, job.m, job.d))

Awaits(scan, read) ==
  scan # NoScan /\ <<read.node, read.index, read.sub>> = <<scan.node, scan.index, scan.next_sub>>

(* A read goes to the session, or is swallowed by its check for a front-end that has     *)
(* gone.  The session has one record for a node: the new read takes the place of those   *)
(* of its node that are not answered yet, and of these any may remain without an answer. *)
Asked(j, read) ==
  {[j EXCEPT !.sent = Append(SelectSeq(@, LAMBDA m : m \notin gone), read),
             !.lost = @ \/ \E m \in gone : Awaits(j.scan, m)] :
     gone \in SUBSET {m \in ToSet(j.sent) : m.node = read.node}}
  \union {[j EXCEPT !.swallowed = @ + 1, !.lost = @ \/ Awaits(j.scan, read)] :
             n \in {m \in {1} : j.swallowed < MaxSwallowed}}

(* Read all, or the read of one sub-index, is typed for one of three objects. *)
TypeRead ==
  /\ job.op = "scan" /\ job.typed < MaxTyped
  /\ \E object \in {<<Typed(6, 1), Typed(6, 1)>>, <<Typed(6, 1), Typed(\H300, 3)>>, <<Typed(7, 1), Typed(6, 1)>>},
        sub \in {Word("a"), Typed(0, 1), Typed(1, 1)} :
       LET e == Entered("SdoRead", Append(object, sub), job.scan)
           scans == sub = Word("a")
       IN  job' \in Asked([job EXCEPT !.scan = e.scan, !.typed = @ + 1,
                                      !.asked = IF scans THEN <<0>> ELSE @,
                                      !.lost = @ /\ ~scans], e.send)
  /\ UNCHANGED <<done, out>>

(* The session answers a read, with a value or an abort; the scan goes on. *)
ReadAnswered ==
  /\ job.op = "scan" /\ job.sent # <<>>
  /\ \E abort \in BOOLEAN :
       LET read == job.sent[1]
           e == Scanned(job.scan, [node |-> read.node, index |-> read.index, sub |-> read.sub,
                                   value |-> IF abort \/ read.sub # 0 THEN 0 ELSE job.max])
           j == [job EXCEPT !.scan = e.scan, !.sent = Tail(@), !.lost = @ /\ e.scan = job.scan,
                            !.aborts = @ + (IF abort THEN 1 ELSE 0)]
       IN  /\ abort => job.aborts < MaxAborts
           /\ IF e.send = NoCommand THEN job' = j
              ELSE job' \in Asked([j EXCEPT !.asked = Append(@, e.send.sub)], e.send)
  /\ UNCHANGED <<done, out>>

(* The session writes its log while the clock is set forth and back. *)
LogEntry ==
  /\ job.op = "log" /\ job.replay = <<>> /\ Len(job.sent) < MaxSent
  /\ \E entry \in {FrameEntry("TX", job.wall, 1, <<Len(job.sent)>>),
                    FrameEntry("PDO", job.wall, 2, <<Len(job.sent)>>),
                    Notice("ADAPTER_DISCONNECTED", job.wall)} :
       job' = [job EXCEPT !.log = Logged(job.log, entry, job.now), !.sent = Append(@, entry)]
  /\ UNCHANGED <<done, out>>

ClockMoves ==
  /\ job.op = "log" /\ job.replay = <<>> /\ job.now < MaxTicks
  /\ \E wall \in {job.wall - 1, job.wall + 1} : job' = [job EXCEPT !.now = @ + 1, !.wall = wall]
  /\ UNCHANGED <<done, out>>

(* The program ends, or dies with what is still in the buffer; the log is loaded. *)
LoadLog ==
  /\ job.op = "log" /\ job.replay = <<>>
  /\ \E crash \in BOOLEAN :
       LET log == IF crash THEN job.log ELSE Drained(job.log, job.now) IN
       job' = [job EXCEPT !.log = [disk |-> log.disk, crashed |-> crash], !.now = 0, !.wall = 0,
                          !.replay = NewReplay(parse_document(<<Notice("session_start", 5)>> \o log.disk))]
  /\ UNCHANGED <<done, out>>

(* A frame of the sniffer's window: the replay goes on, then a button or a slider. *)
ReplayFrame ==
  /\ job.op = "log" /\ job.replay # <<>> /\ job.now < MaxNow
  /\ LET now == job.now + 1
         r == Advance(job.replay, now)
     IN  \E shown \in {r} \union Controls(r, now) : job' = [job EXCEPT !.now = now, !.replay = shown]
  /\ UNCHANGED <<done, out>>

(* The tool takes the next block of a firmware file. *)
ReadBlock ==
  /\ job.op = "image" /\ job.iter.end = "no"
  /\ job' = [job EXCEPT !.iter = next(@)]
  /\ UNCHANGED <<done, out>>

CheckRelease ==
  Give("release", check_for_app_update(job.tag, job.assets, job.built, job.platform))

(* An event is drawn from; the time goes on, or the clock is set back; a click. *)
PlotSamples ==
  /\ job.op = "plot" /\ Len(job.fed) < MaxFed
  /\ \E ev \in PlotEvents(Len(job.fed)) :
       job' = [job EXCEPT !.plots = feed_event(@, ev, job.now), !.fed = Append(@, [ev |-> ev, t |-> job.now])]
  /\ UNCHANGED <<done, out>>

PlotTime ==
  /\ job.op = "plot" /\ job.moves < MaxMoves
  /\ \E now \in {job.now - 20, job.now + 20} : job' = [job EXCEPT !.now = now, !.moves = @ + 1]
  /\ UNCHANGED <<done, out>>

PlotClick ==
  /\ job.op = "plot" /\ job.clicks < MaxClicks
  /\ \E plots \in Clicked(job.plots, {10}, {"a"}, {1, 2}) :
       job' = [job EXCEPT !.plots = plots, !.clicks = @ + 1]
  /\ UNCHANGED <<done, out>>

Next ==
  \/ DecodeSignal \/ EditSignal \/ DecodeFrame \/ DecodePdo \/ WriteValue \/ SendXcp
  \/ ConnectXcp \/ SendKcan \/ SendApex \/ SendNmt \/ ReceiveBeat \/ ReadEds \/ ReadA2l \/ ChooseRate
  \/ CrossBus \/ EnterCommand \/ TypeRead \/ ReadAnswered \/ LogEntry \/ ClockMoves \/ LoadLog
  \/ ReplayFrame \/ CountDays \/ ReadBlock \/ CheckRelease
  \/ PlotSamples \/ PlotTime \/ PlotClick

Spec == Init /\ [][Next]_vars

-----------------------------------------------------------------------------
(* What the formats define *)

Given(op) == job.op = op /\ done

TwosComplement(n, size) == IF n >= 2^(size - 1) THEN n - 2^size ELSE n

(* Intel: the bits above "start" of the payload as one little-endian number.  Motorola: *)
(* numbering the bits of the payload from the most significant one of byte 0 on, the    *)
(* field is "size" consecutive bits.                                                    *)
Slice(data, sig) ==
  LET n == Len(data)
      first == 8 * (sig.start \div 8) + (7 - (sig.start % 8))
      field ==
        IF sig.order = "intel"
        THEN (FromLe(data) \div 2^sig.start) % 2^sig.size
        ELSE IF first >= 8 * n THEN 0
        ELSE ((FromLe(Reverse(data)) * 2^8) \div 2^(8 * (n + 1) - first - sig.size)) % 2^sig.size
  IN  IF sig.type = "signed" THEN TwosComplement(field, sig.size) ELSE field

(* A chart has a line for each of its signals that has a sample in the window, with the   *)
(* latest samples of that signal alone in the order they came, those not older than the   *)
(* window; every signal is there once.                                                    *)
ChartIsTrue(plots, fed, now) ==
  LET chart == plots.charts[plots.active]
      Sample(e, name) == SelectSeq(e.ev.values, LAMBDA s : s.name = name)[1].value.value
      Events(key) == SelectSeq(fed, LAMBDA e : e.ev.source = key.source)
      Latest(key) ==
        LET es == Events(key)
            first == Max({0, Len(es) - MaxHistoryPoints})
        IN  SelectSeq([n \in 1..Len(es) - first |->
                         [t |-> es[first + n].t, v |-> Sample(es[first + n], key.name)]],
                      LAMBDA p : p.t >= now - chart.secs)
      lines == render_chart(plots, now)
  IN  /\ IsInjective(chart.assigned)
      /\ {line.key : line \in ToSet(lines)} = {key \in ToSet(chart.assigned) : Latest(key) # <<>>}
      /\ \A line \in ToSet(lines) : line.points = Latest(line.key)

(* The bits of a mapped object begin behind those of the objects mapped before it; they  *)
(* are a little-endian number, of its type.                                              *)
BitOffset(mapped, n) == MapThenSumSet(LAMBDA m : Objects[mapped[m]].bits, 1..n - 1)
WholeBytes(mapped, n) == Objects[mapped[n]].bits % 8 = 0
OnByteBoundary(mapped, n) == BitOffset(mapped, n) % 8 = 0
PdoNumber(mapped, n, data) ==
  LET first == BitOffset(mapped, n) \div 8
      bytes == SubSeq(data, first + 1, Min({Len(data), first + 3}))
      type == Objects[mapped[n]].type
      bits == Objects[mapped[n]].bits
      word == (FromLe(bytes) \div 2^(BitOffset(mapped, n) % 8)) % 2^bits
  IN  CASE type \in {"I8", "I16"} -> [kind |-> "integer", value |-> TwosComplement(word, bits)]
        [] type = "bool" -> [kind |-> "unsigned", value |-> word % 2]
        [] OTHER -> [kind |-> "unsigned", value |-> word]

(* The decoder extracts exactly the bits the database's layout gives a signal, with its *)
(* sign, in both byte orders and when the payload ends before the signal does; a PDO    *)
(* has a value for every mapped object, that of whole bytes which begins on a byte is   *)
(* the little-endian number behind the values mapped before it, under the COB-ID of an  *)
(* enabled PDO only, which the classifier takes for that PDO of that node; and a chart  *)
(* draws the latest values of its signals.                                              *)
DecodedIsSlice ==
  /\ job.op = "plot" => ChartIsTrue(job.plots, job.fed, job.now)
  /\ Given("decode") => out = Slice(job.data, job.sig)
  /\ Given("pdo") =>
       LET base == IF job.kind = "tpdo" THEN \H180 ELSE \H200
           cob == IF job.cob.parsed THEN job.cob.cob ELSE base + \H100 * job.num + job.node
       IN  IF job.cob.parsed /\ job.cob.invalid THEN out.mappings = <<>>
           ELSE /\ DOMAIN out.mappings = {cob}
                /\ out.mappings[cob][1] = job.num + 1
                /\ DOMAIN out.values[cob] = DOMAIN job.mapped
                /\ \A n \in DOMAIN job.mapped :
                     WholeBytes(job.mapped, n) /\ OnByteBoundary(job.mapped, n) =>
                       out.values[cob][n] = PdoNumber(job.mapped, n, job.data)
                /\ ~job.cob.parsed =>
                     classify_frame(cob) = [kind |-> job.kind, num |-> job.num + 1, node |-> job.node]

(* However often and in whichever order the signals of a payload are edited, from the   *)
(* transmit database or from the signal panel, each reads as the representable value    *)
(* nearest to the last one written to it, and no edit disturbs another signal.  A typed  *)
(* SDO value is either sent so that it reads back or refused, at every limit of a type. *)
(* A write typed in the TUI carries its number in as many bytes as its digits make, and  *)
(* Read all asks for the sub-indices of the object once and in order, whatever else is   *)
(* typed and answered meanwhile.  It goes on as long as the read it waits for is not     *)
(* swallowed nor replaced by another one of that node, and ends early only after an      *)
(* abort.                                                                                *)
WrittenReadsBack ==
  /\ job.op = "edit" => \A n \in DOMAIN job.sigs : decode_signal(job.sigs[n], job.frame) = job.wanted[n]
  /\ Given("value") =>
       LET n == job.text.number
           signed == job.type \in {"I8", "I16"}
           fits == CASE job.type = "bool" -> n \in 0..1
                     [] job.type = "U8" -> n \in 0..255
                     [] job.type = "I8" -> n \in -128..127
                     [] job.type = "U16" -> n \in 0..65535
                     [] job.type = "I16" -> n \in -32768..32767
       IN  /\ out.ok => out.value = n
           /\ out.ok <=> fits /\ (job.text.radix = 16 => job.type \in {"U8", "U16"})
  /\ Given("typed") /\ out # NoCommand /\ job.kind = "SdoWrite" =>
       FromLe(out.data) = job.parts[4].hex /\ Len(out.data) = (job.parts[4].digits + 1) \div 2
  /\ job.op = "scan" =>
       /\ \A n \in DOMAIN job.asked : job.asked[n] = n - 1
       /\ Len(job.asked) <= job.max + 1
       /\ job.sent = <<>> /\ ~job.lost => job.scan = NoScan
       /\ job.scan = NoScan /\ job.aborts = 0 /\ job.asked # <<>> => Len(job.asked) = job.max + 1

(* Each adapter runs the bus at exactly the rate of the drop-down or refuses it; only    *)
(* 800 kbit/s is beyond the clock of the KCAN dongle.                                    *)
OffersAreExact(baud, offer) ==
  /\ IF baud = 800000 THEN offer.kcan = Refusal
     ELSE /\ offer.kcan.brp * (1 + offer.kcan.tseg1 + offer.kcan.tseg2) * baud = ClockHz
          /\ offer.kcan.brp \in 1..512
  /\ LET quanta == 3 + (offer.apex.btr1 % 16) + (offer.apex.btr1 \div 16)
       IN  (offer.apex.btr0 + 1) * quanta * baud = 24000000

(* What one side encodes the other decodes: the observer reads the master's XCP commands *)
(* in the negotiated byte order, host and dongle agree on every field of a KCAN frame,   *)
(* an Apex record carries identifier, format and payload and is never taken for the      *)
(* end-of-reset marker, a frame crosses either adapter and comes back as an echo as it   *)
(* was, each adapter gets a bit rate it can run at exactly, and an NMT command or a      *)
(* heartbeat names the same node state.                                                  *)
PeersUnderstand ==
  /\ Given("xcp") =>
       /\ \A f \in DOMAIN out : out[f] = job.c[f]
       /\ DOMAIN job.c \ DOMAIN out \subseteq {"key", "data"}
  /\ Given("connect") =>
       /\ <<out.order, out.max_cto, out.max_dto>> = <<job.order, 8, job.max_dto>>
       /\ out.granularity = 2^(job.granularity \div 2)
  /\ Given("kcan") => out = job.frame
  /\ Given("apex") =>
       /\ out # <<>>
       /\ <<out.id, out.extended, out.rtr, out.dlc>> = <<job.id, job.extended, job.rtr, Min({job.dlc, 8})>>
       /\ out.data = (IF job.rtr THEN Zeros(8) ELSE [k \in 1..8 |-> IF k <= job.dlc THEN job.data[k] ELSE 0])
  /\ Given("bus") => /\ {out.received, out.apex} = {job.frame}
                     /\ ~job.frame.remote => {out.wire, out.echo} = {job.frame}
  /\ Given("rate") => OffersAreExact(job.baud, out)
  /\ Given("nmt") => out = <<job.cmd, job.target>>
  /\ Given("beat") => out = <<job.state>>

(* The entry a key has in an EDS file is made of the fields of the last section of that  *)
(* name that has a ParameterName, and of no other section.                               *)
EdsEntry(file, key) ==
  LET After(i) == {j \in i + 1..Len(file) : file[j].kind = "section"}
      Body(i) == i + 1..(IF After(i) = {} THEN Len(file) ELSE Min(After(i)) - 1)
      In(i, f) == {j \in Body(i) : file[j].kind = "field" /\ file[j].field = f}
      Named == {i \in DOMAIN file : /\ file[i].kind = "section" /\ file[i].key = key
                                    /\ In(i, "parametername") # {}}
      i == Max(Named)
  IN  IF Named = {} THEN <<>>
      ELSE [name |-> file[Max(In(i, "parametername"))].value,
            type |-> IF In(i, "datatype") = {} THEN "unknown" ELSE "U8",
            default |-> NoDefault]

(* The objects of the blocks of an A2L file that have an address. *)
A2lObjects(blocks) ==
  LET Has(b) == b.kind \in Keywords /\ b.at \in DOMAIN A2lAddresses IN
  [n \in DOMAIN SelectSeq(blocks, Has) |->
     LET b == SelectSeq(blocks, Has)[n] IN
     [name |-> b.name, type |-> b.type, address |-> A2lAddresses[b.at],
      characteristic |-> b.kind = "CHARACTERISTIC"]]

(* Days since 1970 by the calendar. *)
Days(y, m, d) ==
  LET Leap(x) == x % 4 = 0 /\ (x % 100 # 0 \/ x % 400 = 0)
      Length(k) == CASE k = 2 -> (IF Leap(y) THEN 29 ELSE 28) [] k \in {4, 6, 9, 11} -> 30 [] OTHER -> 31
  IN  365 * (y - 1970) + Cardinality({x \in 1970..y - 1 : Leap(x)})
      + MapThenSumSet(Length, 1..m - 1) + d - 1

(* A log that is replayed is the beginning of what was written, all of it if the program *)
(* ended in order; if it died, the entries that were still in the buffer are missing,    *)
(* fewer than a flush takes (see LogIsImmediate).  Its frames come by their time stamps, *)
(* as written where these are equal; and however the replay is stopped, moved and sped   *)
(* up, the table has for each identifier the latest frame of those before the position,  *)
(* counted once each.                                                                    *)
LogIsReplayed(log, sent, r) ==
  LET n == Len(log.disk)
      frames == SelectSeq(SubSeq(sent, 1, n), LAMBDA e : "id" \in DOMAIN e)
      kept == SubSeq(frames, 1, Min({MaxFrames, Len(frames)}))
      Of(id) == {k \in 1..r.pos : r.frames[k].id = id}
  IN  /\ log.disk = SubSeq(sent, 1, n) /\ Len(sent) - n < (IF log.crashed THEN FlushEntries ELSE 1)
      /\ Len(r.frames) = Len(kept)
      /\ \A e \in ToSet(kept) : \E f \in ToSet(r.frames) : <<f.ts, f.id, f.bytes>> = <<e.ts, e.id, e.raw>>
      /\ \A k \in 1..Len(r.frames) - 1 :
           LET f == r.frames[k]
               g == r.frames[k + 1]
           IN  f.ts < g.ts \/ (f.ts = g.ts /\ f.bytes[1] < g.bytes[1])
      /\ DOMAIN r.rows = {r.frames[k].id : k \in 1..r.pos}
      /\ \A id \in DOMAIN r.rows :
           r.rows[id] = [bytes |-> r.frames[Max(Of(id))].bytes, is_tx |-> id = 1,
                         count |-> Cardinality(Of(id))]

(* The blocks given are the whole blocks at the start of the file, in order; a file cut  *)
(* behind the header of a block is refused.                                              *)
ImageIsRead(sizes, iter) ==
  LET First(n) == Len(ImageOf(SubSeq(sizes, 1, n)))
      whole == Max({n \in 0..Len(sizes) : First(n) <= Len(iter.file)})
      rest == Len(iter.file) - First(whole)
      got == iter.blocks
  IN  /\ \A n \in DOMAIN got : got[n] = [block_num |-> n, flash_addr |-> 100 + n,
                                         raw |-> BlockWords(n, sizes[n])]
      /\ iter.end = "no" => Len(got) <= whole
      /\ iter.end # "no" => Len(got) = whole
      /\ iter.end = "invalid" => rest >= HeaderSize
      /\ iter.end = "none" => rest < HeaderSize

(* A release is offered iff both versions can be read and it is later in their order, as *)
(* one number to the base 256; a download only of the platform the program runs on.      *)
ReleaseIsNewer(j, offer) ==
  LET Readable(t) == Len(t) = 3 /\ \A n \in 1..3 : t[n] \in 0..255
      Number(t) == 65536 * t[1] + 256 * t[2] + t[3]
  IN  IF Readable(j.tag) /\ Readable(j.built) /\ Number(j.tag) > Number(j.built)
      THEN /\ offer.version = j.tag
           /\ offer.download \in {"none", j.platform}
      ELSE offer = NoRelease

(* A file yields what it declares: the entries of an EDS file are made of their own      *)
(* sections, an A2L address is the first object declared at it, blocks without an        *)
(* address or of another kind hide no later one, and a frame is decoded by the first     *)
(* loaded DBC file that has its identifier.  What has reached the disk of a session's    *)
(* log is replayed as it was written, in the order of a calendar that knows the lengths  *)
(* of months and years; a firmware file gives its whole blocks, and a release is offered *)
(* only if it is newer.                                                                  *)
FilesAreRead ==
  /\ job.op = "image" => ImageIsRead(job.sizes, job.iter)
  /\ Given("release") => ReleaseIsNewer(job, out)
  /\ job.op = "log" /\ job.replay # <<>> => LogIsReplayed(job.log, job.sent, job.replay)
  /\ Given("date") => out = Days(job.y, job.m, job.d)
  /\ Given("eds") => \A key \in {<<1, 0>>, <<1, 2>>} :
       (IF key \in DOMAIN out THEN out[key] ELSE <<>>) = EdsEntry(job.file, key)
  /\ Given("a2l") => \A a \in {1, 2} :
       LET at == SelectSeq(A2lObjects(job.blocks), LAMBDA o : o.address = a) IN
       out[a].object = IF at = <<>> THEN <<>> ELSE at[1]
  /\ Given("dbc") =>
       LET has == {n \in 1..2 : \E m \in ToSet(job.files[n].messages) : m.id.num = job.id} IN
       IF has = {} THEN out = <<>>
       ELSE /\ out.source = <<"first", "second">>[Min(has)]
            /\ out.message = out.source
            /\ \A n \in DOMAIN out.values : out.values[n].raw = job.data[1] % 8

(* "Extract bit_length bits starting at bit_offset" (canopen/pdo.rs): an object of whole *)
(* bytes has the value of its bits also behind one of a single bit.  Does not hold: it   *)
(* is read from the byte its first bit falls in.                                         *)
PdoBitsAreTrue ==
  Given("pdo") => \A cob \in DOMAIN out.values : \A n \in DOMAIN job.mapped :
    WholeBytes(job.mapped, n) => out.values[cob][n] = PdoNumber(job.mapped, n, job.data)

(* "read all sub-indices" (tui/mod.rs): a scan comes to its end.  Does not hold: a read  *)
(* of the same node that is typed meanwhile replaces the one the scan waits for.         *)
ReadAllEnds == job.op = "scan" /\ job.sent = <<>> /\ job.swallowed = 0 => job.scan = NoScan

(* "Each line is a self-contained JSON object flushed immediately to disk"               *)
(* (.readme/jsonl-format.md): a log that is loaded has every entry.  Does not hold:      *)
(* entries are written in groups, and those of the last one are lost with the process.   *)
LogIsImmediate == job.op = "log" /\ job.replay # <<>> => job.log.disk = job.sent

(* "first-wins for conflicts" (dbc/mod.rs, merge_databases): a value description comes   *)
(* from the first loaded file that describes the raw value.  Does not hold: the tables   *)
(* are merged with extend, and the last file wins.                                       *)
FirstDescriptionWins ==
  Given("dbc") /\ out # <<>> =>
    \A n \in DOMAIN out.values :
      LET raw == out.values[n].raw
          Describes(f) == \E d \in ToSet(f.descs) : d.id.num = job.id /\ raw \in DOMAIN d.texts
          which == {m \in 1..2 : Describes(job.files[m])}
      IN  which # {} => out.values[n].text = <<"first", "second">>[Min(which)]

(* "derive the actual bitrate and display it" (ep0_handler.rs, control_out): the rate    *)
(* the dongle displays is the one its controller runs at.  Does not hold: the controller *)
(* stays at 250 kbit/s.                                                                  *)
DisplayedRateIsActual ==
  Given("rate") /\ out.dongle # Refusal => out.dongle.shown = out.dongle.bus
=============================================================================
