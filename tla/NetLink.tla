-------------------------------- MODULE NetLink --------------------------------
(***************************************************************************)
(* The KCAN adapter over TCP (adapters/kcan_net.rs): the handshake, frames *)
(* that are sealed and numbered by the encryption layer                    *)
(* (kcan-protocol/encrypted.rs) and cut out of a stream of bytes by a      *)
(* reader thread, a write that times out half way, and the end of the      *)
(* connection from either side.  A sealed frame is NetParts parts of the   *)
(* stream, 108 bytes in the code.                                          *)
(***************************************************************************)
EXTENDS Integers, Sequences, SequencesExt

CONSTANTS
  NetParts,    \* parts of a sealed frame
  SeqMax,      \* the last number of a key, u32::MAX in the code
  NetWorlds

\* Who answers at the address, and bounds: connections, frames sent and received,
\* writes cut short, connections reset.
NetWorld ==
  [answers : {"right", "other", "mute", "none"}, sessions : Nat, up : Nat, down : Nat,
   cuts : Nat, resets : Nat]

ASSUME NetConstantsOK ==
  NetParts \in Nat \ {0} /\ SeqMax \in Nat \ {0} /\ NetWorlds \subseteq NetWorld

VARIABLES
  net,        \* the adapter: "closed", "greeting", "open", "joining"
  key,        \* the key pair generated for the present connection
  conn,       \* the connection: "open", "fin", "reset", "shut", and "gone" when the peer
              \* has vanished without a word
  up, down,   \* the two streams
  hostLayer, peerLayer, \* SessionState of the two ends
  netReader, inBuf,     \* net_reader and its buffer
  netFrames,  \* the channel of received frames
  given,      \* frames recv has returned
  wrote,      \* frames the device has sent
  sentOk,     \* frames send has taken
  accepted,   \* frames the device has taken
  netCount,   \* how far the environment is
  netWorld

netVars == <<net, key, conn, up, down, hostLayer, peerLayer, netReader, inBuf, netFrames, given,
             wrote, sentOk, accepted, netCount, netWorld>>

-----------------------------------------------------------------------------
(* Encryption layer *)

Established(k) == [key |-> k, seq |-> 0, last |-> -1]
NoSession == Established(0)

\* Both ends derive one key; the direction is part of the nonce.
Sealed(layer, from, n, kind) ==
  [key |-> layer.key, from |-> from, seq |-> layer.seq, n |-> n, kind |-> kind]

CanEncrypt(layer) == layer.seq < SeqMax
Numbered(layer) == [layer EXCEPT !.seq = @ + 1]

Stream(f) == [k \in 1..NetParts |-> <<f, k>>]

\* The tag fits: the block is one whole frame of this key and direction.
Authentic(layer, from, block) ==
  LET f == block[1][1] IN block = Stream(f) /\ f.key = layer.key /\ f.from = from

Decrypts(layer, from, block) ==
  Authentic(layer, from, block) /\ block[1][1].seq > layer.last

Seen(layer, block) == [layer EXCEPT !.last = block[1][1].seq]

-----------------------------------------------------------------------------
(* open *)

NetInit ==
  /\ net = "closed" /\ key = 0 /\ conn = "shut" /\ up = <<>> /\ down = <<>>
  /\ hostLayer = NoSession /\ peerLayer = NoSession
  /\ netReader = "none" /\ inBuf = <<>> /\ netFrames = <<>>
  /\ given = <<>> /\ wrote = <<>> /\ sentOk = <<>> /\ accepted = <<>>
  /\ netCount = [up |-> 0, down |-> 0, cuts |-> 0, resets |-> 0]
  /\ netWorld \in NetWorlds

\* Connected, the room announced to the relay, the host's public key written.
NetConnect ==
  /\ net = "closed" /\ key < netWorld.sessions
  /\ key' = key + 1
  /\ IF netWorld.answers = "none" THEN UNCHANGED <<net, conn>>
     ELSE net' = "greeting" /\ conn' = "open"
  /\ up' = <<>> /\ down' = <<>> /\ peerLayer' = NoSession
  /\ given' = <<>> /\ wrote' = <<>> /\ sentOk' = <<>> /\ accepted' = <<>>
  /\ UNCHANGED <<hostLayer, netReader, inBuf, netFrames, netCount, netWorld>>

\* External: the device takes the host's key and sends its own.
DeviceGreets ==
  /\ net = "greeting" /\ conn = "open" /\ peerLayer.key # key
  /\ netWorld.answers \in {"right", "other"}
  /\ peerLayer' = Established(key)
  /\ UNCHANGED <<net, key, conn, up, down, hostLayer, netReader, inBuf, netFrames, given, wrote,
                 sentOk, accepted, netCount, netWorld>>

\* The key read is the one of the URI: the session is established, the reader runs.
NetEstablish ==
  /\ net = "greeting" /\ peerLayer.key = key /\ netWorld.answers = "right"
  /\ net' = "open" /\ hostLayer' = Established(key) /\ netReader' = "run" /\ inBuf' = <<>>
  /\ UNCHANGED <<key, conn, up, down, peerLayer, netFrames, given, wrote, sentOk, accepted,
                 netCount, netWorld>>

\* The key is another one, or none was read in time.
NetOpenFails ==
  /\ net = "greeting"
  /\ \/ netWorld.answers # "right"
     \/ conn # "open"
  /\ net' = "closed" /\ conn' = "shut"
  /\ UNCHANGED <<key, up, down, hostLayer, peerLayer, netReader, inBuf, netFrames, given, wrote,
                 sentOk, accepted, netCount, netWorld>>

-----------------------------------------------------------------------------
(* send *)

Writable == conn \in {"open", "gone"}

\* A write that times out leaves its first k parts in the stream; once the peer has
\* closed, a write fails or is lost. What is written to a peer that has vanished waits.
NetSend ==
  /\ net = "open" /\ netCount.up < netWorld.up
  /\ LET n == netCount.up + 1
         frame == Stream(Sealed(hostLayer, "host", n, "tx"))
     IN  IF ~CanEncrypt(hostLayer)
         THEN netCount' = [netCount EXCEPT !.up = n] /\ UNCHANGED <<hostLayer, up, sentOk>>
         ELSE /\ hostLayer' = Numbered(hostLayer)
              /\ \/ /\ Writable /\ up' = up \o frame /\ sentOk' = Append(sentOk, n)
                    /\ netCount' = [netCount EXCEPT !.up = n]
                 \/ /\ Writable /\ netCount.cuts < netWorld.cuts
                    /\ \E k \in 0..NetParts - 1 : up' = up \o SubSeq(frame, 1, k)
                    /\ netCount' = [netCount EXCEPT !.up = n, !.cuts = @ + 1]
                    /\ UNCHANGED sentOk
                 \/ /\ ~Writable /\ sentOk' \in {sentOk, Append(sentOk, n)}
                    /\ netCount' = [netCount EXCEPT !.up = n]
                    /\ UNCHANGED up
  /\ UNCHANGED <<net, key, conn, down, peerLayer, netReader, inBuf, netFrames, given, wrote,
                 accepted, netWorld>>

\* External: the device cuts the stream into frames as the reader does.
DeviceTakes ==
  /\ conn = "open" /\ peerLayer.key = key /\ Len(up) >= NetParts
  /\ LET block == SubSeq(up, 1, NetParts) IN
     IF Decrypts(peerLayer, "host", block)
     THEN accepted' = Append(accepted, block[1][1].n) /\ peerLayer' = Seen(peerLayer, block)
     ELSE UNCHANGED <<accepted, peerLayer>>
  /\ up' = SubSeq(up, NetParts + 1, Len(up))
  /\ UNCHANGED <<net, key, conn, down, hostLayer, netReader, inBuf, netFrames, given, wrote,
                 sentOk, netCount, netWorld>>

-----------------------------------------------------------------------------
(* net_reader *)

\* External: the device sends frames, echoes, status, and one with a bad identifier.
DeviceWrites ==
  /\ conn = "open" /\ peerLayer.key = key /\ netCount.down < netWorld.down
  /\ CanEncrypt(peerLayer)
  /\ \E kind \in {"data", "echo", "status", "bad"} :
       LET n == netCount.down + 1 IN
       /\ down' = down \o Stream(Sealed(peerLayer, "device", n, kind))
       /\ wrote' = Append(wrote, <<n, kind>>)
       /\ netCount' = [netCount EXCEPT !.down = n]
  /\ peerLayer' = Numbered(peerLayer)
  /\ UNCHANGED <<net, key, conn, up, hostLayer, netReader, inBuf, netFrames, given, sentOk,
                 accepted, netWorld>>

\* Mutant: a read that leaves the buffer incomplete is forgotten.
NetReadForgets ==
  /\ netReader = "run" /\ down # <<>>
  /\ \E k \in 1..Len(down) :
       /\ Len(inBuf) + k <= NetParts
       /\ LET block == inBuf \o SubSeq(down, 1, k) IN
          IF Len(block) < NetParts
          THEN inBuf' = <<>> /\ UNCHANGED <<hostLayer, netFrames>>
          ELSE /\ inBuf' = <<>>
               /\ IF Decrypts(hostLayer, "device", block)
                  THEN /\ netFrames' = Append(netFrames, <<block[1][1].n, block[1][1].kind>>)
                       /\ hostLayer' = Seen(hostLayer, block)
                  ELSE UNCHANGED <<hostLayer, netFrames>>
       /\ down' = SubSeq(down, k + 1, Len(down))
  /\ UNCHANGED <<net, key, conn, up, peerLayer, netReader, given, wrote, sentOk, accepted,
                 netCount, netWorld>>

\* A read takes what is there, at most the rest of the buffer; a full buffer is a frame,
\* handed over if it decrypts and discarded if it does not.
NetRead ==
  /\ netReader = "run" /\ down # <<>>
  /\ \E k \in 1..Len(down) :
       /\ Len(inBuf) + k <= NetParts
       /\ LET block == inBuf \o SubSeq(down, 1, k) IN
          IF Len(block) < NetParts
          THEN inBuf' = block /\ UNCHANGED <<hostLayer, netFrames>>
          ELSE /\ inBuf' = <<>>
               /\ IF Decrypts(hostLayer, "device", block)
                  THEN /\ netFrames' = Append(netFrames, <<block[1][1].n, block[1][1].kind>>)
                       /\ hostLayer' = Seen(hostLayer, block)
                  ELSE UNCHANGED <<hostLayer, netFrames>>
       /\ down' = SubSeq(down, k + 1, Len(down))
  /\ UNCHANGED <<net, key, conn, up, peerLayer, netReader, given, wrote, sentOk, accepted,
                 netCount, netWorld>>

\* A read of nothing, or an error. A read that times out, as every one does after the peer
\* has vanished, is repeated.
NetReaderEnds ==
  /\ netReader = "run" /\ down = <<>> /\ ~Writable
  /\ netReader' = "exited"
  /\ UNCHANGED <<net, key, conn, up, down, hostLayer, peerLayer, inBuf, netFrames, given, wrote,
                 sentOk, accepted, netCount, netWorld>>

-----------------------------------------------------------------------------
(* recv and drop *)

Surfaced(frame) == frame[2] \in {"data", "echo"}

\* Status frames are skipped; a bad identifier is an error the session logs and survives.
NetRecv ==
  /\ net = "open" /\ netFrames # <<>>
  /\ netFrames' = Tail(netFrames)
  /\ given' = IF Surfaced(Head(netFrames)) THEN Append(given, Head(netFrames)) ELSE given
  /\ UNCHANGED <<net, key, conn, up, down, hostLayer, peerLayer, netReader, inBuf, wrote, sentOk,
                 accepted, netCount, netWorld>>

\* The socket is shut down, which ends the reader's read; the adapter waits for it.
NetDrop ==
  /\ net' = "joining" /\ conn' = "shut"
  /\ UNCHANGED <<key, up, down, hostLayer, peerLayer, netReader, inBuf, netFrames, given, wrote,
                 sentOk, accepted, netCount, netWorld>>

\* recv reports the end when the frames before it are taken; the session drops the adapter.
NetLost == net = "open" /\ netFrames = <<>> /\ netReader = "exited" /\ NetDrop

\* The window is closed.
NetClose == net = "open" /\ NetDrop

NetJoin ==
  /\ net = "joining" /\ netReader = "exited"
  /\ net' = "closed" /\ netReader' = "none" /\ netFrames' = <<>>
  /\ UNCHANGED <<key, conn, up, down, hostLayer, peerLayer, inBuf, given, wrote, sentOk, accepted,
                 netCount, netWorld>>

\* External: the device closes, or the connection breaks and what is under way is lost, or
\* the device vanishes; that shows only when something written to it is never confirmed.
PeerCloses ==
  /\ net \in {"greeting", "open"}
  /\ \/ /\ conn = "open" /\ netCount.resets < netWorld.resets
        /\ \/ conn' = "fin" /\ UNCHANGED down
           \/ conn' \in {"reset", "gone"} /\ down' = <<>>
        /\ netCount' = [netCount EXCEPT !.resets = @ + 1]
     \/ conn = "gone" /\ up # <<>> /\ conn' = "reset" /\ UNCHANGED <<down, netCount>>
  /\ UNCHANGED <<net, key, up, hostLayer, peerLayer, netReader, inBuf, netFrames, given, wrote,
                 sentOk, accepted, netWorld>>

NetNext ==
  \/ NetConnect \/ DeviceGreets \/ NetEstablish \/ NetOpenFails \/ NetSend \/ DeviceTakes
  \/ DeviceWrites \/ NetRead \/ NetReaderEnds \/ NetRecv \/ NetLost \/ NetClose \/ NetJoin
  \/ PeerCloses

NetFairness ==
  /\ WF_netVars(NetEstablish) /\ WF_netVars(NetOpenFails) /\ WF_netVars(NetRead)
  /\ WF_netVars(NetReaderEnds) /\ WF_netVars(NetRecv) /\ WF_netVars(NetLost) /\ WF_netVars(NetJoin)

-----------------------------------------------------------------------------
(* What the adapter promises *)

\* The session gets the device's frames in their order, each once and without a gap, and
\* an orderly close of the device loses none that came before it; the device gets only
\* frames of the present connection, in order and once, and while no write was cut short
\* exactly those that send took, as far as they have come.
NetFramesAreTrue ==
  LET reported == given \o SelectSeq(netFrames, Surfaced)
      sent == SelectSeq(wrote, Surfaced)
  IN  /\ net = "open" =>
           /\ IsPrefix(reported, sent)
           /\ conn = "fin" /\ netReader = "exited" => reported = sent
      /\ \A i, j \in DOMAIN accepted : i < j => accepted[i] < accepted[j]
      /\ netCount.cuts = 0 => IsPrefix(accepted, sentOk)
=============================================================================
