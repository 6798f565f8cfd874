------------------------------ MODULE TuiCommands ------------------------------
(***************************************************************************)
(* Commands typed in the TUI (tui/mod.rs): how a line becomes a command,   *)
(* and the scan of all sub-indices of an object, which sends a read for    *)
(* each answer it has waited for.                                          *)
(*                                                                         *)
(* A word of the line is a record: its text, the number it is in base ten  *)
(* and in base sixteen, or -1, and its hexadecimal digits.                 *)
(***************************************************************************)
EXTENDS Integers, Sequences, FiniteSetsExt, SequencesExt

InputKinds == {"Nmt", "SdoRead", "SdoWrite"}
NoCommand == <<>>
NoScan == <<>>

NmtNames ==
  [start |-> "start", stop |-> "stop", pre_op |-> "pre_op", preop |-> "pre_op",
   pre_operational |-> "pre_op", reset_node |-> "reset_node", reset |-> "reset_node",
   reset_comm |-> "reset_comm", reset_communication |-> "reset_comm"]

SdoRead(node, index, sub) == [cmd |-> "SdoRead", node |-> node, index |-> index, sub |-> sub]

\* As many bytes as the digits typed, at least one and at most eight.
BytesTyped(digits) == Min({8, Max({1, (digits + 1) \div 2})})

\* Any byte is taken for a node number.
parse_command(kind, parts) ==
  LET object == /\ Len(parts) >= 3
                /\ parts[1].dec \in 0..255 /\ parts[2].hex \in 0..65535 /\ parts[3].dec \in 0..255
  IN  CASE kind = "Nmt" /\ Len(parts) >= 2 /\ parts[1].dec \in 0..255
             /\ parts[2].text \in DOMAIN NmtNames ->
             [cmd |-> "SendNmt", node |-> parts[1].dec, nmt |-> NmtNames[parts[2].text]]
        [] kind = "SdoRead" /\ object -> SdoRead(parts[1].dec, parts[2].hex, parts[3].dec)
        [] kind = "SdoWrite" /\ object /\ Len(parts) >= 4 /\ parts[4].hex >= 0 ->
             [cmd |-> "SdoWrite", node |-> parts[1].dec, index |-> parts[2].hex, sub |-> parts[3].dec,
              data |-> [k \in 1..BytesTyped(parts[4].digits) |-> (parts[4].hex \div 256^(k - 1)) % 256]]
        [] OTHER -> NoCommand

ReadAllTyped(kind, parts) ==
  /\ kind = "SdoRead" /\ Len(parts) = 3 /\ parts[3].text \in {"a", "A"}
  /\ parts[1].dec \in 0..255 /\ parts[2].hex \in 0..65535

\* The Enter key: a scan or a command, and what becomes of the scan under way.
Entered(kind, parts, scan) ==
  IF ReadAllTyped(kind, parts)
  THEN [send |-> SdoRead(parts[1].dec, parts[2].hex, 0),
        scan |-> [node |-> parts[1].dec, index |-> parts[2].hex, next_sub |-> 0, max_sub |-> -1]]
  ELSE [send |-> parse_command(kind, parts), scan |-> scan]

\* An SDO event while a scan is under way: the answer it waits for sends the next
\* read.  The value of sub-index 0 that is no number, an abort included, is 0.
Scanned(scan, event) ==
  LET expected == /\ scan # NoScan
                  /\ <<event.node, event.index, event.sub>> = <<scan.node, scan.index, scan.next_sub>>
      max == IF scan.max_sub = -1 THEN event.value ELSE scan.max_sub
      next == scan.next_sub + 1
  IN  IF ~expected THEN [send |-> NoCommand, scan |-> scan]
      ELSE IF scan.next_sub >= max THEN [send |-> NoCommand, scan |-> NoScan]
      ELSE [send |-> SdoRead(scan.node, scan.index, next),
            scan |-> [scan EXCEPT !.next_sub = next, !.max_sub = max]]
=============================================================================
