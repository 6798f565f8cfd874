------------------------------- MODULE BlockFile -------------------------------
(***************************************************************************)
(* The block iterator of bbd (bin/bbd/file.rs): a firmware file is blocks  *)
(* one after the other, each a header with number, address and size, the   *)
(* data and a CRC.  A file is a sequence of words; a size is in words.     *)
(***************************************************************************)
EXTENDS Integers, Sequences

HeaderSize == 3
CrcSize == 1

\* The iterator: what of the file is read, the blocks given, and how it ended.
open(file) == [file |-> file, at |-> 0, blocks |-> <<>>, end |-> "no"]

\* Mutant: the size of a block is taken to include its CRC.
BlockSizeWithCrc(size) == HeaderSize + size

BlockSize(size) == HeaderSize + size + CrcSize

\* Less than a header is the end of the file; less than a block is an error.
next(it) ==
  LET rest == SubSeq(it.file, it.at + 1, Len(it.file))
      size == BlockSize(rest[3])
  IN  IF Len(rest) < HeaderSize THEN [it EXCEPT !.end = "none"]
      ELSE IF Len(rest) < size THEN [it EXCEPT !.end = "invalid"]
      ELSE [it EXCEPT !.at = @ + size,
                      !.blocks = Append(@, [block_num |-> rest[1], flash_addr |-> rest[2],
                                            raw |-> SubSeq(rest, 1, size)])]
=============================================================================
