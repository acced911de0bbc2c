------------------------------ MODULE MCPaging ------------------------------
(***************************************************************************)
(* Instances of Paging for TLC: a program of one page whose file ends too   *)
(* early, a program of two, one that turns out to have no entry point when  *)
(* it is loaded, a missing file, and a program two segments of which share  *)
(* a page.  Segments begin and end inside pages, and so do the parts of     *)
(* them that the file has.                                                  *)
(***************************************************************************)
EXTENDS Paging

Part(vaddr, offset, filesz, memsz) ==
  [vaddr |-> vaddr, offset |-> offset, filesz |-> filesz, memsz |-> memsz]
File(segs, size, entry) == [segs |-> segs, size |-> size, entry |-> entry]

One     == File(<<Part(0, 1, 2, 3)>>, 2, TRUE)
Two     == File(<<Part(1, 0, 3, 5)>>, 3, TRUE)
NoEntry == File(<<Part(1, 1, 3, 5)>>, 4, FALSE)
Missing == File(<< >>, 0, FALSE)
Shared  == File(<<Part(4, 0, 1, 1), Part(1, 2, 3, 3)>>, 5, TRUE)

AllImages == {One, NoEntry, Missing, Shared}
TwoPages  == {Two}

(* The pages of the allocator, and those of them in the kernel area *)
AllPages == 1 .. 17
LowPages == 1 .. 16
=============================================================================
