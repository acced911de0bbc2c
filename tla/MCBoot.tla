------------------------------- MODULE MCBoot -------------------------------
(* Instance of Boot: a kernel of up to four sectors for the units from 12  *)
(* on, on disks that lack one thing after the other.                       *)
EXTENDS Boot, TLC

File(name, c) == [name |-> name, fst_clus |-> c]
Seg(t, o, p, f, s) == [type |-> t, offset |-> o, paddr |-> p, filesz |-> f, memsz |-> s]

(* A kernel that ends before unit e, the zeros behind its data included: in *)
(* the middle of a table's area (15, 18 ..), at its end (16) or within the  *)
(* first page of the next one (17)                                          *)
Elf(e) == << Seg("LOAD", 1, 12, 2, 2), Seg("NOTE", 0, 0, 1, 1), Seg("LOAD", 0, 0, 0, 0),
             Seg("LOAD", 3, Smaller(15, e - 1), 1, e - Smaller(15, e - 1)) >>

End == RESERVED + 1
Chains == { <<3, End, End, End>>, <<4, End, End, End>>, <<End, End, 3, End>>,
            <<3, 2, 0, 0>>, <<3, 4, End, End>>, <<0, 0, 0, 0>> }
Fat(c) == [k \in 2 .. RESERVED - 1 |-> IF k - 1 \in DOMAIN c THEN c[k - 1] ELSE 0]

Roots == { << <<File("INIT", 3), File("KERNEL", 2)>>, <<File("KERNEL", 4), File("OTHER", 0)>> >>,
           << <<File("INIT", 3), File("OTHER", 2)>>, <<File("KERNEL00", 2), File("KERNEL", 4)>> >>,
           << <<File("KERNEL", 0), File("KERNEL", 2)>>, <<File("OTHER", 3), File("OTHER", 4)>> >>,
           << <<File("INIT", 3), File("OTHER", 2)>>, <<File("OTHER", 3), File("KERNEL", 2)>> >> }

(* The root directory begins in sector start + 3, and the data 2 behind it *)
Vol(start, root, chain0, e) ==
  [ fat16 |-> TRUE,
    bpb   |-> [rsvd_sec_cnt |-> 1, num_fats |-> 2, sec_per_fat_16 |-> 1, root_ent_cnt |-> 3,
               sec_per_clus |-> 2],
    dir   |-> (start + 3 :> root[1]) @@ (start + 4 :> root[2]),
    fat   |-> Fat(chain0),
    elf   |-> (start + 5 :> Elf(e)) @@ (start + 9 :> Elf(16)) ]
NotFat == [Vol(30, CHOOSE r \in Roots : TRUE, <<3, End, End, End>>, 16) EXCEPT !.fat16 = FALSE]

Part(a, s) == [active |-> a, start_lba |-> s]
Tables == { <<Part(FALSE, 10), Part(TRUE, 10), Part(FALSE, 0), Part(FALSE, 0)>>,
            <<Part(TRUE, 10), Part(FALSE, 30), Part(TRUE, 30), Part(FALSE, 0)>>,
            <<Part(TRUE, 30), Part(TRUE, 10), Part(FALSE, 0), Part(FALSE, 0)>>,
            <<Part(FALSE, 10), Part(FALSE, 30), Part(FALSE, 0), Part(FALSE, 0)>> }

MCDisks == { [parts |-> t, volumes |-> (10 :> Vol(10, r, c, e)) @@ (30 :> NotFat)] :
               t \in Tables, r \in Roots, c \in Chains, e \in {15, 16, 17, 18, 20, 22, 23} }
=============================================================================
