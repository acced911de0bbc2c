------------------------------- MODULE MCFat16 -------------------------------
(***************************************************************************)
(* A volume for TLC: sectors of four bytes, two entries of the table or of *)
(* a directory in each, clusters of two sectors.  /bin has two clusters    *)
(* (2, 5), and /bin/init, whose entry is in the second of them, has three  *)
(* (3, 7, 4) of which the last is not full; /init is another file.         *)
(***************************************************************************)
EXTENDS Fat16, TLC

Part(a, l) == [active |-> a, start_lba |-> l]
TheTables == {<<Part(FALSE, 20), Part(TRUE, 1), Part(FALSE, 1), Part(TRUE, 20)>>,
              <<Part(TRUE, 20), Part(TRUE, 1), Part(FALSE, 0), Part(FALSE, 0)>>,
              <<Part(FALSE, 1), Part(FALSE, 0), Part(FALSE, 0), Part(FALSE, 0)>>}

TheBpb == [sec_per_clus |-> 2, rsvd_sec_cnt |-> 1, num_fats |-> 2,
           sec_per_fat_16 |-> 4, root_ent_cnt |-> 3]

TheVolumes == (1 :> [fat16 |-> TRUE, bpb |-> TheBpb]) @@ (20 :> [fat16 |-> FALSE, bpb |-> TheBpb])

Mark == 15
TheFat == [c \in 0 .. 7 |-> CASE c = 2 -> 5 [] c = 3 -> 7 [] c = 7 -> 4 [] OTHER -> Mark]

TheInit == [name |-> "init", dir |-> FALSE, clus |-> 3, size |-> 19]
Init2   == [name |-> "init", dir |-> FALSE, clus |-> 6, size |-> 3]
Readme  == [name |-> "readme", dir |-> FALSE, clus |-> 6, size |-> 8]
Bin     == [name |-> "bin", dir |-> TRUE, clus |-> 2, size |-> 0]

TheDirectory ==
  (10 :> <<Readme, Bin>>) @@ (11 :> <<Init2>>) @@ (12 :> <<Readme>>) @@ (18 :> <<TheInit>>)

ThePaths == {<<"init">>, <<"bin", "init">>, <<"bin", "none">>, <<"readme", "init">>,
             <<"none">>, <<"bin", "long">>}

TheReads == [op : {"read"}, offset : {0, 3, 8}, size : {1, 5, 19}]
            \cup {[op |-> "read", offset |-> 19, size |-> 1], [op |-> "read", offset |-> 3, size |-> 0]}
=============================================================================
