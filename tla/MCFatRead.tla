------------------------------ MODULE MCFatRead ------------------------------
(***************************************************************************)
(* Boot sectors for FatRead: every type of FAT with one or two copies and  *)
(* clusters of one and two sectors, FATs that are just large enough and a  *)
(* sector short, fields that are not allowed, and products that wrap.      *)
(***************************************************************************)
EXTENDS FatRead

MCBootSectors ==
    [known : BOOLEAN, fsz : {1, 2, 3, 6, 33}, n_fats : {0, 1, 2}, csize : {0, 1, 2, 3},
     n_rootdir : {0, 1, 2}, tsect : {2, 5, 6, 8, 11, 15}, nrsv : {0, 1}, root : {2}]

MCExBootSectors ==
    [known : BOOLEAN, tsect : {3, 5, 40}, fsz : {1}, n_fats : {1, 2}, csize : {0, 1, 2, 32},
     nclst : {0, 1, 3, 4}, dataofs : {0, 2}, fatofs : {1}, root : {2}]
=============================================================================
