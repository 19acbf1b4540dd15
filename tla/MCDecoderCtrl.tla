--------------------------- MODULE MCDecoderCtrl ----------------------------
(***************************************************************************)
(* Instances of DecoderCtrl for TLC.  The objects other than the head of   *)
(* the list are interchangeable, and so are the threads of each kind and   *)
(* the files.                                                              *)
(***************************************************************************)
EXTENDS DecoderCtrl, TLC

Symmetric ==
  Permutations(Clients) \cup Permutations(Admins) \cup Permutations(Ids)
    \cup Permutations(Objects \ {Root})

EveryRequest == Decode \cup Info
=============================================================================
