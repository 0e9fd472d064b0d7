---------------------------- MODULE MCApprovals ----------------------------
(***************************************************************************)
(* Instances of the approval store for TLC: two versions of a script, of   *)
(* which the first may come with metadata.                                 *)
(***************************************************************************)
EXTENDS ApprovalsSerial

PlainPackages == {<<"v1", NoFile>>, <<"v2", NoFile>>}
MetaPackages  == {<<"v1", "m1">>, <<"v2", NoFile>>}
=============================================================================
