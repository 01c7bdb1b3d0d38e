------------------------------ MODULE MCFileSys ------------------------------
(* An instance of the file system for TLC.                                   *)
EXTENDS FileSys

MCCdPaths == {<<"a">>, <<"..">>, <<"b", "..">>}
MCPlane   == <<"p1", "p2", "p3", "p4", "p5">>
=============================================================================
