------------------------------ MODULE MCIpInfo ------------------------------
(***************************************************************************)
(* Two addresses, alone and in either order in a report, and a report      *)
(* without addresses.                                                      *)
(***************************************************************************)
EXTENDS IpInfo

CONSTANTS a1, a2

SomeQueries == {<<>>, <<a1>>, <<a1, a2>>, <<a2, a1>>}
==============================================================================
