------------------------------ MODULE MCSecMem ------------------------------
(***************************************************************************)
(* Bounded instances of SecMem.                                            *)
(***************************************************************************)
EXTENDS SecMem

\* The usual process: not FIPS, not setuid, flags left alone.
PlainStart == {[fips |-> FALSE, setuid_root |-> FALSE]}
NoFlagSets == {}

\* Every way to start and every combination of flags.
AllStarts   == [fips : BOOLEAN, setuid_root : BOOLEAN]
AllFlagSets == [susp : BOOLEAN, nolock : BOOLEAN, nodrop : BOOLEAN]
=============================================================================
