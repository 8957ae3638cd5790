---------------------------- MODULE MCConfigSync ----------------------------
(* Finite instances of ConfigSync for TLC. *)
EXTENDS ConfigSync

CONSTANTS a, b, sealed, h1, h2

TwoReadable == {a, b}
WithSealed == {a, b, sealed}
TwoHosts == {h1, h2}
=============================================================================
