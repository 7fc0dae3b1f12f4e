--------------------------- MODULE MC_MySQLServer ---------------------------
(***************************************************************************)
(* The MySQL server with two connections, one change of the credentials    *)
(* and sequence numbers modulo 4, so that replies wrap around.             *)
(***************************************************************************)
EXTENDS MySQLServer

\* Clients that know everything, no password, or no name.
SomeLogins == {<<"root", "p">>, <<"root", "">>, <<"", "p">>}
=============================================================================
