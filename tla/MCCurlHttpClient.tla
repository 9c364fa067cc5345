-------------------------- MODULE MCCurlHttpClient --------------------------
(* One response of known length and one that is sent in chunks.            *)
EXTENDS CurlHttpClient

MCAnswers == {[code |-> 200, length |-> l, chunks |-> 2, encoded |-> FALSE] : l \in {2, NoLength}}
=============================================================================
