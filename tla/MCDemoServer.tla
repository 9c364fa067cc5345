----------------------------- MODULE MCDemoServer -----------------------------
(***************************************************************************)
(* One computation of each assignment mode, with two devices.              *)
(***************************************************************************)
EXTENDS DemoServer

CONSTANTS c1, c2

MCMode == c1 :> "single" @@ c2 :> "multiple"
MCTaskName == c1 :> "train" @@ c2 :> "evaluate"
MCNumberOfClients == c1 :> 1 @@ c2 :> 2
=============================================================================
