---------------------------- MODULE MCDiffTesting ----------------------------
(* Instances of DiffTesting for TLC: three of the clients, of which one may     *)
(* deviate and one may not be installed, a case of two blocks of which either   *)
(* may not be decompressed, and a second run over the same directory.           *)
EXTENDS DiffTesting
SomeTools == <<"lodestar", "prysm", "teku">>
TwoBlocks == { <<>>, <<0>>, <<1>>, <<0, 1>> }
AllButOne == { {"lodestar", "prysm", "teku"}, {"prysm", "teku"} }
AllConfigs ==
    { c \in Config : /\ c.kind # "blocks" => c.workflow = "independent" /\ c.format = "pre"
                     /\ c.workflow = "independent" => c.format = "pre" }
=============================================================================
