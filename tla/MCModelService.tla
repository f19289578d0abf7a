--------------------------- MODULE MCModelService ---------------------------
(***************************************************************************)
(* ModelService on small instances for TLC.                                *)
(***************************************************************************)
EXTENDS ModelService, TLC

Config(kind, smoke, imageOnly) == [kind |-> kind, smoke |-> smoke, imageOnly |-> imageOnly]

\* The default of each kind of model, and a vision service smoke-tested by force.
UsualConfigs == {Config("llm", TRUE, FALSE), Config("vlm", FALSE, FALSE),
                 Config("vlm", FALSE, TRUE), Config("vlm", TRUE, FALSE)}
=============================================================================
