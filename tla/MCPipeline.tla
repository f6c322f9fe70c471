----------------------------- MODULE MCPipeline -----------------------------
(***************************************************************************)
(* Small instances of Pipeline. The generator's step is longer than the    *)
(* delay, so an event that is overtaken is late; those of publish_timed    *)
(* are closer than the delay.                                              *)
(***************************************************************************)
EXTENDS Pipeline

Longer == {Delay + 5}

=============================================================================
