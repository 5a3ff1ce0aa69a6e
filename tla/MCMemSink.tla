------------------------------ MODULE MCMemSink ------------------------------
(***************************************************************************)
(* The sink, model-checked: MCMemSink.cfg for its promises,                *)
(* MCMemSinkSuberr.cfg for what the comment on `suberr' says.              *)
(***************************************************************************)
EXTENDS MemSink
=============================================================================
