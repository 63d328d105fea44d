------------------------ MODULE MCInferenceGateway ------------------------
(* Two models, two requests, and a budget of an hour.                      *)
EXTENDS InferenceGateway
=============================================================================
