---------------------------- MODULE MCLLMGateway ----------------------------
(* The instances of LLMGateway for TLC need no definition beyond the numbers *)
(* of their .cfg files.                                                      *)
EXTENDS LLMGateway
=============================================================================
