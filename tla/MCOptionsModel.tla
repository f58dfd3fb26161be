--------------------------- MODULE MCOptionsModel ---------------------------
(* A bounded instance of OptionsModel for TLC. *)
EXTENDS OptionsModel
=============================================================================
