--------------------------- MODULE MCApiExchange ---------------------------
(* Every message that a call of the service can carry. *)
EXTENDS ApiExchange, ApiService
MCTypes == Carried
=============================================================================
