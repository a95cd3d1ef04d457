------------------------------ MODULE MCRuntime ------------------------------
(* Two signals, two deliveries and two requests at a time: a second stop    *)
(* beside the first, a handler that begins while another is awaited, and a  *)
(* request that ends while another runs.                                    *)
EXTENDS Runtime
=============================================================================
