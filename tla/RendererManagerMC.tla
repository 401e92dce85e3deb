------------------------- MODULE RendererManagerMC -------------------------
(* RendererManager with a few users, views and rates. *)
EXTENDS RendererManager
=============================================================================
