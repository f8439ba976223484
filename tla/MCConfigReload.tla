--------------------------- MODULE MCConfigReload ---------------------------
(* One pair of texts does not resolve: the short config with the long stations. *)
EXTENDS ConfigReload

CONSTANTS a, b

MCTexts == {a, b}
MCLong == {b}
MCResolving == {<<a, a>>, <<b, a>>, <<b, b>>}
=============================================================================
