------------------------ MODULE MCGlassesPermission ------------------------
(* Instances of GlassesPermission: composite glasses and simple ones.      *)
EXTENDS GlassesPermission

CONSTANTS d1, d2, d3

\* XREAL Light and Grawoow are composite, the others a single device.
CompositeAndSimple == {<<d1, d2>>, <<d3>>}
TwoSimple == {<<d1>>, <<d3>>}
=============================================================================
