---------------------------- MODULE MCProxyCapture ----------------------------
(* Two or three concurrent requests for ProxyCapture, whose clients may leave. *)
EXTENDS ProxyCapture

Three == {"a", "b", "c"}
Two == {"a", "b"}
==============================================================================
