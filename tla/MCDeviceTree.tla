---------------------------- MODULE MCDeviceTree ----------------------------
(* Two names, of three and four bytes, so that one of them needs padding.  *)
EXTENDS DeviceTree

MCNames == {"ab", "abc"}
MCNameSize == [n \in MCNames \cup {Root} |-> CASE n = "/" -> 2 [] n = "ab" -> 3 [] n = "abc" -> 4]
MCPaths == {<<"ab">>, <<"abc">>, <<"ab", "abc">>}
=============================================================================
