----------------------------- MODULE MCRouting -----------------------------
(* Every request of up to five pieces of a path, with a query that has all, *)
(* some or none of what a page of an account needs.                         *)
EXTENDS Routing

MCHexTexts == {"ab", "12"}
MCSizeTexts == {"12", "12x"}
MCUint32Texts == {"12"}
MCListTexts == {"[(1;2)]"}
MCTexts == MCHexTexts \cup MCSizeTexts \cup MCListTexts \cup
           {"js", "simple_form.js", "auth", "nonce", "account", "feature", "execute"}

MCPaths ==
  {path \in UNION {[1..n -> MCTexts \cup {"/"}] : n \in 0..4} :
     \A i \in 1..Len(path) - 1 : path[i] = "/" \/ path[i + 1] = "/"}

\* Longer ones: what begins with a slash and a module that takes arguments.
MCLongPaths ==
  {<<"/", module>> \o path :
     module \in {"feature", "execute"},
     path \in {p \in [1..5 -> {"ab", "12", "/"}] : \A i \in 1..4 : p[i] = "/" \/ p[i + 1] = "/"}}

MCQueries ==
  {<<>>, <<<<"limit", "12">>>>, <<<<"page", "12x">>, <<"limit", "12">>>>,
   <<<<"page", "ab">>, <<"limit", "12">>, <<"", "12">>, <<"page", "12">>>>}

MCRequests ==
  [method : {"GET", "POST", "OPTIONS"}, path : MCPaths \cup MCLongPaths, query : MCQueries]
=============================================================================
