-------------------------- MODULE MCProxyFrontend ----------------------------
(* An instance of ProxyFrontend for TLC: every list of at most two header  *)
(* lines out of those that matter to the framing.                          *)
EXTENDS ProxyFrontend, TLC

MCLine(name, tokens, length, plain) ==
  [name |-> name, tokens |-> tokens, length |-> length, plain |-> plain]

MCCodings ==
  {<<"chunked">>, <<"gzip", "chunked">>, <<"chunked", "gzip">>, <<"gzip">>,
   <<"chunked", "chunked">>, <<"", "chunked">>, <<"">>, <<"?">>}

MCLines ==
  {MCLine("transfer-encoding", tokens, 0, TRUE) : tokens \in MCCodings}
  \cup {MCLine("content-length", <<>>, length, TRUE) : length \in {-1, 0, 5}}
  \cup {MCLine("content-length", <<>>, 5, FALSE)}
  \cup {MCLine("host", <<host>>, 0, TRUE) : host \in {"a", "b"}}
  \cup {MCLine("connection", <<"te">>, 0, TRUE), MCLine("malformed", <<>>, 0, TRUE)}

MCHeaders == UNION {[1 .. n -> MCLines] : n \in 0 .. 2}

MCRequests ==
  {[auth |-> auth, line |-> line, method |-> "GET", headers |-> <<>>] :
     auth \in BOOLEAN, line \in BOOLEAN}
  \cup {[auth |-> TRUE, line |-> TRUE, method |-> method, headers |-> headers] :
          method \in {"GET", "POST"}, headers \in MCHeaders}
  \cup {[auth |-> TRUE, line |-> TRUE, method |-> "CONNECT", headers |-> <<>>]}
=============================================================================
