---------------------------- MODULE HttpFraming ------------------------------
(***************************************************************************)
(* parseHeaderFraming and shouldForceCloseForHttp of server/proxyServer.js *)
(* as operators on the header lines of a request.                          *)
(*                                                                         *)
(* A header line is a record: its name ("malformed" for a line that is not *)
(* name, colon, value, or whose name is empty, padded or not a token), the *)
(* comma separated tokens of its value in lower case ("" for an empty one, *)
(* "?" for one with characters no token has), and for Content-Length the   *)
(* number parseInt makes of it, -1 if it is none, and whether it is        *)
(* written with at most the one space in front.  parseInt is exact up to   *)
(* 2^53; lengths above that are outside the model, for there two that      *)
(* differ may come out equal.                                              *)
(***************************************************************************)
EXTENDS Integers, Sequences, FiniteSets, FiniteSetsExt

HeaderLine == [name : STRING, tokens : Seq(STRING), length : Int, plain : BOOLEAN]

(* STRICT_HTTP_FRAMING, SMART_HTTP_CLOSE, FORCE_CONNECTION_CLOSE.          *)
Configs == [strict : BOOLEAN, smart : BOOLEAN, force : BOOLEAN]

(* The places of the lines with a name.                                    *)
Lines(headers, name) == {i \in DOMAIN headers : headers[i].name = name}

Coded(headers) == Lines(headers, "transfer-encoding")
Sized(headers) == Lines(headers, "content-length")

Several(places) == \E i, j \in places : i # j

(* The last Transfer-Encoding line is the one that is looked at.           *)
TransferEncoding(headers) == headers[Max(Coded(headers))].tokens

Filled(tokens)  == {i \in DOMAIN tokens : tokens[i] # ""}
Chunked(tokens) == {i \in DOMAIN tokens : tokens[i] = "chunked"}

(* invalid: line by line, then the lines of a name together.               *)
InvalidLine(line, strict) ==
  \/ line.name = "malformed"
  \/ line.name = "content-length" /\ (line.length = -1 \/ (strict /\ ~line.plain))

InvalidHosts(headers, strict) ==
  LET hosts == Lines(headers, "host")
  IN  IF strict THEN Several(hosts) ELSE \E i, j \in hosts : headers[i] # headers[j]

(* Lines that give the same number in different spacing are no conflict.   *)
InvalidLengths(headers, strict) ==
  IF strict THEN Several(Sized(headers))
  ELSE \E i, j \in Sized(headers) : headers[i].length # headers[j].length

InvalidCodings(headers, strict) ==
  LET tokens == TransferEncoding(headers)
  IN  /\ Coded(headers) # {}
      /\ \/ Filled(tokens) = {}
         \/ \E i \in DOMAIN tokens : tokens[i] = "?"
         \/ /\ strict
            /\ \/ Several(Coded(headers))
               \/ Filled(tokens) # DOMAIN tokens
               \/ Chunked(tokens) # {Max(Filled(tokens))}

Invalid(headers, strict) ==
  \/ \E i \in DOMAIN headers : InvalidLine(headers[i], strict)
  \/ InvalidHosts(headers, strict)
  \/ InvalidLengths(headers, strict)
  \/ InvalidCodings(headers, strict)

(* The check that follows parseHeaderFraming.                              *)
Conflicting(headers) == Coded(headers) # {} /\ Sized(headers) # {}

Refused(headers, strict) == Invalid(headers, strict) \/ Conflicting(headers)

HasConnectionTEHint(headers) ==
  \E i \in Lines(headers, "connection") :
    {"te", "transfer-encoding"} \cap {headers[i].tokens[j] : j \in DOMAIN headers[i].tokens} # {}

ShouldForceCloseIfLong(method, headers, c) ==
  \/ c.force
  \/ /\ c.smart
     /\ \/ \E i \in Sized(headers) : headers[i].length > 0
        \/ method \notin {"GET", "HEAD", "OPTIONS"}

ShouldForceClose(method, headers, c) ==
  \/ c.force
  \/ /\ c.smart
     /\ \/ Coded(headers) # {}
        \/ \E i \in Sized(headers) : headers[i].length > 0
        \/ Several(Sized(headers))
        \/ HasConnectionTEHint(headers)
        \/ method \notin {"GET", "HEAD", "OPTIONS"}

-----------------------------------------------------------------------------
(* The reference: how those who read the request may find the end of its   *)
(* body.  Each may go by any one of the lines that say something about it; *)
(* a list of codings whose last is not chunked may be taken as ended by    *)
(* the last chunk or by the end of the connection.                         *)
CodedReadings(tokens) ==
  {<<"chunked", 0>> : i \in Chunked(tokens)}
  \cup (IF Filled(tokens) # {} /\ tokens[Max(Filled(tokens))] = "chunked"
        THEN {} ELSE {<<"close", 0>>})

Readings(headers) ==
  (UNION {CodedReadings(headers[i].tokens) : i \in Coded(headers)})
  \cup {<<"length", headers[i].length>> : i \in Sized(headers)}

Ambiguous(headers) == \E a, b \in Readings(headers) : a # b
=============================================================================
