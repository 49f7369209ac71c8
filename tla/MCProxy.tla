------------------------------ MODULE MCProxy ------------------------------
EXTENDS Proxy

Req(method, minor, te, cl, conn, expect, odd) ==
  [method |-> method, minor |-> minor, te |-> te, cl |-> cl, conn |-> conn, expect |-> expect, odd |-> odd]

MCRequests == {
  Req("GET", 1, "none", -1, "none", FALSE, "no"),
  Req("GET", 0, "none", -1, "keep-alive", FALSE, "no"),
  Req("HEAD", 1, "none", -1, "none", FALSE, "no"),
  Req("PUT", 0, "none", 2, "none", FALSE, "no"),
  Req("PUT", 1, "chunked", -1, "none", TRUE, "no"),
  Req("PUT", 1, "chunked", 1, "none", FALSE, "no"),
  Req("GET", 1, "none", -1, "none", FALSE, "huge") }

Resp(before, status, te, cl, n) == [before |-> before, status |-> status, te |-> te, cl |-> cl, n |-> n]

MCResponses == {
  Resp(<<>>, 200, "none", 1, 1),
  Resp(<<103>>, 200, "chunked", -1, 1),
  Resp(<<>>, 200, "none", -1, 1),
  Resp(<<>>, 304, "none", 1, 1),
  Resp(<<>>, 200, "chunked", 1, 1),
  Resp(<<>>, 101, "none", -1, 0) }

=============================================================================
