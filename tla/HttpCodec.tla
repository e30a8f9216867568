----------------------------- MODULE HttpCodec ------------------------------
(***************************************************************************)
(* The HTTP messages of the fleet server                                   *)
(* (src/crates/tpt-t-cloud/src/http.rs) and of the console that calls it   *)
(* (src/crates/tpt-t-cli/src/console.rs): a request or a response carries  *)
(* a JSON document, and its bytes arrive one by one.  The server looks at  *)
(* what it has after every byte, and the bytes of another request may      *)
(* follow; the console reads until the server closes the connection.  A    *)
(* word of the head is one byte of the model, and so are "\r", "\n", " "   *)
(* and ":".                                                                *)
(***************************************************************************)
EXTENDS JsonCodec

CONSTANTS
    HttpDocs,       \* the documents that are sent
    HeaderOrders    \* the headers of a client's request, as sequences of lines

VARIABLES
    message,        \* the message under way: its kind, headers and document
    arrived         \* how many of its bytes have arrived

httpVars == <<message, arrived>>

Crlf == <<"\r", "\n">>

\* The content-length line for a body of n bytes, as clients write its name.
LengthLine(name, n) == <<name, ":", " ">> \o Digits(n) \o Crlf

\* send_request, with its headers in any order: clients are not bound to the
\* console's.
RequestText(headers, doc) ==
    LET body == WriteJson(doc)
    IN  <<"POST", " ", "/mcp", " ", "HTTP/1.1">> \o Crlf
        \o FlattenSeq([i \in 1 .. Len(headers) |->
               IF headers[i] = "length" THEN LengthLine("Content-Length", Len(body))
               ELSE <<headers[i], ":", " ", "9">> \o Crlf])
        \o Crlf \o body

\* Response::json, with_body and to_bytes.
ResponseText(doc) ==
    LET body == WriteJson(doc)
    IN  <<"HTTP/1.1", " ", "200", " ", "OK">> \o Crlf
        \o <<"content-type", ":", " ", "application/json">> \o Crlf
        \o LengthLine("content-length", Len(body))
        \o <<"connection", ":", " ", "close">> \o Crlf \o Crlf \o body

Text(m) ==
    IF m.kind = "request" THEN RequestText(m.headers, m.doc) ELSE ResponseText(m.doc)

-----------------------------------------------------------------------------
\* find_subslice
FindSubslice(b, needle) ==
    {p \in 1 .. Len(b) - Len(needle) + 1 : SubSeq(b, p, p + Len(needle) - 1) = needle}

\* to_lowercase of a header's name
Lower(name) == IF name = "Content-Length" THEN "content-length" ELSE name

\* parse::<usize>().unwrap_or(0) of what follows the colon, trimmed.
LengthAt(head, colon) ==
    LET from == SkipWs(head, colon + 1)
        ends == {p \in FindSubslice(head, Crlf) : p > colon}
        value == SubSeq(head, from, IF ends = {} THEN Len(head) ELSE Min(ends) - 1)
    IN  IF value # <<>> /\ Range(value) \subseteq Digit THEN DigitsValue(value) ELSE 0

\* The last content-length line counts, and none at all means no body.
ContentLength(head) ==
    LET lines == {i \in 2 .. Len(head) - 1 :
                     head[i - 1] = "\n" /\ head[i + 1] = ":" /\ Lower(head[i]) = "content-length"}
    IN  IF lines = {} THEN 0 ELSE LengthAt(head, Max(lines) + 1)

\* The words of the first line.
StartWords(head) ==
    LET end == {p - 1 : p \in FindSubslice(head, Crlf)} \cup {Len(head)}
    IN  SelectSeq(SubSeq(head, 1, Min(end)), LAMBDA w : w # " ")

Incomplete == [is |-> "incomplete"]
Malformed == [is |-> "malformed"]

\* Request::parse
ParseRequest(buf) ==
    LET blank == FindSubslice(buf, Crlf \o Crlf)
        hend == Min(blank) + 4
        head == SubSeq(buf, 1, hend - 5)
        total == hend - 1 + ContentLength(head)
    IN  IF blank = {} THEN Incomplete
        ELSE IF Len(StartWords(head)) # 3 THEN Malformed
        ELSE IF Len(buf) < total THEN Incomplete
        ELSE [is |-> "request", body |-> SubSeq(buf, hend, total), total |-> total]

\* What send_request takes for the body of all it read to the end of the
\* stream: whatever follows the first empty line, or nothing.
ResponseBody(raw) ==
    LET blank == FindSubslice(raw, Crlf \o Crlf)
    IN  IF blank = {} THEN <<>> ELSE SubSeq(raw, Min(blank) + 4, Len(raw))

-----------------------------------------------------------------------------
HttpInit ==
    /\ message \in [kind : {"request"}, headers : HeaderOrders, doc : HttpDocs]
            \cup [kind : {"response"}, headers : {<<>>}, doc : HttpDocs]
    /\ arrived = 0

\* What is sent over the connection: a request may be followed by the next, a
\* response is the last.
Sent(m) == IF m.kind = "request" THEN Append(Text(m), "GET") ELSE Text(m)

\* One more byte arrives.
ByteArrives ==
    /\ arrived < Len(Sent(message))
    /\ arrived' = arrived + 1
    /\ UNCHANGED message

HttpNext == ByteArrives

HttpSpec == HttpInit /\ [][HttpNext]_httpVars

-----------------------------------------------------------------------------
\* What has arrived so far.
Buffer == SubSeq(Sent(message), 1, arrived)

\* The documents the codec is meant for: of ASCII text and finite numbers.
RECURSIVE Plain(_)
Plain(v) ==
    CASE v[1] = "nonfinite" -> FALSE
      [] v[1] = "str" -> "e'" \notin Range(v[2])
      [] v[1] = "arr" -> \A i \in 1 .. Len(v[2]) : Plain(v[2][i])
      [] v[1] = "obj" -> \A i \in 1 .. Len(v[2]) :
                            Plain(JStr(v[2][i][1])) /\ Plain(v[2][i][2])
      [] OTHER -> TRUE

\* The server takes a request for incomplete until the last byte of its body is
\* there and then takes it whole, without a byte of the next one ("so the caller
\* can drain exactly that many from its buffer", http.rs, doc of Request::parse);
\* and the body, through every escape, sign and nesting, is read as the document
\* of ASCII text and finite numbers that was written.  The console, which does
\* not look at the length ("reading to EOF after the write is sufficient",
\* console.rs, doc of send_request), reads the document of a response that came
\* whole; of a string, array or object that the end of the stream cut short it
\* reads nothing, since Json::parse refuses it.
DocumentArrives ==
    LET whole == arrived >= Len(Text(message))
        r == ParseRequest(Buffer)
        body == IF message.kind = "response" THEN ResponseBody(Buffer)
                ELSE IF whole THEN r.body ELSE <<>>
    IN  /\ message.kind = "request" =>
              /\ r.is = IF whole THEN "request" ELSE "incomplete"
              /\ whole => r.total = Len(Text(message))
        /\ whole /\ Plain(message.doc) =>
              Parse(body).ok /\ Parse(body).value = message.doc
        /\ ~whole /\ message.doc[1] \in {"str", "arr", "obj"} => ~Parse(body).ok

\* "Serializes to a compact JSON string" (json.rs, doc of write_to_string): what
\* the server answers is JSON, which its own parser accepts.
AnswerIsJson ==
    message.kind = "response" /\ arrived = Len(Text(message)) =>
        Parse(ResponseBody(Buffer)).ok
=============================================================================
