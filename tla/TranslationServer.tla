------------------------- MODULE TranslationServer -------------------------
(***************************************************************************)
(* One connection of the translation server prototype,                     *)
(* src/prototypes/translate.py: the Twisted protocol `Translation' with    *)
(* connectionMade, dataReceived, _handle_packet and _handle_request.      *)
(*                                                                         *)
(* The client sends the byte stream of the packet sequence `stream'; the  *)
(* reactor hands it to dataReceived in chunks of any size from 1 to        *)
(* MaxChunk bytes.  dataReceived's loop is a sequence of steps (pc =       *)
(* "loop") that no other call interleaves: the reactor is single-threaded. *)
(*                                                                         *)
(* PacketReader, Request and Response come from the beng_proxy.translation *)
(* library, which is not part of this repository.  They are modelled by    *)
(* the protocol they implement: a packet is a HeaderSize-byte header and   *)
(* its payload, PacketReader.consume takes bytes up to the end of its      *)
(* packet and returns the rest, Request.packetReceived records URI,        *)
(* PARAM and SESSION packets and returns true on END.  A payload string is *)
(* one of a few values, each PayloadLen bytes long.  A WIDGET_TYPE        *)
(* request is answered from the widget's file, WidgetFiles[type]: Missing  *)
(* when open() fails, otherwise its lines, each a keyword and its quoted   *)
(* arguments (the groups the regular expressions capture).                 *)
(***************************************************************************)
EXTENDS Integers, Sequences, SequencesExt

CONSTANTS Packets,      \* the packets the client may send: [cmd, val] records
          MaxPackets,   \* the longest packet sequence Init builds
          HeaderSize,   \* bytes of a packet header
          MaxChunk,     \* the largest chunk dataReceived is given
          None,         \* Python's None
          WidgetFiles,  \* /etc/cm4all/beng/widgets/<type>: Missing or its lines
          Missing       \* a widget file open() cannot open

ASSUME ChunkAssumption == MaxChunk \in Nat \ {0} /\ HeaderSize \in Nat \ {0}
ASSUME PacketsAssumption ==
  Packets \subseteq [cmd : {"BEGIN", "END", "URI", "PARAM", "SESSION", "WIDGET_TYPE"},
                     val : {None} \cup {"", "u", "s", "w", "m", "/a", "/a.html", "/a.cgi",
                                        "/cm4all-beng-proxy/a.html"}]

\* The keywords of a widget file line.  A line is [kw, args]: "" for an
\* empty line, "#" for a comment, and its first word otherwise.
WidgetKeywords ==
  {"", "#", "server", "cgi", "fastcgi", "ajp", "path", "script_name", "document_root",
   "action", "interpreter", "process", "container", "stateful", "host"}
\* the keywords of the `m = re.match(r'^kw\s+"(\S+)"$', line)' lines
OneArgKeywords == {"server", "cgi", "fastcgi", "path", "script_name", "document_root",
                   "action", "interpreter"}
\* the keywords tested with `line == kw'
FlagKeywords == {"process", "container", "stateful"}
WidgetLine == [kw : WidgetKeywords, args : Seq({"x", "y"})]

ASSUME WidgetAssumption ==
  /\ Missing \notin Seq(WidgetLine)
  /\ \A t \in DOMAIN WidgetFiles : WidgetFiles[t] = Missing \/ WidgetFiles[t] \in Seq(WidgetLine)

\* The prefix of _handle_request: request.uri[:19] == '/cm4all-beng-proxy/'.
BengPrefix == {"/cm4all-beng-proxy/a.html"}

PayloadLen(p) == IF p.val \in {None, ""} THEN 0 ELSE 1

Size(p) == HeaderSize + PayloadLen(p)

Streams == UNION {[1..n -> Packets] : n \in 0..MaxPackets}

TotalBytes(s) == FoldLeft(LAMBDA acc, p : acc + Size(p), 0, s)

NoRequest == [uri |-> None, param |-> None, session |-> None, widget |-> None]

\* _handle_request raises: no widget type, and request.uri[:19] on None.
Raises(r) == r.uri = None /\ r.widget = None

(***************************************************************************)
(* One line of the loop of _handle_widget_lookup on the response so far:  *)
(* blank lines and comments are skipped, a line matching one of the       *)
(* regular expressions or a flag word adds its packet, any other line is  *)
(* a syntax error: status 500 and `break'.                                 *)
(***************************************************************************)
\* The `break' after the syntax error left out: later lines still count.
WidgetStepNoBreak(st, l) ==
  IF st.stop THEN st
  ELSE CASE l.kw \in {"", "#"} -> st
         [] l.kw \in OneArgKeywords /\ Len(l.args) = 1 ->
              [st EXCEPT !.out = Append(@, <<IF l.kw = "server" THEN "PROXY" ELSE l.kw, l.args>>)]
         [] l.kw = "ajp" /\ Len(l.args) = 2 -> [st EXCEPT !.out = Append(@, <<"AJP", l.args>>)]
         [] l.kw \in FlagKeywords /\ l.args = <<>> ->
              [st EXCEPT !.out = Append(@, <<l.kw, None>>)]
         [] OTHER -> [st EXCEPT !.out = Append(@, <<"STATUS", 500>>)]

WidgetStep(st, l) ==
  IF st.stop THEN st
  ELSE CASE l.kw \in {"", "#"} -> st
         [] l.kw \in OneArgKeywords /\ Len(l.args) = 1 ->
              [st EXCEPT !.out = Append(@, <<IF l.kw = "server" THEN "PROXY" ELSE l.kw, l.args>>)]
         [] l.kw = "ajp" /\ Len(l.args) = 2 -> [st EXCEPT !.out = Append(@, <<"AJP", l.args>>)]
         [] l.kw \in FlagKeywords /\ l.args = <<>> ->
              [st EXCEPT !.out = Append(@, <<l.kw, None>>)]
         [] OTHER -> [out |-> Append(st.out, <<"STATUS", 500>>), stop |-> TRUE]

\* _handle_widget_lookup(request): status 404 when the file does not open.
WidgetLookup(t) ==
  IF WidgetFiles[t] = Missing THEN << <<"STATUS", 404>> >>
  ELSE FoldLeft(WidgetStep, [out |-> <<>>, stop |-> FALSE], WidgetFiles[t]).out

(***************************************************************************)
(* _handle_request: the packets of the response, as <<command, value>>     *)
(* pairs; a request with a widget type is _handle_widget_lookup's, before  *)
(* the URI is looked at.  `path' is kept as the pair of its directory and the URI:        *)
(* argv[2] (or the js/ directory) for the proxy's own prefix, /var/www     *)
(* otherwise.  cgi_re matches the URIs ending in .cgi (and .sh, .rb, ...).  *)
(***************************************************************************)
Respond(r) ==
  IF r.widget # None THEN WidgetLookup(r.widget) ELSE
  LET path == IF r.uri \in BengPrefix THEN <<"js", r.uri>> ELSE <<"/var/www", r.uri>>
      cgi == r.uri = "/a.cgi"
      user == IF r.param # None THEN r.param ELSE r.session
      session == r.param
      html == ~cgi /\ r.uri \in {"/a.html", "/cm4all-beng-proxy/a.html"}
  IN  << <<"DOCUMENT_ROOT", "/var/www">>, <<IF cgi THEN "CGI" ELSE "PATH", path>> >>
      \o (IF user # None THEN << <<"USER", user>> >> ELSE <<>>)
      \o (IF session # None THEN << <<"SESSION", session>> >> ELSE <<>>)
      \o (IF html THEN << <<"CONTENT_TYPE", "text/html">>, <<"PROCESS", None>>,
                          <<"CONTAINER", None>> >> ELSE <<>>)

\* Request.packetReceived: record the packet; true when it ends the request.
Record(r, p) ==
  CASE p.cmd = "URI"     -> [r EXCEPT !.uri = p.val]
    [] p.cmd = "PARAM"   -> [r EXCEPT !.param = p.val]
    [] p.cmd = "SESSION" -> [r EXCEPT !.session = p.val]
    [] p.cmd = "WIDGET_TYPE" -> [r EXCEPT !.widget = p.val]
    [] OTHER             -> r

VARIABLES stream,    \* what the client sends (ghost)
          sent,      \* bytes handed to dataReceived so far
          pc,        \* "idle" between calls, "loop" inside dataReceived
          data,      \* bytes of the current chunk not yet consumed
          pk,        \* the packet the reader is on: packets 1..pk-1 are complete
          rd,        \* self._packet: None (-1) or the bytes it has read
          req,       \* self._request: None or the request being assembled
          responses, \* what transport.write has sent, one response per request
          invalid,   \* commands printed as "Invalid command without request"
          closed     \* an exception left dataReceived: the connection is lost

vars == <<stream, sent, pc, data, pk, rd, req, responses, invalid, closed>>

(***************************************************************************)
(* Variants of the code with plausible bugs, each defined before the       *)
(* definition it would replace.                                            *)
(***************************************************************************)
\* _handle_packet testing `self._request is not None' before the command:
\* a BEGIN inside a request is handed to the request and ignored.
HandlePacketBeginLast(p) ==
  IF req # None
    THEN IF p.cmd = "END"
           THEN IF Raises(req)
                  THEN [req |-> None, out |-> <<>>, inv |-> <<>>, crash |-> TRUE]
                  ELSE [req |-> None, out |-> <<Respond(req)>>, inv |-> <<>>, crash |-> FALSE]
           ELSE [req |-> Record(req, p), out |-> <<>>, inv |-> <<>>, crash |-> FALSE]
  ELSE IF p.cmd = "BEGIN" THEN [req |-> NoRequest, out |-> <<>>, inv |-> <<>>, crash |-> FALSE]
  ELSE [req |-> None, out |-> <<>>, inv |-> <<p.cmd>>, crash |-> FALSE]

\* self._request = None dropped after a request is handled.
HandlePacketKeepsRequest(p) ==
  IF p.cmd = "BEGIN" THEN [req |-> NoRequest, out |-> <<>>, inv |-> <<>>, crash |-> FALSE]
  ELSE IF req # None
    THEN IF p.cmd = "END"
           THEN IF Raises(req)
                  THEN [req |-> None, out |-> <<>>, inv |-> <<>>, crash |-> TRUE]
                  ELSE [req |-> req, out |-> <<Respond(req)>>, inv |-> <<>>, crash |-> FALSE]
           ELSE [req |-> Record(req, p), out |-> <<>>, inv |-> <<>>, crash |-> FALSE]
  ELSE [req |-> None, out |-> <<>>, inv |-> <<p.cmd>>, crash |-> FALSE]

(***************************************************************************)
(* _handle_packet(packet), with _handle_request when the request ends:    *)
(* the new request, what is written, what is printed as invalid, and      *)
(* whether _handle_request raised (request.uri[:19] on a request without  *)
(* a URI packet: None is not subscriptable).                              *)
(***************************************************************************)
HandlePacket(p) ==
  IF p.cmd = "BEGIN" THEN [req |-> NoRequest, out |-> <<>>, inv |-> <<>>, crash |-> FALSE]
  ELSE IF req # None
    THEN IF p.cmd = "END"
           THEN IF Raises(req)
                  THEN [req |-> None, out |-> <<>>, inv |-> <<>>, crash |-> TRUE]
                  ELSE [req |-> None, out |-> <<Respond(req)>>, inv |-> <<>>, crash |-> FALSE]
           ELSE [req |-> Record(req, p), out |-> <<>>, inv |-> <<>>, crash |-> FALSE]
  ELSE [req |-> None, out |-> <<>>, inv |-> <<p.cmd>>, crash |-> FALSE]

\* The reader consuming everything it is given, past its packet's end.
ConsumeStepOverreads ==
  /\ pc = "loop" /\ data > 0
  /\ LET r == IF rd = -1 THEN 0 ELSE rd
         need == Size(stream[pk]) - r
     IN  IF data >= need
           THEN LET h == HandlePacket(stream[pk])
                IN  /\ data' = 0 /\ rd' = -1 /\ pk' = pk + 1
                    /\ req' = h.req /\ responses' = responses \o h.out
                    /\ invalid' = invalid \o h.inv /\ closed' = h.crash
                    /\ pc' = IF h.crash THEN "idle" ELSE "loop"
           ELSE /\ data' = 0 /\ rd' = r + data
                /\ UNCHANGED <<pk, req, responses, invalid, closed, pc>>
  /\ UNCHANGED <<stream, sent>>

\* The reader reporting its packet complete one byte early (an off-by-one
\* in its length test): it hands back a byte it does not have.
ConsumeStepOffByOne ==
  /\ pc = "loop" /\ data > 0
  /\ LET r == IF rd = -1 THEN 0 ELSE rd
         need == Size(stream[pk]) - r
     IN  IF data >= need - 1
           THEN LET h == HandlePacket(stream[pk])
                IN  /\ data' = data - need /\ rd' = -1 /\ pk' = pk + 1
                    /\ req' = h.req /\ responses' = responses \o h.out
                    /\ invalid' = invalid \o h.inv /\ closed' = h.crash
                    /\ pc' = IF h.crash THEN "idle" ELSE "loop"
           ELSE /\ data' = 0 /\ rd' = r + data
                /\ UNCHANGED <<pk, req, responses, invalid, closed, pc>>
  /\ UNCHANGED <<stream, sent>>

\* `if len(data) > 0' for `while': the rest of a chunk is dropped.
LoopOnce ==
  /\ pc = "loop"
  /\ pc' = "idle" /\ data' = 0
  /\ UNCHANGED <<stream, sent, pk, rd, req, responses, invalid, closed>>

\* connectionMade: self._request = None; self._packet = None
Init ==
  /\ stream \in Streams
  /\ sent = 0 /\ pc = "idle" /\ data = 0
  /\ pk = 1 /\ rd = -1 /\ req = None
  /\ responses = <<>> /\ invalid = <<>> /\ closed = FALSE

\* The reactor calls dataReceived with the next k bytes of the stream.
Receive ==
  /\ pc = "idle" /\ ~closed
  /\ \E k \in 1..MaxChunk :
       /\ sent + k <= TotalBytes(stream)
       /\ sent' = sent + k /\ data' = k /\ pc' = "loop"
  /\ UNCHANGED <<stream, pk, rd, req, responses, invalid, closed>>

(***************************************************************************)
(* One iteration of `while len(data) > 0': a new PacketReader if there is *)
(* none, data = self._packet.consume(data), and if the packet is complete *)
(* _handle_packet and self._packet = None.  An exception from             *)
(* _handle_packet leaves dataReceived and Twisted drops the connection.   *)
(***************************************************************************)
ConsumeStep ==
  /\ pc = "loop" /\ data > 0
  /\ LET r == IF rd = -1 THEN 0 ELSE rd
         need == Size(stream[pk]) - r
     IN  IF data >= need
           THEN LET h == HandlePacket(stream[pk])
                IN  /\ data' = data - need /\ rd' = -1 /\ pk' = pk + 1
                    /\ req' = h.req /\ responses' = responses \o h.out
                    /\ invalid' = invalid \o h.inv /\ closed' = h.crash
                    /\ pc' = IF h.crash THEN "idle" ELSE "loop"
           ELSE /\ data' = 0 /\ rd' = r + data
                /\ UNCHANGED <<pk, req, responses, invalid, closed, pc>>
  /\ UNCHANGED <<stream, sent>>

\* the chunk is used up: dataReceived returns
LoopExit ==
  /\ pc = "loop" /\ data = 0
  /\ pc' = "idle"
  /\ UNCHANGED <<stream, sent, data, pk, rd, req, responses, invalid, closed>>

Next == Receive \/ ConsumeStep \/ LoopExit

Spec == Init /\ [][Next]_vars /\ WF_vars(Next)

-----------------------------------------------------------------------------
(***************************************************************************)
(* Properties.                                                             *)
(***************************************************************************)
Requests == {None} \cup [uri : {None} \cup {p.val : p \in Packets},
                         param : {None} \cup {p.val : p \in Packets},
                         session : {None} \cup {p.val : p \in Packets},
                         widget : {None} \cup {p.val : p \in Packets}]

\* A packet of a response: a command and its value (STATUS with its code).
IsResponsePacket(x) ==
  CASE x[1] = "STATUS" -> x[2] \in {404, 500}
    [] x[1] \in OneArgKeywords \cup {"PROXY", "AJP"} -> x[2] \in Seq({"x", "y"})
    [] x[1] \in FlagKeywords \cup {"PROCESS", "CONTAINER"} -> x[2] = None
    [] x[1] \in {"CGI", "PATH"} -> x[2] \in {"js", "/var/www"} \X {p.val : p \in Packets}
    [] OTHER ->
         /\ x[1] \in {"DOCUMENT_ROOT", "USER", "SESSION", "CONTENT_TYPE"}
         /\ x[2] \in {"/var/www", "text/html"} \cup {p.val : p \in Packets}

TypeOK == /\ stream \in Streams
          /\ sent \in 0..TotalBytes(stream)
          /\ pc \in {"idle", "loop"} /\ data \in 0..MaxChunk
          /\ pk \in 1..(Len(stream) + 1) /\ rd \in -1..(HeaderSize + 1)
          /\ req \in Requests
          /\ \A a \in 1..Len(responses) :
                \A b \in 1..Len(responses[a]) : IsResponsePacket(responses[a][b])
          /\ invalid \in Seq({"END", "URI", "PARAM", "SESSION", "WIDGET_TYPE"})
          /\ closed \in BOOLEAN

(***************************************************************************)
(* Byte accounting across chunk boundaries (dataReceived's loop and        *)
(* `self._packet' kept between calls): every byte handed to dataReceived   *)
(* so far is in a completed packet, in the pending PacketReader, or still *)
(* in the chunk being consumed, and in only one of them.                   *)
(***************************************************************************)
ByteAccounting ==
  ~closed => sent = TotalBytes(SubSeq(stream, 1, pk - 1))
                      + (IF rd = -1 THEN 0 ELSE rd) + data

\* Reference: the requests of a packet sequence s, stated without a state
\* machine: an END answers the request opened by the last BEGIN before it,
\* if no other END comes between them; the request holds what the packets
\* in between set.
LastBegin(s, e) == Max({0} \cup {b \in 1..(e - 1) : s[b].cmd = "BEGIN"})

Answers(s, e) ==
  /\ s[e].cmd = "END" /\ LastBegin(s, e) > 0
  /\ \A m \in (LastBegin(s, e) + 1)..(e - 1) : s[m].cmd # "END"

RequestAt(s, e) == FoldLeft(Record, NoRequest, SubSeq(s, LastBegin(s, e) + 1, e - 1))

AnsweredRequests(s) ==
  LET ends == SelectSeq([i \in 1..Len(s) |-> i], LAMBDA e : Answers(s, e))
  IN  [k \in 1..Len(ends) |-> RequestAt(s, ends[k])]

\* The answered requests up to the first without a URI, which crashes.
Served(s) ==
  LET rs == AnsweredRequests(s)
      bad == {k \in 1..Len(rs) : Raises(rs[k])}
      n == IF bad = {} THEN Len(rs) ELSE Min(bad) - 1
  IN  [k \in 1..n |-> Respond(rs[k])]

Crashed(s) == \E k \in 1..Len(AnsweredRequests(s)) : Raises(AnsweredRequests(s)[k])

(***************************************************************************)
(* Responses match requests (_handle_packet, _handle_request): between     *)
(* calls of dataReceived, whatever the chunking, the responses written are *)
(* exactly those of the requests the completed packets have answered, in   *)
(* order: a BEGIN inside a request discards it, packets outside a request  *)
(* are ignored, and the connection is lost exactly at the first request    *)
(* without a URI.                                                          *)
(***************************************************************************)
ResponsesMatch ==
  pc = "idle" => /\ responses = Served(SubSeq(stream, 1, pk - 1))
                 /\ closed = Crashed(SubSeq(stream, 1, pk - 1))

\* Reference: the response to a widget file stated without the loop: the
\* packets of the lines before the first line no pattern accepts, and
\* status 500 if there is such a line.
Accepted(l) ==
  \/ l.kw \in {"", "#"}
  \/ l.kw \in OneArgKeywords /\ Len(l.args) = 1
  \/ l.kw = "ajp" /\ Len(l.args) = 2
  \/ l.kw \in FlagKeywords /\ l.args = <<>>

PacketOf(l) ==
  CASE l.kw \in {"", "#"} -> <<>>
    [] l.kw = "server"       -> << <<"PROXY", l.args>> >>
    [] l.kw = "ajp"          -> << <<"AJP", l.args>> >>
    [] l.kw \in FlagKeywords -> << <<l.kw, None>> >>
    [] OTHER                 -> << <<l.kw, l.args>> >>

WidgetResponse(ls) ==
  LET bad == {i \in 1..Len(ls) : ~Accepted(ls[i])}
      n == IF bad = {} THEN Len(ls) ELSE Min(bad) - 1
  IN  FlattenSeq([i \in 1..n |-> PacketOf(ls[i])])
        \o (IF bad = {} THEN <<>> ELSE << <<"STATUS", 500>> >>)

(***************************************************************************)
(* A request naming a widget type is answered by _handle_widget_lookup,   *)
(* whatever else it carries, from the widget's file as written: 404 when   *)
(* the file does not open; otherwise one packet per accepted line, blank   *)
(* lines and comments skipped, and at the first syntax error status 500    *)
(* with nothing of the lines after it (the packets before it stay in the   *)
(* response).                                                              *)
(***************************************************************************)
WidgetLookupExact ==
  (req # None /\ req.widget # None) =>
    LET t == req.widget
    IN  Respond(req) = IF WidgetFiles[t] = Missing THEN << <<"STATUS", 404>> >>
                       ELSE WidgetResponse(WidgetFiles[t])

(***************************************************************************)
(* Every request the client sends is answered, or the connection is lost: *)
(* the server never stalls with a complete packet unread.                  *)
(***************************************************************************)
AllAnswered == <>(closed \/ (pc = "idle" /\ pk = Len(stream) + 1))

=============================================================================
