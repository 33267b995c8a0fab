------------------------------ MODULE Writers ------------------------------
(***************************************************************************)
(* The response of one request and the writers it goes through: the        *)
(* ResponseWriter of the context (response.go), which middleware may cover *)
(* with a compressor (compress.go), a recorder (capture.go) or the writer  *)
(* of standard middleware, each under a ResponseWriter of its own          *)
(* (Context.swapWriter).                                                   *)
(*                                                                         *)
(* A response is [layers, header, wire, head]: head for a HEAD request, of *)
(* whose response the server drops the body.  layers[1] is the context's   *)
(* own writer; the last one is c.res.  The header is one for all layers, a *)
(* set of pairs; wire is what the server sent: its status (0: nothing      *)
(* yet), the header at that moment and the body.  A piece of a body is     *)
(* [of, big, zip]: who wrote it, whether it reaches the compressor's       *)
(* MinLength and the recorder's limit (two numbers in the code, which are  *)
(* one here), and whether it is compressed.                                *)
(* Interim statuses (1xx) and hijacking are left out.                      *)
(***************************************************************************)
EXTENDS Naturals, Sequences, SequencesExt, FiniteSets

Layer(kind) == [kind |-> kind, status |-> 0, before |-> <<>>,
                code |-> 0, buf |-> <<>>, decided |-> FALSE, zip |-> FALSE,
                kept |-> {}, overflow |-> FALSE]

NoWire == [status |-> 0, header |-> {}, body |-> <<>>]
NewResponse(head) ==
  [layers |-> <<Layer("own")>>, header |-> {}, wire |-> NoWire, head |-> head]

SetHeader(h, name, v) == {p \in h : p[1] # name} \cup {<<name, v>>}
AddHeader(h, name, v) == h \cup {<<name, v>>}
HasHeader(h, name) == \E p \in h : p[1] = name

Top(r) == Len(r.layers)
Status(r) == Last(r.layers).status
Written(r) == Status(r) # 0
Cover(r, kind) == [r EXCEPT !.layers = Append(@, Layer(kind))]
Uncover(r) == [r EXCEPT !.layers = Front(@)]

(* A hook registered with Before is refused once the header is sent.       *)
Before(r, hook) ==
  IF Written(r) THEN r
  ELSE [r EXCEPT !.layers[Top(r)].before = Append(@, hook)]

BodyAllowed(status) == status \notin {204, 304}
Replayed == {"Content-Type", "Content-Encoding", "Cache-Control", "Vary", "Location"}

(* The hooks of layer i run on the header, the last registered first.      *)
Hooked(r, i) ==
  LET hooks == r.layers[i].before
      after[n \in 0..Len(hooks)] ==
        IF n = 0 THEN r.header
        ELSE LET hook == hooks[Len(hooks) - n + 1] IN SetHeader(after[n - 1], hook[1], hook[2])
  IN after[Len(hooks)]

(* A header on its way down through the layers: the response, and the      *)
(* status for the next one (0 for none: nothing goes on).                  *)
On(r, code) == [r |-> r, code |-> code]

(* ResponseWriter.WriteHeader of layer i, where the first status counts,   *)
(* and the writer under the layer.                                         *)
UnderHeader(r, i, code) ==
  LET kind == r.layers[i].kind
  IN CASE kind = "own" ->
            On(IF r.wire.status # 0 THEN r
               ELSE [r EXCEPT !.wire = [status |-> code, header |-> r.header, body |-> <<>>]], 0)
       [] kind = "gzip" ->
            On(IF r.layers[i].code = 0 THEN [r EXCEPT !.layers[i].code = code] ELSE r, 0)
       [] kind = "record" ->
            On([r EXCEPT !.layers[i].code = code,
                         !.layers[i].kept = {p \in r.header : p[1] \in Replayed},
                         !.layers[i].overflow = HasHeader(r.header, "Set-Cookie")], code)
       [] OTHER -> On(r, code)
HeaderAt(r, i, code) ==
  IF r.layers[i].status # 0 THEN On(r, 0)
  ELSE UnderHeader([r EXCEPT !.header = Hooked(r, i), !.layers[i].before = <<>>,
                             !.layers[i].status = code], i, code)

(* From layer i down, as far as the header goes: after n layers.           *)
Commit(r, i, code) ==
  LET down[n \in 0..i] ==
        IF n = 0 THEN On(r, code)
        ELSE IF down[n - 1].code = 0 THEN down[n - 1]
        ELSE HeaderAt(down[n - 1].r, i - n + 1, down[n - 1].code)
  IN down[i].r

(* What the compressor compresses: bodies that are long enough or flushed, *)
(* may exist, and are not encoded yet.  (All types here are compressible.) *)
Compresses(r, i, enough) ==
  enough /\ BodyAllowed(r.layers[i].code) /\ ~HasHeader(r.header, "Content-Encoding")

(* Pieces on their way down: the response, and those for the next layer,   *)
(* in their order.                                                         *)
Flow(r, pieces) == [r |-> r, pieces |-> pieces]
Zipped(pieces, zip) == [k \in DOMAIN pieces |-> [pieces[k] EXCEPT !.zip = @ \/ zip]]
SomeBig(pieces) == \E k \in DOMAIN pieces : pieces[k].big

(* decide: the header goes on, then all that is buffered.                  *)
Release(r, i, zip) ==
  Flow(Commit([r EXCEPT !.header = IF zip THEN SetHeader(@, "Content-Encoding", "gzip") ELSE @,
                        !.layers[i].decided = TRUE, !.layers[i].zip = zip,
                        !.layers[i].buf = <<>>],
              i - 1, r.layers[i].code),
       Zipped(r.layers[i].buf, zip))
Decide(r, i, enough) == Release(r, i, Compresses(r, i, enough))

Buffer(r, i, pieces) == [r EXCEPT !.layers[i].buf = @ \o pieces]

(* ResponseWriter.Write of layer i, and the writer under it: once the      *)
(* compressor has decided, what comes after goes the same way.             *)
UnderWrite(r, i, pieces) ==
  LET kind == r.layers[i].kind
  IN CASE kind = "own" ->
            Flow(IF r.head \/ ~BodyAllowed(r.wire.status) THEN r
                 ELSE [r EXCEPT !.wire.body = @ \o pieces], <<>>)
       [] kind = "gzip" /\ r.layers[i].decided -> Flow(r, Zipped(pieces, r.layers[i].zip))
       [] kind = "gzip" /\ ~r.layers[i].decided ->
            IF SomeBig(pieces) THEN Decide(Buffer(r, i, pieces), i, TRUE)
            ELSE Flow(Buffer(r, i, pieces), <<>>)
       [] kind = "record" ->
            Flow(IF r.layers[i].overflow \/ SomeBig(pieces)
                   THEN [r EXCEPT !.layers[i].overflow = TRUE, !.layers[i].buf = <<>>]
                   ELSE Buffer(r, i, pieces),
                 pieces)
       [] OTHER -> Flow(r, pieces)
WriteAt(r, i, pieces) == UnderWrite(Commit(r, i, 200), i, pieces)

(* From layer i down, as far as there is something to write.               *)
Put(r, i, pieces) ==
  LET down[n \in 0..i] ==
        IF n = 0 THEN Flow(r, pieces)
        ELSE IF down[n - 1].pieces = <<>> THEN down[n - 1]
        ELSE WriteAt(down[n - 1].r, i - n + 1, down[n - 1].pieces)
  IN down[i].r
Sink(flow, i) == Put(flow.r, i - 1, flow.pieces)

(* FlushError of every layer from the top; the recorder and the standard   *)
(* writer pass it on to the ResponseWriter below them.                     *)
Forced(r, i) ==
  IF r.layers[i].kind = "gzip" /\ ~r.layers[i].decided THEN Sink(Decide(r, i, TRUE), i) ELSE r
FlushAt(r, i) ==
  LET down[n \in 0..i] ==
        IF n = 0 THEN r ELSE Forced(Commit(down[n - 1], i - n + 1, 200), i - n + 1)
  IN down[i]

WriteHeader(r, code) == Commit(r, Top(r), code)
Write(r, piece) == Put(r, Top(r), <<piece>>)
Flush(r) == FlushAt(r, Top(r))

(* Context.writeBody: the header first, and a body where one may be.       *)
Payload(r, status, piece) == IF r.head \/ ~BodyAllowed(status) THEN r ELSE Write(r, piece)
WriteBody(r, status, ctype, piece) ==
  IF Written(r) THEN r
  ELSE Payload(WriteHeader([r EXCEPT !.header = SetHeader(@, "Content-Type", ctype)], status),
               status, piece)

(* (Slip: what is still buffered when the handler is done stays there.)    *)
CloseDropping(r) == Uncover(r)

(* restore() and gzipWriter.close(): the compressor's own layer is gone,   *)
(* and what it buffered is decided upon and written.                       *)
CloseGzip(r) ==
  LET i == Top(r)
  IN Uncover(IF r.layers[i].code # 0 /\ ~r.layers[i].decided
               THEN Sink(Decide(r, i, SomeBig(r.layers[i].buf)), i) ELSE r)

(* Recorder.Result: nothing when nothing was written, or too much, or a    *)
(* cookie was set.                                                         *)
Captured(r) ==
  LET l == Last(r.layers)
  IN IF l.code = 0 \/ l.overflow THEN {}
     ELSE {[status |-> l.code, header |-> l.kept, body |-> l.buf]}

(* Response.WriteTo: a recorded response, with X-Cache or the like.        *)
Replay(r, stored, extra) ==
  LET set == stored.header \cup extra
      kept == {p \in r.header : \A q \in set : q[1] # p[1]}
  IN Put(WriteHeader([r EXCEPT !.header = kept \cup set], stored.status), Top(r), stored.body)
=============================================================================
