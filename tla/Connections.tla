---------------------------- MODULE Connections ----------------------------
(***************************************************************************)
(* From the bytes of the clients to the commands of ProcessCommand: the    *)
(* read loops of the TCP and WebSocket connections and the HTTP handler of *)
(* main.go, ParseCommand of parser.go, and the text as which a transaction *)
(* keeps a command.  The bytes of a TCP client arrive in chunks that need  *)
(* not end where its lines do.                                             *)
(*                                                                         *)
(* A byte of the model may stand for a word of the program: the names of   *)
(* the four commands that the loops and the dispatch tell apart are one    *)
(* byte each, in either case of letters.  ' is not told from the double    *)
(* quote.  ProcessCommand is one step here; Transactions has its races.    *)
(***************************************************************************)
EXTENDS Naturals, SequencesExt

CONSTANTS
    Letters,        \* the bytes of other words
    Conns,          \* the connections; an HTTP client is one, too
    Transport,      \* "tcp", "websocket" or "http" for each of them
    ClientIds, IdOf,\* the client ID of each connection; HTTP requests share one
    LinesOf,        \* the lines, messages or bodies that each of them may send
    None,           \* no transaction
    MaxLines        \* bound of the model: how many of them are sent

VARIABLES
    peer,           \* the other end: "absent", "up", "closed" or "reset"
    registered,     \* the keys of ClientConnections: the loops that run
    socket,         \* what was sent and not yet read: bytes, or messages
    input,          \* the buffer of the loop of a TCP connection
    server,         \* the flag, the transactions and what was executed
    typed,          \* the lines that each client has sent
    patient,        \* the clients that have waited for each answer
    received        \* the parts that ProcessCommand got from each connection

vars == <<peer, registered, socket, input, server, typed, patient, received>>

Controls == {"MULTI", "EXEC", "DISCARD", "QUIT"}
Blanks == {"space", "newline"}
Bytes == Letters \cup Controls \cup Blanks \cup {"quote", "backspace"}

ASSUME ConnectionsAssumption ==
    /\ Transport \in [Conns -> {"tcp", "websocket", "http"}]
    /\ IdOf \in [Conns -> ClientIds]
    /\ \A c \in Conns : LinesOf[c] \subseteq Seq(Bytes)
    /\ \A c \in Conns : Transport[c] = "tcp" =>
          \A line \in LinesOf[c] : ~ Contains(line, "newline")
    /\ None \notin Seq(Seq(Bytes))
    /\ MaxLines \in Nat

(***************************************************************************)
(* cleanBytes: a backspace takes back the byte before it, if there is one. *)
(* TrimSpace, which follows, changes nothing for ParseCommand.             *)
(***************************************************************************)
cleanBytes(data) ==
    LET clean[n \in 0 .. Len(data)] ==
            IF n = 0 THEN <<>>
            ELSE IF data[n] # "backspace" THEN Append(clean[n - 1], data[n])
            ELSE SubSeq(clean[n - 1], 1, Len(clean[n - 1]) - 1)
    IN  clean[Len(data)]

(* The first of the bytes from the i-th on that is in S, or the end.       *)
FirstOf(S, s, i) == Min({j \in i .. Len(s) : s[j] \in S} \cup {Len(s) + 1})

(* strings.Trim: the quotes at both ends are taken away, paired or not.    *)
Unquoted(s) ==
    LET kept == {i \in DOMAIN s : s[i] # "quote"}
    IN  IF kept = {} THEN <<>> ELSE SubSeq(s, Min(kept), Max(kept))

(***************************************************************************)
(* parser.go:11: a part is what a quote and the next one enclose, blanks   *)
(* included, or else a run of bytes that are not blank.                    *)
(***************************************************************************)
EndOfPart(s, i) ==
    LET closing == FirstOf({"quote"}, s, i + 1)
    IN  IF s[i] = "quote" /\ closing <= Len(s) THEN closing ELSE FirstOf(Blanks, s, i) - 1

ParseCommand(s) ==
    LET from[i \in 1 .. Len(s) + 1] ==
            IF i > Len(s) THEN <<>>
            ELSE IF s[i] \in Blanks THEN from[i + 1]
            ELSE <<Unquoted(SubSeq(s, i, EndOfPart(s, i)))>> \o from[EndOfPart(s, i) + 1]
    IN  from[1]

(* Mutant: the parts are joined without the space.                         *)
JoinTight(parts) == FlattenSeq(parts)

(* handler.go:20, strings.Join(parts, " ").                                *)
Join(parts) ==
    FlattenSeq([i \in DOMAIN parts |-> IF i = 1 THEN parts[i]
                                       ELSE <<"space">> \o parts[i]])

(* tealis.go:99, strings.Fields.                                           *)
Fields(s) ==
    LET from[i \in 1 .. Len(s) + 1] ==
            IF i > Len(s) THEN <<>>
            ELSE IF s[i] \in Blanks THEN from[i + 1]
            ELSE <<SubSeq(s, i, FirstOf(Blanks, s, i) - 1)>> \o from[FirstOf(Blanks, s, i)]
    IN  from[1]

(***************************************************************************)
(* What the server does with a command, as a function of its state: the    *)
(* flag Tealis.multi, the queues of Tealis.Transactions, beside each queue *)
(* the parts its texts were made of, and the commands executed so far.     *)
(***************************************************************************)
ServerStates ==
    [multi : BOOLEAN,
     queue : [ClientIds -> {None} \cup Seq(Seq(Bytes))],
     asked : [ClientIds -> Seq(Seq(Seq(Bytes)))],
     log : Seq(ClientIds \X Seq(Seq(Bytes)))]

ServerInit == [multi |-> FALSE, queue |-> [i \in ClientIds |-> None],
               asked |-> [i \in ClientIds |-> <<>>], log |-> <<>>]

APPENDTO(st, id, parts) ==
    IF st.queue[id] = None THEN st
    ELSE [st EXCEPT !.queue[id] = Append(@, Join(parts)),
                    !.asked[id] = Append(@, parts)]

MULTI(st, id) == [st EXCEPT !.multi = TRUE, !.queue[id] = <<>>, !.asked[id] = <<>>]

DISCARD(st, id) == [st EXCEPT !.multi = FALSE, !.queue[id] = None, !.asked[id] = <<>>]

(* The switch of ProcessCommand; exec is the state that EXEC leaves.       *)
Dispatch(st, id, parts, exec) ==
    LET is(name) == parts[1] = <<name>>
    IN  IF parts = <<>> THEN st
        ELSE IF st.multi /\ ~ is("EXEC") /\ ~ is("DISCARD") THEN APPENDTO(st, id, parts)
        ELSE IF is("MULTI") THEN MULTI(st, id)
        ELSE IF is("EXEC") THEN exec
        ELSE IF is("DISCARD") THEN DISCARD(st, id)
        ELSE [st EXCEPT !.log = Append(@, <<id, parts>>)]

(* The loop of EXEC over its copy of the queue.                            *)
RunTexts(st, id, texts, exec) ==
    LET run[n \in 0 .. Len(texts)] ==
            IF n = 0 THEN DISCARD(st, id)
            ELSE Dispatch(run[n - 1], id, Fields(texts[n]), exec[run[n - 1]])
    IN  run[Len(texts)]

(***************************************************************************)
(* EXEC runs the texts through ProcessCommand again, where a MULTI and an  *)
(* EXEC may be among them, with some of the others in between: depth[n] is *)
(* EXEC of a queue of fewer than n texts.                                  *)
(***************************************************************************)
EXEC(st, id) ==
    LET most == IF st.queue[id] = None THEN 0 ELSE Len(st.queue[id])
        depth[n \in 0 .. most + 1] ==
            [s \in ServerStates |->
                IF n = 0 \/ s.queue[id] = None THEN s
                ELSE RunTexts(s, id, s.queue[id], depth[n - 1])]
    IN  depth[most + 1][st]

ProcessCommand(st, id, parts) == Dispatch(st, id, parts, EXEC(st, id))

Init == /\ peer = [c \in Conns |-> "absent"]
        /\ registered = {}
        /\ socket = [c \in Conns |-> <<>>]
        /\ input = [c \in Conns |-> <<>>]
        /\ server = ServerInit
        /\ typed = [c \in Conns |-> <<>>]
        /\ patient = Conns
        /\ received = [c \in Conns |-> <<>>]

Sent == FoldSet(LAMBDA c, n : n + Len(typed[c]), 0, Conns)

(* The loop of a connection hands over a command and goes on.              *)
Receive(c, parts) ==
    /\ received' = [received EXCEPT ![c] = Append(@, parts)]
    /\ server' = ProcessCommand(server, IdOf[c], parts)

Connect(c) ==
    /\ Transport[c] # "http" /\ peer[c] = "absent"
    /\ peer' = [peer EXCEPT ![c] = "up"]
    /\ registered' = registered \cup {c}
    /\ UNCHANGED <<socket, input, server, typed, patient, received>>

(* What a line of a connection means, and several, one by one.             *)
PartsOf(c, line) == ParseCommand(IF Transport[c] = "tcp" THEN cleanBytes(line) ELSE line)

Meant(c, lines) == [i \in DOMAIN lines |-> PartsOf(c, lines[i])]

(* A blank line is not a command, except as a WebSocket message.           *)
Commands(c, lines) ==
    LET commands[n \in 0 .. Len(lines)] ==
            IF n = 0 THEN <<>>
            ELSE IF Transport[c] = "websocket" \/ PartsOf(c, lines[n]) # <<>>
            THEN Append(commands[n - 1], PartsOf(c, lines[n]))
            ELSE commands[n - 1]
    IN  commands[Len(lines)]

(***************************************************************************)
(* A client sends a line, or a message, after the answer to its last one   *)
(* or before; a blank line is never answered.                              *)
(***************************************************************************)
Send(c) ==
    /\ peer[c] = "up" /\ Sent < MaxLines
    /\ \E line \in LinesOf[c] :
          /\ typed' = [typed EXCEPT ![c] = Append(@, line)]
          /\ socket' = [socket EXCEPT ![c] = IF Transport[c] = "tcp"
                                             THEN @ \o line \o <<"newline">>
                                             ELSE Append(@, line)]
    /\ patient' = IF Len(received[c]) = Len(typed[c]) THEN patient ELSE patient \ {c}
    /\ UNCHANGED <<peer, registered, input, server, received>>

(* A client closes the connection, or it breaks and loses what was unread. *)
HangUp(c) ==
    /\ peer[c] = "up"
    /\ \/ /\ peer' = [peer EXCEPT ![c] = "closed"]
          /\ UNCHANGED socket
       \/ /\ peer' = [peer EXCEPT ![c] = "reset"]
          /\ socket' = [socket EXCEPT ![c] = <<>>]
    /\ UNCHANGED <<registered, input, server, typed, patient, received>>

(* The loop ends: the deferred, or last, lines take it from the map.       *)
Leave(c) == registered' = registered \ {c}

(* Mutant: only what ends with a newline is taken for a command.           *)
ReadChunkToNewline(c) ==
    /\ Transport[c] = "tcp" /\ c \in registered
    /\ \E n \in 1 .. Len(socket[c]) :
          /\ socket' = [socket EXCEPT ![c] = SubSeq(@, n + 1, Len(@))]
          /\ \E data \in {input[c] \o SubSeq(socket[c], 1, n)} :
             \E line \in {cleanBytes(data)} :
             \E parts \in {ParseCommand(line)} :
                 IF Last(data) = "newline"
                 THEN /\ input' = [input EXCEPT ![c] = <<>>]
                      /\ IF parts = <<>> THEN UNCHANGED <<server, received>>
                         ELSE Receive(c, parts)
                      /\ UNCHANGED registered
                 ELSE /\ input' = [input EXCEPT ![c] = data]
                      /\ UNCHANGED <<registered, server, received>>
    /\ UNCHANGED <<peer, typed, patient>>

(* Mutant: what follows the first line in the buffer is dropped.           *)
ReadChunkFirstLine(c) ==
    /\ Transport[c] = "tcp" /\ c \in registered
    /\ \E n \in 1 .. Len(socket[c]) :
          /\ socket' = [socket EXCEPT ![c] = SubSeq(@, n + 1, Len(@))]
          /\ \E data \in {input[c] \o SubSeq(socket[c], 1, n)} :
             \E parts \in {ParseCommand(cleanBytes(
                               SubSeq(data, 1, FirstOf({"newline"}, data, 1) - 1)))} :
                 IF Contains(data, "newline")
                 THEN /\ input' = [input EXCEPT ![c] = <<>>]
                      /\ IF parts = <<>> THEN UNCHANGED <<server, received>>
                         ELSE Receive(c, parts)
                      /\ UNCHANGED registered
                 ELSE /\ input' = [input EXCEPT ![c] = data]
                      /\ UNCHANGED <<registered, server, received>>
    /\ UNCHANGED <<peer, typed, patient>>

(***************************************************************************)
(* conn.Read returns some of the bytes (at most 1024 of them).  When the   *)
(* buffer holds a newline, anywhere, all of it becomes one command: lines  *)
(* that came together are joined, and with them the part of a next line.   *)
(* Only QUIT as first part ends the loop.                                  *)
(***************************************************************************)
ReadChunk(c) ==
    /\ Transport[c] = "tcp" /\ c \in registered
    /\ \E n \in 1 .. Len(socket[c]) :
          /\ socket' = [socket EXCEPT ![c] = SubSeq(@, n + 1, Len(@))]
          /\ \E data \in {input[c] \o SubSeq(socket[c], 1, n)} :
             \E line \in {cleanBytes(data)} :
             \E parts \in {ParseCommand(line)} :
                 IF Contains(data, "newline")
                 THEN /\ input' = [input EXCEPT ![c] = <<>>]
                      /\ IF parts = <<>> THEN UNCHANGED <<server, received>>
                         ELSE Receive(c, parts)
                      /\ IF parts # <<>> /\ parts[1] = <<"QUIT">> THEN Leave(c)
                         ELSE UNCHANGED registered
                 ELSE /\ input' = [input EXCEPT ![c] = data]
                      /\ UNCHANGED <<registered, server, received>>
    /\ UNCHANGED <<peer, typed, patient>>

(* Mutant: the end of the stream is an error like the others.              *)
ReadEndAgain(c) == c \in registered /\ peer[c] = "closed" /\ UNCHANGED vars

(***************************************************************************)
(* The end of the stream: a line without its newline is forgotten.  After  *)
(* any other error the loop calls Read again (main.go:185), gets the error *)
(* again, and so on for ever: it never leaves, and no step here is taken.  *)
(***************************************************************************)
ReadEnd(c) ==
    /\ Transport[c] = "tcp" /\ c \in registered
    /\ peer[c] = "closed" /\ socket[c] = <<>>
    /\ Leave(c)
    /\ UNCHANGED <<peer, socket, input, server, typed, patient, received>>

(* A message is a command; the answer to one who has left ends the loop.   *)
ReadMessage(c) ==
    /\ Transport[c] = "websocket" /\ c \in registered /\ socket[c] # <<>>
    /\ socket' = [socket EXCEPT ![c] = Tail(@)]
    /\ Receive(c, ParseCommand(Head(socket[c])))
    /\ \/ UNCHANGED registered
       \/ peer[c] # "up" /\ Leave(c)
    /\ UNCHANGED <<peer, input, typed, patient>>

(* Here any error ends the loop.                                           *)
MessageError(c) ==
    /\ Transport[c] = "websocket" /\ c \in registered
    /\ peer[c] # "up" /\ socket[c] = <<>>
    /\ Leave(c)
    /\ UNCHANGED <<peer, socket, input, server, typed, patient, received>>

(***************************************************************************)
(* An HTTP request is one command, of the client everyone shares; one with *)
(* nothing in it is refused.                                               *)
(***************************************************************************)
handleCommand(c) ==
    /\ Transport[c] = "http" /\ Sent < MaxLines
    /\ \E body \in LinesOf[c] :
          /\ typed' = [typed EXCEPT ![c] = Append(@, body)]
          /\ IF ParseCommand(body) = <<>> THEN UNCHANGED <<server, received>>
             ELSE Receive(c, ParseCommand(body))
    /\ UNCHANGED <<peer, registered, socket, input, patient>>

Read(c) == ReadChunk(c) \/ ReadEnd(c) \/ ReadMessage(c) \/ MessageError(c)

Next == \E c \in Conns : Connect(c) \/ Send(c) \/ HangUp(c) \/ Read(c) \/ handleCommand(c)

Spec == Init /\ [][Next]_vars

(* Read returns when there is something to return.                         *)
FairSpec == Spec /\ \A c \in Conns : WF_vars(Read(c))

(***************************************************************************)
(* Types, and: no complete line waits in a buffer (main.go:201), since the *)
(* client that sent it may be waiting for the answer.                      *)
(***************************************************************************)
TypeOK ==
    /\ peer \in [Conns -> {"absent", "up", "closed", "reset"}]
    /\ registered \subseteq {c \in Conns : Transport[c] # "http" /\ peer[c] # "absent"}
    /\ \A c \in Conns : Transport[c] = "tcp" => socket[c] \in Seq(Bytes)
    /\ input \in [Conns -> Seq(Bytes)]
    /\ \A c \in Conns : ~ Contains(input[c], "newline")
    /\ server \in ServerStates
    /\ \A i \in ClientIds : \/ server.queue[i] = None
                            \/ server.queue[i] = [n \in DOMAIN server.asked[i] |->
                                                     Join(server.asked[i][n])]

(***************************************************************************)
(* However the network cuts the bytes (main.go:175-225):                   *)
(*   - a client that waits for the answers gets its lines executed as it   *)
(*     typed them, each one command, in order, corrections included (not   *)
(*     if it goes on after a blank line, which is never answered);         *)
(*   - the lines of any other client may be joined, and a word of them may *)
(*     come apart, but as long as they have no quotes and no backspaces no *)
(*     byte of a word is lost, repeated or moved;                          *)
(*   - messages and requests are commands one for one.                     *)
(***************************************************************************)
Pending(c) ==
    IF Transport[c] = "websocket" THEN Meant(c, socket[c])
    ELSE LET parts == ParseCommand(cleanBytes(input[c] \o socket[c]))
         IN  IF parts = <<>> THEN <<>> ELSE <<parts>>

Simple(line) == ~ Contains(line, "quote") /\ ~ Contains(line, "backspace")

(* The bytes that are not blank, in their order.                           *)
Visible(s) ==
    LET visible[n \in 0 .. Len(s)] ==
            IF n = 0 THEN <<>>
            ELSE IF s[n] \in Blanks THEN visible[n - 1]
            ELSE Append(visible[n - 1], s[n])
    IN  visible[Len(s)]

Connected(c) == \/ c \in registered /\ peer[c] # "reset"
                \/ Transport[c] = "http"

BytesBecomeCommands ==
    \A c \in Conns :
        LET meant == Commands(c, typed[c])
            got == received[c] \o Pending(c)
        IN  /\ c \in patient => IsPrefix(received[c], meant)
            /\ Connected(c) /\ (c \in patient \/ Transport[c] # "tcp") => got = meant
            /\ Connected(c) /\ (\A i \in DOMAIN typed[c] : Simple(typed[c][i]))
                  => FlattenSeq(FlattenSeq(got)) = Visible(FlattenSeq(typed[c]))

(***************************************************************************)
(* The queue keeps a command as text and EXEC splits it again              *)
(* (handler.go:20-23, tealis.go:97-100).  As long as the parts have no     *)
(* blanks in them, and are not empty, and none is a MULTI, what EXEC runs  *)
(* is what was queued; quoted arguments may come apart.                    *)
(***************************************************************************)
Plain(parts) == /\ parts[1] # <<"MULTI">>
                /\ \A i \in DOMAIN parts :
                      parts[i] # <<>> /\ \A b \in Blanks : ~ Contains(parts[i], b)

ExecArrives(i) ==
    \E c \in Conns : /\ IdOf[c] = i /\ received'[c] # received[c]
                     /\ Last(received'[c]) # <<>>
                     /\ Last(received'[c])[1] = <<"EXEC">>

ExecRunsAsAsked ==
    [][\A i \in ClientIds :
          /\ ExecArrives(i) /\ server.queue[i] # None
          /\ \A j \in DOMAIN server.asked[i] : Plain(server.asked[i][j])
          => server'.log = server.log
                \o [j \in DOMAIN server.asked[i] |-> <<i, server.asked[i][j]>>]]_vars

(***************************************************************************)
(* A client that closes its connection is forgotten, and one of a broken   *)
(* WebSocket is, too (main.go:118-121, 165-171): the goroutine ends and    *)
(* the map does not grow for ever.  It is not so for a broken TCP stream.  *)
(***************************************************************************)
GoneIsForgotten ==
    \A c \in Conns :
        peer[c] = "closed" \/ (peer[c] = "reset" /\ Transport[c] = "websocket")
            ~> c \notin registered
=============================================================================
