--------------------------- MODULE MCConnections ---------------------------
(***************************************************************************)
(* A small instance of Connections: a TCP client, a WebSocket and an HTTP  *)
(* client.                                                                 *)
(***************************************************************************)
EXTENDS Connections, TLC

CONSTANTS t, w, h

MCTransport == t :> "tcp" @@ w :> "websocket" @@ h :> "http"

MCIdOf == [c \in Conns |-> c]

Word(name) == <<name>>

(* Two words, one of them of more than one byte.                           *)
Pair == <<"a", "b", "space", "a">>

(* A backspace with nothing before it, and nothing left in the end.        *)
Erased == <<"backspace", "a", "backspace">>

(* A quoted part, and one whose quote is not closed.                       *)
Quotes == <<"quote", "a", "space", "quote", "quote", "b">>

MCLines ==
    t :> {Word("MULTI"), Word("EXEC"), Word("QUIT"), Pair, Erased}
    @@ w :> {<<>>, Word("MULTI"), Word("DISCARD")}
    @@ h :> {<<"space">>, Quotes}
=============================================================================
