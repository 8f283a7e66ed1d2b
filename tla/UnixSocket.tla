----------------------------- MODULE UnixSocket -----------------------------
(***************************************************************************)
(* The worker's notification socket as the sender (socket, connect, send,  *)
(* close) and the worker (accept, read, close) use it: the kernel's side,  *)
(* modelled from those calls.  A notification crosses it in two chunks, so *)
(* that writes and reads can stop in the middle of a frame.                *)
(***************************************************************************)
EXTENDS Integers, Sequences

CONSTANTS
    Conns,     \* the connections ever made, one identity each
    Urls,      \* cache keys (url, hostname, scheme, site)
    Kinds,     \* what a notification asks for; "refused": no worker accepts it
    MaxSends,  \* bound: notifications sent
    SockBuf,   \* chunks the kernel buffers per connection
    None       \* no connection, no notification

VARIABLES
    sock,       \* [Conns -> state of the connection in the kernel]
    listening   \* the worker's listening socket is open

Notifications == [id : 1..MaxSends, url : Urls, kind : Kinds]

ASSUME SockAssumption ==
    /\ SockBuf \in Nat \ {0} /\ MaxSends \in Nat
    /\ None \notin Conns /\ None \notin Notifications

\* CacheNotification::Serialize: a length header and the body.
Frame(m) == <<[msg |-> m, part |-> 1], [msg |-> m, part |-> 2]>>

Chunks == [msg : Notifications, part : {1, 2}]

Socket == [st   : {"free", "backlog", "accepted"},
           data : Seq(Chunks),   \* written, not yet read
           snd  : BOOLEAN,       \* the sender's end is open
           rcv  : BOOLEAN]       \* the worker's end is open

Free == [st |-> "free", data |-> <<>>, snd |-> FALSE, rcv |-> FALSE]

Connected(s) == [s EXCEPT !.st = "backlog", !.snd = TRUE, !.rcv = TRUE]

SenderClosed(s) == [s EXCEPT !.snd = FALSE]

\* What was not read is gone with the reader.
ReaderClosed(s) == [s EXCEPT !.rcv = FALSE, !.data = <<>>]

SockInit ==
    /\ sock = [c \in Conns |-> Free]
    /\ listening = TRUE
=============================================================================
