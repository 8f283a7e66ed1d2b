------------------------- MODULE NotificationSender -------------------------
(***************************************************************************)
(* notification_sender.cc: SendNotificationPersistent in the nginx worker  *)
(* processes.  Each process keeps one connection and writes a notification *)
(* to it with a bounded wait; on failure it closes the connection and      *)
(* tries once more on a new one.  Nothing is ever answered.                *)
(***************************************************************************)
EXTENDS UnixSocket

CONSTANT Senders   \* nginx worker processes

VARIABLES
    g_persistent_fd,  \* [Senders -> Conns \cup {None}]
    attempt,          \* [Senders -> {0, 1, 2}], 0: not sending
    message,          \* [Senders -> the notification being sent]
    written,          \* [Senders -> chunks of it written in this attempt]
    sends             \* notifications sent so far (their ids)

senderVars == <<g_persistent_fd, attempt, message, written, sends>>

SenderInit ==
    /\ g_persistent_fd = [p \in Senders |-> None]
    /\ attempt = [p \in Senders |-> 0]
    /\ message = [p \in Senders |-> None]
    /\ written = [p \in Senders |-> 0]
    /\ sends = 0

\* ResetPersistentConnection.
ResetPersistentConnection(p) ==
    /\ g_persistent_fd' = [g_persistent_fd EXCEPT ![p] = None]
    /\ sock' = IF g_persistent_fd[p] = None
               THEN sock
               ELSE [sock EXCEPT ![g_persistent_fd[p]] = SenderClosed(@)]

\* The attempt is over without success: once more, or give up.
NextAttempt(p) ==
    /\ attempt' = [attempt EXCEPT ![p] = (@ + 1) % 3]
    /\ message' = [message EXCEPT ![p] = IF attempt[p] = 2 THEN None ELSE @]
    /\ written' = [written EXCEPT ![p] = 0]

\* The call is over.
Return(p) ==
    /\ attempt' = [attempt EXCEPT ![p] = 0]
    /\ message' = [message EXCEPT ![p] = None]
    /\ written' = [written EXCEPT ![p] = 0]

SendNotificationPersistent(p, u, k) ==
    /\ attempt[p] = 0 /\ sends < MaxSends
    /\ sends' = sends + 1
    /\ message' = [message EXCEPT ![p] = [id |-> sends + 1, url |-> u, kind |-> k]]
    /\ attempt' = [attempt EXCEPT ![p] = 1]
    /\ written' = [written EXCEPT ![p] = 0]
    /\ UNCHANGED <<g_persistent_fd, sock, listening>>

\* EnsureConnected without a connection, and the connect succeeds.
EnsureConnected(p, c) ==
    /\ attempt[p] # 0 /\ g_persistent_fd[p] = None
    /\ listening /\ sock[c].st = "free"
    /\ g_persistent_fd' = [g_persistent_fd EXCEPT ![p] = c]
    /\ sock' = [sock EXCEPT ![c] = Connected(@)]
    /\ UNCHANGED <<attempt, message, written, sends, listening>>

\* EnsureConnected fails: no worker, a full backlog, no descriptor.
ConnectFails(p) ==
    /\ attempt[p] # 0 /\ g_persistent_fd[p] = None
    /\ NextAttempt(p)
    /\ UNCHANGED <<g_persistent_fd, sends, sock, listening>>

\* Mutant of WriteAll: after the last chunk it waits for the worker to read, so
\* that a send that is complete can time out.
WriteAllWaits(p) ==
    LET c == g_persistent_fd[p] IN
    /\ attempt[p] # 0 /\ c # None
    /\ sock[c].rcv /\ Len(sock[c].data) < SockBuf
    /\ LET data == Append(sock[c].data, Frame(message[p])[written[p] + 1]) IN
       IF written[p] + 1 = 2 /\ Len(data) > 1
       THEN /\ sock' = [sock EXCEPT ![c].data = data, ![c].snd = FALSE]
            /\ g_persistent_fd' = [g_persistent_fd EXCEPT ![p] = None]
            /\ NextAttempt(p)
       ELSE /\ sock' = [sock EXCEPT ![c].data = data]
            /\ IF written[p] + 1 = 2
               THEN Return(p)
               ELSE /\ written' = [written EXCEPT ![p] = @ + 1]
                    /\ UNCHANGED <<attempt, message>>
            /\ UNCHANGED g_persistent_fd
    /\ UNCHANGED <<sends, listening>>

\* One send() of WriteAll; the last one ends the call with success.
WriteAll(p) ==
    LET c == g_persistent_fd[p] IN
    /\ attempt[p] # 0 /\ c # None
    /\ sock[c].rcv /\ Len(sock[c].data) < SockBuf
    /\ sock' = [sock EXCEPT ![c].data =
                    Append(@, Frame(message[p])[written[p] + 1])]
    /\ IF written[p] + 1 = 2
       THEN Return(p)
       ELSE /\ written' = [written EXCEPT ![p] = @ + 1]
            /\ UNCHANGED <<attempt, message>>
    /\ UNCHANGED <<g_persistent_fd, sends, listening>>

\* Mutant of WriteFails: the connection is only given up at the second failure.
WriteFailsKeepsFd(p) ==
    LET c == g_persistent_fd[p] IN
    /\ attempt[p] # 0 /\ c # None
    /\ ~sock[c].rcv \/ Len(sock[c].data) >= SockBuf
    /\ IF attempt[p] = 2 THEN ResetPersistentConnection(p)
                         ELSE UNCHANGED <<g_persistent_fd, sock>>
    /\ NextAttempt(p)
    /\ UNCHANGED <<sends, listening>>

\* WriteAll fails: the worker closed its end, or the buffer stayed full for
\* kSendTimeoutMs.
WriteFails(p) ==
    LET c == g_persistent_fd[p] IN
    /\ attempt[p] # 0 /\ c # None
    /\ ~sock[c].rcv \/ Len(sock[c].data) >= SockBuf
    /\ ResetPersistentConnection(p)
    /\ NextAttempt(p)
    /\ UNCHANGED <<sends, listening>>

\* ClosePersistentConnection when the process exits, or the kernel when it
\* dies in the middle of a send; its successor starts without a connection.
ProcessExit(p) ==
    /\ g_persistent_fd[p] # None
    /\ ResetPersistentConnection(p)
    /\ Return(p)
    /\ UNCHANGED <<sends, listening>>

SenderStep(p) ==
    \/ \E u \in Urls, k \in Kinds : SendNotificationPersistent(p, u, k)
    \/ \E c \in Conns : EnsureConnected(p, c)
    \/ ConnectFails(p)
    \/ WriteAll(p)
    \/ WriteFails(p)
    \/ ProcessExit(p)
=============================================================================
